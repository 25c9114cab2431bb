------------------------------- MODULE Tools -------------------------------
(***************************************************************************)
(* The typed tools of x16mcp.server over several sessions: each resolves   *)
(* its session id, calls one method of that session's client and shapes    *)
(* what the method returns.  FastMCP runs one tool at a time; the          *)
(* emulators run on, so a line whose tool has given up is still obeyed,    *)
(* later, and its reply is taken by a tool that did not ask for it.        *)
(*                                                                         *)
(* A client is what CommandService says of it (UsesService): a line goes   *)
(* out, a reply comes back or the call gives up.  The files are those that *)
(* screenshot makes; breakpoints and watchpoints are those of Points.      *)
(***************************************************************************)
EXTENDS Points

CONSTANTS
    SessionId,
    ReadTools, OrderTools,  \* the tools the callers use, of Reads and of Orders
    RawLines,               \* the lines they give to x16db
    Chunks,                 \* lines of a write_memory
    MaxCalls                \* bound: calls of tools

VARIABLES
    session,  \* of each id: "new", "open" (in _sessions) or "closed"
    client,   \* of each id: what CommandService keeps of the client
    emu,      \* of each id: the emulator, the lines it has to read, the replies not yet read
    tool,     \* the tool in progress
    result,   \* what the last tool returned or raised
    view,     \* history: the table as the caller of the tools knows it
    lost,     \* history: a call gave up "now" (since the launch), "before" or "never"
    files,    \* the temporary files in existence
    calls     \* tools called so far; also the name of a new temporary file

vars == <<session, client, emu, tool, result, view, lost, files, calls>>

S(s) == INSTANCE CommandService WITH
            EventKind <- {}, past <- {}, sent <- client[s].sent, handed <- client[s].handed,
            busy <- client[s].busy, outcome <- client[s].outcome

-----------------------------------------------------------------------------
(* The tools and the lines they send. *)

\* A method of a client: its debugger command, and what it does with the data lines of
\* the reply.  "first": parses the first, without looking whether there is one; "dump":
\* parses all, and takes the address of the first; "rows": parses all; "lines": returns
\* them as they are; "echo": looks for the assigned slot; "file": takes the first for the
\* name of a file; "none": leaves them.  (The tools that report a stop use the events.)
Method(cmd, data) == [cmd |-> cmd, data |-> data]

\* The classes that Client is made of, by the names of the tools.
ExecutionCommands == [
    continue |-> Method("cnt", "none"), break |-> Method("brk", "none"),
    step |-> Method("stp", "none"), step_over |-> Method("sov", "none"),
    reset |-> Method("rst", "none"), run_until |-> Method("cnt", "none")]
BreakpointCommands == [
    set_breakpoint |-> Method("sbp", "none"), clear_breakpoint |-> Method("cbp", "none"),
    clear_all_breakpoints |-> Method("cbp", "none"),
    enable_breakpoint |-> Method("bp", "none"), disable_breakpoint |-> Method("bp", "none"),
    list_breakpoints |-> Method("lbp", "breakpoints")]
WatchpointCommands == [
    set_watchpoint |-> Method("swp", "echo"), clear_watchpoint |-> Method("cwp", "none"),
    enable_watchpoint |-> Method("wp", "none"), disable_watchpoint |-> Method("wp", "none"),
    list_watchpoints |-> Method("lwp", "watchpoints")]
RegisterCommands == [
    read_registers |-> Method("reg", "first"), set_register |-> Method("srg", "none")]
MemoryCommands == [
    read_memory |-> Method("mem", "dump"), write_memory |-> Method("wmm", "none"),
    fill |-> Method("fil", "none"), find |-> Method("find", "rows")]
VramCommands == [
    read_vram |-> Method("vmr", "dump"), write_vram |-> Method("vmw", "none")]
DisasmCommands == [disassemble |-> Method("dis", "lines")]
InspectionCommands == [
    clocks |-> Method("clk", "first"), stack |-> Method("stk", "rows"),
    zero_page_registers |-> Method("zpr", "rows"), vera_state |-> Method("vrg", "first")]
CaptureCommands == [screenshot |-> Method("scr", "file")]
SessionCommands == [
    mode |-> Method("mod", "first"), state |-> Method("st", "lines"),
    set_headers |-> Method("hdr", "none"), set_header_line |-> Method("hdr", "none")]

Classes == {
    ExecutionCommands, BreakpointCommands, WatchpointCommands, RegisterCommands,
    MemoryCommands, VramCommands, DisasmCommands, InspectionCommands, CaptureCommands,
    SessionCommands}

Methods ==
    [name \in UNION {DOMAIN class : class \in Classes} |->
        (CHOOSE class \in Classes : name \in DOMAIN class)[name]]

\* The methods built on resumeCollectingEvents.
Resuming == {"run_until", "step_over"}

PointTools == DOMAIN BreakpointCommands \cup DOMAIN WatchpointCommands
PointCommands == {Methods[name].cmd : name \in PointTools}

Reads == {name \in DOMAIN Methods : Methods[name].data \in {"first", "dump", "rows", "lines"}}
ReadCommands == {Methods[name].cmd : name \in Reads}

\* The tools that send one line and say {"ok": True}, or report the event of its reply.
Orders ==
    DOMAIN Methods
        \ (Reads \cup PointTools \cup Resuming \cup {"screenshot", "write_memory"})

Enders == {"quit", "qit", "bail"}

ASSUME ToolsAssumption ==
    /\ ReadTools \subseteq Reads /\ OrderTools \subseteq Orders
    /\ RawLines \subseteq ReadCommands \cup Enders
    /\ Chunks \in Nat \ {0} /\ MaxCalls \in Nat

Job(name) == [name |-> name, cmd |-> Methods[name].cmd, data |-> Methods[name].data,
              at |-> NoLocation, slot |-> NoSlot, watch |-> NoWatch,
              condition |-> <<>>, file |-> 0]

NoTool == [stage |-> "none"]
Idle == tool = NoTool

-----------------------------------------------------------------------------
(* What a method makes of the data lines of its reply. *)

Got(value) == [error |-> "none", value |-> value]
Fails(error) == [error |-> error, value |-> <<>>]

All(data, type) == \A i \in DOMAIN data : data[i].type = type

\* Each row is parsed on its own, and one that does not match raises.
ListedBreakpoints(data) ==
    IF All(data, "bp") THEN Got([i \in DOMAIN data |-> ParseBp(data[i])])
                       ELSE Fails("X16dbgError")

ListedWatchpoints(data) ==
    IF All(data, "wp") THEN Got([i \in DOMAIN data |-> ParseWp(data[i])])
                       ELSE Fails("X16dbgError")

\* _parseAssignedId: the first "wp <id> set".
AssignedId(data) ==
    LET echo == SelectInSeq(data, LAMBDA line : line.type = "echo")
    IN  IF echo = 0 THEN Fails("X16dbgError") ELSE Got(<<data[echo]>>)

\* The lines of another command's reply are refused by the parser, or misread.
\* ("ParseError" stands for X16dbgError, ValueError and IndexError.)
ReadOf(job, data) ==
    IF data = <<>> THEN {IF job.data = "rows" THEN Got(<<>>) ELSE Fails("IndexError")}
    ELSE IF All(data, job.cmd) THEN {Got(data)} ELSE {Got(data), Fails("ParseError")}

Parsed(job, data) ==
    CASE job.data = "breakpoints" -> {ListedBreakpoints(data)}
      [] job.data = "watchpoints" -> {ListedWatchpoints(data)}
      [] job.data = "echo" -> {AssignedId(data)}
      [] job.data \in {"first", "dump", "rows"} -> ReadOf(job, data)
      [] job.data = "lines" -> {Got(data)}
      [] job.data = "none" -> {Got(<<>>)}

\* The file screenshot opens: the one the reply names, or its own when it names none.
NoFile == -1
Written(job, data) ==
    IF data = <<>> THEN job.file
    ELSE IF data[1].type = "path" THEN data[1].file ELSE NoFile

-----------------------------------------------------------------------------
(* What the caller knows of the table, from what the tools have returned. *)

Told(known, job, value) ==
    CASE job.name = "set_breakpoint" ->
           [known EXCEPT !.bps = Armed(@, job.at, job.condition)]
      [] job.name = "clear_breakpoint" -> [known EXCEPT !.bps = Cleared(@, job.at)]
      [] job.name = "clear_all_breakpoints" -> [known EXCEPT !.bps = <<>>]
      [] job.name = "enable_breakpoint" -> [known EXCEPT !.bps = Flagged(@, job.at, "on")]
      [] job.name = "disable_breakpoint" -> [known EXCEPT !.bps = Flagged(@, job.at, "off")]
      [] job.name = "set_watchpoint" ->
           [known EXCEPT !.wps[value[1].id] = Watchpoint(job.watch, job.condition)]
      [] job.name = "clear_watchpoint" ->
           [known EXCEPT !.wps = [k \in Slot |-> IF job.slot \in {k, AllSlots}
                                                 THEN NoWatchpoint ELSE @[k]]]
      [] job.name = "enable_watchpoint" -> [known EXCEPT !.wps[job.slot].flag = "on"]
      [] job.name = "disable_watchpoint" -> [known EXCEPT !.wps[job.slot].flag = "off"]
      [] OTHER -> known

Sure(s) == lost[s] # "now"

-----------------------------------------------------------------------------
(* How a tool begins. *)

NoResult == [session |-> "none", name |-> "none", error |-> "none", value |-> <<>>]

Returning(s, name, error, value) ==
    result' = [session |-> s, name |-> name, error |-> error, value |-> value]

\* Mutant of Send: the line is written and nobody waits for its reply.
SendOnly(s, job) ==
    /\ client' = [client EXCEPT ![s].sent = @ + 1]
    /\ emu' = [emu EXCEPT ![s].pending = Append(@, LineOf(job))]

\* transport.send: the line is written, and its command() waits for the reply.
Send(s, job) ==
    /\ client' = [client EXCEPT
            ![s].sent = @ + 1,
            ![s].busy = IF job.name \in Resuming THEN "resumeLoop" ELSE "loop"]
    /\ emu' = [emu EXCEPT ![s].pending = Append(@, LineOf(job))]

Raises(s, kind) ==
    client' = [client EXCEPT ![s].busy = "idle",
                             ![s].outcome = [kind |-> kind, command |-> client[s].sent,
                                             answers |-> 0, events |-> {}]]

MayCall == Idle /\ calls < MaxCalls /\ calls' = calls + 1

\* mkstemp makes the file before the line is sent.
Begin(s, job) ==
    /\ session[s] = "open" /\ emu[s].process = "up"
    /\ Send(s, job)
    /\ tool' = [session |-> s, job |-> job, stage |-> "reply", file |-> NoFile,
                left |-> IF job.name = "write_memory" THEN Chunks - 1 ELSE 0]
    /\ files' = IF job.file = 0 THEN files
                ELSE files \cup {[name |-> job.file, of |-> s, shot |-> 0]}
    /\ result' = NoResult
    /\ UNCHANGED <<session, view, lost>>

\* The emulator is gone and the write fails; screenshot removes its file again.
BeginFails(s, job) ==
    /\ session[s] = "open" /\ emu[s].process = "gone"
    /\ Raises(s, "BrokenPipeError")
    /\ Returning(s, job.name, "BrokenPipeError", <<>>)
    /\ UNCHANGED <<session, emu, tool, view, lost, files>>

\* The tools that raise before they send anything, and the one that sends nothing.
NothingSent(s, name, error) ==
    /\ Returning(s, name, error, <<>>)
    /\ UNCHANGED <<session, client, emu, tool, view, lost, files>>

\* _getClient.
NoSession(s) ==
    /\ MayCall
    /\ session[s] # "open"
    /\ NothingSent(s, "mode", "KeyError")

Call(s, job) == MayCall /\ (Begin(s, job) \/ BeginFails(s, job))

ProtocolVersion(s) ==
    /\ MayCall
    /\ session[s] = "open"
    /\ NothingSent(s, "protocol_version", "none")

Read(s) == \E name \in ReadTools : Call(s, Job(name))

Order(s) == \E name \in OrderTools : Call(s, Job(name))

Resume(s) == \E name \in Resuming : Call(s, Job(name))

WriteMemory(s) == Call(s, Job("write_memory"))

\* Mutant of Screenshot: always the same file.
ScreenshotSameFile(s) == Call(s, [Job("screenshot") EXCEPT !.file = 1])

Screenshot(s) == Call(s, [Job("screenshot") EXCEPT !.file = calls + 1])

SetBreakpoint(s) ==
    \E at \in Location, condition \in Condition :
        Call(s, [Job("set_breakpoint") EXCEPT !.at = at, !.condition = condition])

OneBreakpoint(s) ==
    \E name \in {"clear_breakpoint", "enable_breakpoint", "disable_breakpoint"},
       at \in Location : Call(s, [Job(name) EXCEPT !.at = at])

AllBreakpoints(s) ==
    \E name \in {"clear_all_breakpoints", "list_breakpoints"} : Call(s, Job(name))

SetWatchpoint(s) ==
    \E watch \in Watch, condition \in Condition :
        Call(s, [Job("set_watchpoint") EXCEPT !.watch = watch, !.condition = condition])

ToggleWatchpoint(s) ==
    \E name \in {"enable_watchpoint", "disable_watchpoint"}, slot \in Slot :
        Call(s, [Job(name) EXCEPT !.slot = slot])

\* A string other than "*" is refused before anything is sent: by the type of the tool's
\* argument, and by clearWatchpoint itself.
ClearWatchpoint(s) ==
    \E slot \in Slot \cup {AllSlots, BadSlot} :
        IF slot = BadSlot
        THEN /\ MayCall /\ session[s] = "open"
             /\ NothingSent(s, "clear_watchpoint", "X16dbgError")
        ELSE Call(s, [Job("clear_watchpoint") EXCEPT !.slot = slot])

ListWatchpoints(s) == Call(s, Job("list_watchpoints"))

\* x16db without force; a line that would end the session is refused.
X16db(s) ==
    \E raw \in RawLines :
        IF raw \in Enders
        THEN MayCall /\ session[s] = "open" /\ NothingSent(s, "x16db", "ValueError")
        ELSE Call(s, [Job("state") EXCEPT !.name = "x16db", !.cmd = raw])

-----------------------------------------------------------------------------
(* How a tool goes on and ends. *)

\* Mutant of Ends: the file is removed only when screenshot returns.
EndsWithoutFinally(s, error, value) ==
    /\ tool' = NoTool
    /\ Returning(s, tool.job.name, error, value)
    /\ files' = {f \in files : error # "none" \/ f.name # tool.job.file}

\* Whatever it does, screenshot removes the file it made.
Ends(s, error, value) ==
    /\ tool' = NoTool
    /\ Returning(s, tool.job.name, error, value)
    /\ files' = {f \in files : f.name # tool.job.file}

Tell(s, value) ==
    view' = IF Sure(s) THEN [view EXCEPT ![s] = Told(@, tool.job, value)] ELSE view

\* Mutant of TakeReply: what was read with the reply is thrown away.
TakeReplyEmptiesBuffer(s) ==
    /\ emu[s].replies # <<>>
    /\ emu' = [emu EXCEPT ![s].replies = <<>>]

\* The next reply is taken by the call in progress; the next line of the tool is left.
TakeReply(s) ==
    /\ emu[s].replies # <<>>
    /\ emu' = [emu EXCEPT ![s].replies = Tail(@)]

\* The client after a call that has taken a reply, or an event, and is over.
Handed(c, kind, answers, took) ==
    [c EXCEPT !.busy = "idle", !.handed = @ + took,
              !.outcome = [kind |-> kind, command |-> c.sent, answers |-> answers,
                           events |-> {}]]

Answers(s) ==
    tool.session = s /\ tool.stage = "reply" /\ client[s].busy \in {"loop", "resumeLoop"}

Refused(s) ==
    /\ ~Idle /\ Answers(s) /\ TakeReply(s)
    /\ Head(emu[s].replies).terminator = "ERR"
    /\ client' = [client EXCEPT ![s] = Handed(@, "X16dbgError", 0, 1)]
    /\ Ends(s, "X16dbgError", <<>>)
    /\ UNCHANGED <<session, view, lost, calls>>

\* command() returns.  A write with bytes left goes on to its next line, a screenshot
\* to the file, every other tool ends with what it makes of the data.
Replied(s) ==
    /\ ~Idle /\ Answers(s) /\ client[s].busy = "loop" /\ TakeReply(s)
    /\ LET reply == Head(emu[s].replies)
       IN  /\ reply.terminator = "RDY"
           /\ client' = [client EXCEPT ![s] = Handed(@, "reply", reply.answers, 1)]
           /\ \/ tool.left > 0 /\ tool' = [tool EXCEPT !.stage = "line"]
                 /\ UNCHANGED <<result, view, files>>
              \/ tool.job.name = "screenshot"
                 /\ tool' = [tool EXCEPT !.stage = "file",
                                         !.file = Written(tool.job, reply.data)]
                 /\ UNCHANGED <<result, view, files>>
              \/ tool.left = 0 /\ tool.job.name # "screenshot"
                 /\ \E got \in Parsed(tool.job, reply.data) :
                        /\ Ends(s, got.error, got.value)
                        /\ IF got.error = "none" THEN Tell(s, got.value) ELSE UNCHANGED view
    /\ UNCHANGED <<session, lost, calls>>

NextLine(s) ==
    /\ ~Idle /\ tool.session = s /\ tool.stage = "line"
    /\ \/ emu[s].process = "up" /\ Send(s, tool.job)
          /\ tool' = [tool EXCEPT !.stage = "reply", !.left = @ - 1]
          /\ UNCHANGED <<result, files>>
       \/ emu[s].process = "gone" /\ Raises(s, "BrokenPipeError")
          /\ Ends(s, "BrokenPipeError", <<>>)
          /\ UNCHANGED emu
    /\ UNCHANGED <<session, view, lost, calls>>

OpenFile(s) ==
    /\ ~Idle /\ tool.session = s /\ tool.stage = "file"
    /\ \/ \E f \in files : f.name = tool.file
             /\ Ends(s, "none", <<[type |-> "png", of |-> f.of, shot |-> f.shot]>>)
       \/ (\A f \in files : f.name # tool.file) /\ Ends(s, "FileNotFoundError", <<>>)
    /\ UNCHANGED <<session, client, emu, view, lost, calls>>

\* The reply of a resume held the awaited event, or the wait for it begins.
Resumed(s) ==
    /\ ~Idle /\ Answers(s) /\ client[s].busy = "resumeLoop" /\ TakeReply(s)
    /\ LET reply == Head(emu[s].replies)
       IN  /\ reply.terminator = "RDY"
           /\ \/ client' = [client EXCEPT ![s] = Handed(@, "events", reply.answers, 1)]
                 /\ Ends(s, "none", <<>>)
              \/ client' = [client EXCEPT ![s].busy = "resumeWait", ![s].handed = @ + 1]
                 /\ UNCHANGED <<tool, result, files>>
    /\ UNCHANGED <<session, view, lost, calls>>

\* waitPrompt takes an event, times out (which is tolerated), or takes a late reply.
Observed(s) ==
    /\ ~Idle /\ tool.session = s /\ client[s].busy = "resumeWait"
    /\ \/ client' = [client EXCEPT ![s] = Handed(@, "events", 0, 0)] /\ UNCHANGED emu
       \/ TakeReply(s)
          /\ client' = [client EXCEPT
                 ![s] = Handed(@, "events", Head(emu[s].replies).answers, 1)]
    /\ Ends(s, "none", <<>>)
    /\ UNCHANGED <<session, view, lost, calls>>

\* The reply does not come in time, or never will.
GiveUp(s) ==
    /\ ~Idle /\ tool.session = s
    /\ \E error \in {"TimeoutError", "EOFError"} :
           /\ error = "TimeoutError" => client[s].busy \in {"loop", "resumeLoop"}
           /\ error = "EOFError" => /\ client[s].busy # "idle"
                                    /\ emu[s].process = "gone" /\ emu[s].replies = <<>>
           /\ Raises(s, error)
           /\ Ends(s, error, <<>>)
    /\ lost' = [lost EXCEPT ![s] = "now"]
    /\ view' = [view EXCEPT ![s] = EmptyTable]
    /\ UNCHANGED <<session, emu, calls>>

-----------------------------------------------------------------------------
(* The sessions; Sessions has what these do to the processes. *)

NewClient == [sent |-> 0, handed |-> 0, busy |-> "idle",
              outcome |-> [kind |-> "none", command |-> 0, answers |-> 0, events |-> {}]]
NewEmulator == [process |-> "up", table |-> EmptyTable, pending |-> <<>>, replies |-> <<>>]

\* Nothing is left of an emulator that has been closed.
Closed(e) == [e EXCEPT !.process = "gone", !.table = EmptyTable, !.pending = <<>>]

\* Mutant of Respawned: the new emulator is read through the old one's buffer.
RespawnedSameBuffer(s) ==
    /\ client' = [client EXCEPT ![s] = NewClient]
    /\ emu' = [emu EXCEPT ![s] = [NewEmulator EXCEPT !.replies = emu[s].replies]]
    /\ view' = [view EXCEPT ![s] = EmptyTable]
    /\ lost' = [lost EXCEPT ![s] = IF @ = "now" THEN "before" ELSE @]

Respawned(s) ==
    /\ client' = [client EXCEPT ![s] = NewClient]
    /\ emu' = [emu EXCEPT ![s] = NewEmulator]
    /\ view' = [view EXCEPT ![s] = EmptyTable]
    /\ lost' = [lost EXCEPT ![s] = IF @ = "now" THEN "before" ELSE @]

CreateSession(s) ==
    /\ Idle /\ session[s] = "new"
    /\ session' = [session EXCEPT ![s] = "open"]
    /\ Respawned(s)
    /\ UNCHANGED <<tool, result, files, calls>>

\* close_session, and x16db with force and a line that ends the session.
CloseSession(s) ==
    /\ MayCall
    /\ session[s] = "open"
    /\ session' = [session EXCEPT ![s] = "closed"]
    /\ emu' = [emu EXCEPT ![s] = Closed(@)]
    /\ Returning(s, "close_session", "none", <<>>)
    /\ UNCHANGED <<client, tool, view, lost, files>>

\* The old emulator is closed first; the new one may fail to start.
BootProgram(s) ==
    /\ MayCall
    /\ session[s] = "open"
    /\ \/ Respawned(s) /\ Returning(s, "boot_program", "none", <<>>)
       \/ /\ emu' = [emu EXCEPT ![s] = Closed(@)]
          /\ Returning(s, "boot_program", "FileNotFoundError", <<>>)
          /\ UNCHANGED <<client, view, lost>>
    /\ UNCHANGED <<session, tool, files>>

-----------------------------------------------------------------------------
(* The emulators (external). *)

\* What line n may be answered with.  scr writes the PNG and echoes its path.
Outcomes(table, line) ==
    {Refusal(table)} \cup
    (IF line.cmd \in PointCommands THEN Effects(table, line)
     ELSE IF line.cmd = "scr"
     THEN {Done(table, <<[type |-> "path", file |-> line.file]>>), Done(table, <<>>)}
     ELSE IF line.cmd \in ReadCommands THEN {Done(table, <<[type |-> line.cmd]>>)}
     ELSE {Done(table, <<>>)})

Obey(s) ==
    /\ emu[s].process = "up" /\ emu[s].pending # <<>>
    /\ LET line == Head(emu[s].pending)
           n == client[s].sent - Len(emu[s].pending) + 1
       IN  \E o \in Outcomes(emu[s].table, line) :
               /\ emu' = [emu EXCEPT
                      ![s].table = o.table,
                      ![s].pending = Tail(@),
                      ![s].replies = Append(@, [answers |-> n, terminator |-> o.terminator,
                                                data |-> o.data])]
               /\ files' = IF line.cmd = "scr" /\ o.terminator = "RDY"
                           THEN {f \in files : f.name # line.file}
                                  \cup {[name |-> line.file, of |-> s, shot |-> n]}
                           ELSE files
    /\ UNCHANGED <<session, client, tool, result, view, lost, calls>>

Exit(s) ==
    /\ session[s] = "open" /\ emu[s].process = "up"
    /\ emu' = [emu EXCEPT ![s] = Closed(@)]
    /\ UNCHANGED <<session, client, tool, result, view, lost, files, calls>>

-----------------------------------------------------------------------------
Init ==
    /\ session = [s \in SessionId |-> "new"]
    /\ client = [s \in SessionId |-> NewClient]
    /\ emu = [s \in SessionId |-> Closed(NewEmulator)]
    /\ tool = NoTool /\ result = NoResult
    /\ view = [s \in SessionId |-> EmptyTable]
    /\ lost = [s \in SessionId |-> "never"]
    /\ files = {} /\ calls = 0

Start(s) ==
    \/ NoSession(s) \/ ProtocolVersion(s) \/ Read(s) \/ Order(s) \/ Resume(s)
    \/ WriteMemory(s) \/ Screenshot(s) \/ SetBreakpoint(s) \/ OneBreakpoint(s)
    \/ AllBreakpoints(s) \/ SetWatchpoint(s) \/ ToggleWatchpoint(s) \/ ClearWatchpoint(s)
    \/ ListWatchpoints(s) \/ X16db(s)

Work(s) ==
    \/ Refused(s) \/ Replied(s) \/ NextLine(s) \/ OpenFile(s) \/ Resumed(s) \/ Observed(s)
    \/ GiveUp(s)

Next ==
    \E s \in SessionId :
        \/ CreateSession(s) \/ CloseSession(s) \/ BootProgram(s)
        \/ Start(s) \/ Work(s) \/ Obey(s) \/ Exit(s)

Spec == Init /\ [][Next]_vars

-----------------------------------------------------------------------------
(* Properties. *)

\* Types; a call of a client is in progress exactly while the tool waits for a reply,
\* and only on the session of that tool.
TypeOK ==
    /\ session \in [SessionId -> {"new", "open", "closed"}]
    /\ \A s \in SessionId :
          /\ client[s].sent \in Nat /\ client[s].handed \in 0..client[s].sent
          /\ client[s].busy # "idle" <=>
                tool # NoTool /\ tool.session = s /\ tool.stage = "reply"
          /\ emu[s].process \in {"up", "gone"}
          /\ emu[s].process = "up" =>
                client[s].sent = client[s].handed + Len(emu[s].pending) + Len(emu[s].replies)
          /\ Len(emu[s].table.bps) <= MaxBreakpoints
          /\ DOMAIN emu[s].table.wps = Slot
    /\ lost \in [SessionId -> {"never", "before", "now"}]
    /\ calls \in 0..MaxCalls

\* A call of a session gets the reply to its own command unless a call of that session
\* has given up since its emulator was started: no timeout of another session, nor of an
\* emulator the session had before boot_program, is felt (server.py: "each is addressed
\* by its id"; docs/tools/lifecycle.md, boot_program).
SessionsApart ==
    \A s \in SessionId :
        LET outcome == client[s].outcome
        IN  Sure(s) /\ outcome.answers # 0 => outcome.answers = outcome.command

\* While no call of a session has given up, the breakpoints and watchpoints its emulator
\* has between tools are those that what the tools returned and raised says it has: an
\* {"ok": True} was obeyed, an error changed nothing, and a slot holds what it was
\* returned for (breakpoints.py, watchpoints.py, and their tools).
TablesAsTold ==
    Idle => \A s \in SessionId :
        session[s] = "open" /\ emu[s].process = "up" /\ Sure(s) => emu[s].table = view[s]

\* In this step a tool of that name ends and returns.
Returns(name) ==
    tool # NoTool /\ tool' = NoTool /\ result'.name = name /\ result'.error = "none"

\* To such a caller list_breakpoints returns its breakpoints, in the order they were added
\* and without their bank, and list_watchpoints each armed slot once, whatever their
\* conditions and flags (models.py, Breakpoint.parse and Watchpoint.parse).
ListsAsTold ==
    [][LET known == view[result'.session]
           value == result'.value
           Watched(k) == [type |-> "watchpoint", id |-> k, watch |-> known.wps[k].watch,
                         flag |-> known.wps[k].flag, condition |-> known.wps[k].condition]
       IN  /\ Returns("list_breakpoints") /\ Sure(result'.session) =>
                 value = [i \in DOMAIN known.bps |->
                             [type |-> "breakpoint", addr |-> known.bps[i].at[2],
                              flag |-> known.bps[i].flag,
                              condition |-> known.bps[i].condition]]
           /\ Returns("list_watchpoints") /\ Sure(result'.session) =>
                 /\ Len(value) = Cardinality(ArmedSlots(known.wps))
                 /\ \A k \in ArmedSlots(known.wps) :
                        \E i \in DOMAIN value : value[i] = Watched(k)]_vars

\* screenshot leaves no file behind, however it ends, unless a call of its session had
\* given up: then the emulator may write, or write again, the file that was removed; a
\* file that is empty never stays (capture.py: "dropped once its bytes are in hand").
NoFileLeft ==
    Idle => \A f \in files : lost[f.of] # "never" /\ f.shot # 0

\* A screenshot is of its own session's screen, as its own command captured it, unless a
\* call of that session had given up; even then it is not of another session.
ShotIsOwn ==
    [][Returns("screenshot") =>
           LET s == result'.session
               image == result'.value[1]
           IN  /\ image.of = s
               /\ Sure(s) => image.shot = client[s].sent]_vars

\* The client of each session is at every step what CommandService describes, or is
\* replaced by a new one.
UsesService ==
    /\ \A s \in SessionId : S(s)!Init
    /\ [][\A s \in SessionId : S(s)!Next \/ S(s)!Init' \/ UNCHANGED client[s]]_vars
=============================================================================
