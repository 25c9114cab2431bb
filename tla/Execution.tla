----------------------------- MODULE Execution -----------------------------
(***************************************************************************)
(* x16dbg.commands.execution.ExecutionCommands on top of the transport:    *)
(* the methods that resume, stop and step the CPU, and how each decides    *)
(* from the events it was handed whether and why the CPU stopped.          *)
(*                                                                         *)
(* The emulator runs at the same time.  A command that stops or steps      *)
(* reports the stop with its reply; a CPU that runs may stop at any moment *)
(* and says so in a record of its own; and a leftover prompt may come at   *)
(* any time (external, modelled from the tests and from what the client    *)
(* expects).                                                               *)
(***************************************************************************)
EXTENDS Integers, Sequences

CONSTANTS MaxCommands, MaxEvents, MaxStream   \* the bounds of Transport

ASSUME BoundsAssumption == MaxCommands \in Nat /\ MaxEvents \in Nat /\ MaxStream \in Nat

VARIABLES
    sent, answered, emitted, stream, buffered, process, pc, until, collected,
    outcome, taken, abandoned, stray, delivered, dropped,   \* Transport
    lines,      \* the command lines sent; the emulator reads them in this order
    cpu,        \* "stop", "run", or "over" while it runs over a call (sov)
    method,     \* the method in progress, or "none"
    lastEvent,  \* self.last_event: also what the last method that reports returned
    known,      \* history: the caller has been told the CPU is stopped
    mark        \* history: events written when the method in progress was called, or 0

transportVars == <<sent, answered, emitted, stream, buffered, process, pc, until, collected,
                   outcome, taken, abandoned, stray, delivered, dropped>>
callerVars == <<method, lastEvent, known, mark>>
vars == <<transportVars, lines, cpu, callerVars>>

\* "* BRK USER", "* BRK STEP", any other "* BRK", "* WP", "* RES".
BrkEvents == {"USER", "STEP", "BREAK"}
StopEvents == BrkEvents \cup {"WP"}
EventKind == StopEvents \cup {"RES"}

T == INSTANCE Transport

-----------------------------------------------------------------------------
(* The methods. *)

\* "query" stands for every method that sends one command and leaves the CPU
\* alone (reads, breakpoints, watchpoints, inspection, a raw x16db command).
Line == [cont |-> "cnt", brk |-> "brk", step |-> "stp", stepOver |-> "sov",
         reset |-> "rst", runUntil |-> "cnt", query |-> "query"]
Methods == DOMAIN Line

\* until_prefix of the methods built on resumeCollectingEvents.
UntilPrefix == [stepOver |-> BrkEvents, runUntil |-> StopEvents]
Resuming == DOMAIN UntilPrefix

\* The methods that look for a stop in the events of their reply.
Reporting == {"brk", "step", "stepOver", "runUntil"}

None == [n |-> 0, kind |-> "RES"]

\* Mutants of FindStopEvent: every "* " line is taken for a stop; a watchpoint hit is
\* not looked for; the last stop is reported again when there is no new one.
FindAnyEvent(events) ==
    IF events = {} THEN None ELSE CHOOSE e \in events : \A f \in events : e.n <= f.n

FindBreak(events) ==
    LET stops == {e \in events : e.kind \in BrkEvents}
    IN  IF stops = {} THEN None ELSE CHOOSE e \in stops : \A f \in stops : e.n <= f.n

FindStopOrLast(events) ==
    LET stops == {e \in events : e.kind \in StopEvents}
    IN  IF stops = {} THEN lastEvent ELSE CHOOSE e \in stops : \A f \in stops : e.n <= f.n

\* _findStopEvent: the first stop among the events, or None.
FindStopEvent(events) ==
    LET stops == {e \in events : e.kind \in StopEvents}
    IN  IF stops = {} THEN None ELSE CHOOSE e \in stops : \A f \in stops : e.n <= f.n

\* Mutant of Call: the line is written and its reply left for the next method.
CallWithoutReply(m) ==
    /\ IF m \in Resuming THEN T!Send("resumeLoop", UntilPrefix[m]) ELSE T!Send("idle", {})
    /\ lines' = Append(lines, Line[m])
    /\ method' = "none"
    /\ mark' = 0
    /\ UNCHANGED <<cpu, lastEvent, known>>

Call(m) ==
    /\ IF m \in Resuming THEN T!Send("resumeLoop", UntilPrefix[m]) ELSE T!Send("loop", {})
    /\ lines' = Append(lines, Line[m])
    /\ method' = m
    /\ mark' = emitted
    /\ UNCHANGED <<cpu, lastEvent, known>>

\* The method returns, as its call of the transport did; otherwise it raises.
Returns == outcome'.kind \notin T!Raises

\* The caller knows the CPU is stopped once brk has reported a stop, and as long as
\* every resume since has.
KnownAfter(m, event) ==
    IF Returns /\ m \in Reporting THEN event # None /\ (known \/ m = "brk")
                                 ELSE known /\ m \in {"query", "reset"}

\* Mutant of Finish: a call that raises leaves the method unfinished.
FinishWhenReturned ==
    /\ pc' = "idle"
    /\ method' = IF Returns THEN "none" ELSE method
    /\ mark' = 0
    /\ lastEvent' = IF Returns /\ method \in Reporting
                       THEN FindStopEvent(outcome'.events) ELSE lastEvent
    /\ known' = KnownAfter(method, lastEvent')
    /\ UNCHANGED <<lines, cpu>>

\* The transport's call ends and with it the method.  Only the methods that report
\* set last_event, and not when they raise.
Finish ==
    /\ pc' = "idle"
    /\ method' = "none"
    /\ mark' = 0
    /\ lastEvent' = IF Returns /\ method \in Reporting
                       THEN FindStopEvent(outcome'.events) ELSE lastEvent
    /\ known' = KnownAfter(method, lastEvent')
    /\ UNCHANGED <<lines, cpu>>

\* The method's write fails when the emulator is gone.
CallFails(m) ==
    /\ T!SendFails
    /\ known' = KnownAfter(m, None)
    /\ UNCHANGED <<lines, cpu, method, lastEvent, mark>>

Advance ==
    /\ T!Progress
    /\ \/ Finish
       \/ pc' # "idle" /\ UNCHANGED <<lines, cpu, callerVars>>

-----------------------------------------------------------------------------
(* The emulator (external). *)

Answered(terminator, kinds, state) ==
    [terminator |-> terminator, kinds |-> kinds, cpu |-> state]

\* What a stopped CPU makes of a command line, and what a running one does.
WhenStopped(line) ==
    CASE line = "cnt" -> {Answered("RDY", <<"RES">>, "run"),
                          Answered("RDY", <<"RES", "BREAK">>, "stop"),
                          Answered("RDY", <<"RES", "WP">>, "stop")}
      [] line = "sov" -> {Answered("RDY", <<"STEP">>, "stop"),
                          Answered("RDY", <<"RES">>, "over"),
                          Answered("RDY", <<"RES", "WP">>, "stop")}
      [] line = "stp" -> {Answered("RDY", <<"STEP">>, "stop")}
      [] line = "brk" -> {Answered("RDY", <<>>, "stop"), Answered("RDY", <<"USER">>, "stop")}
      [] OTHER        -> {Answered("RDY", <<>>, "stop"), Answered("ERR", <<>>, "stop")}

WhenRunning(line) ==
    IF line = "brk" THEN {Answered("RDY", <<"USER">>, "stop")}
                    ELSE {Answered("RDY", <<>>, cpu), Answered("ERR", <<>>, cpu)}

Execute ==
    /\ answered < sent
    /\ \E reply \in IF cpu = "stop" THEN WhenStopped(lines[answered + 1])
                                    ELSE WhenRunning(lines[answered + 1]) :
           /\ emitted + Len(reply.kinds) <= MaxEvents
           /\ T!Write(reply.terminator, answered + 1, reply.kinds)
           /\ emitted' = emitted + Len(reply.kinds)
           /\ cpu' = reply.cpu
    /\ answered' = answered + 1
    /\ UNCHANGED <<lines, callerVars>>

\* A breakpoint, a watchpoint, STP or the end of a stepped-over call.
Halt ==
    /\ cpu # "stop" /\ emitted < MaxEvents
    /\ \E kind \in {"BREAK", "WP"} \cup (IF cpu = "over" THEN {"STEP"} ELSE {}) :
           T!Write("none", 0, <<kind>>)
    /\ emitted' = emitted + 1
    /\ cpu' = "stop"
    /\ UNCHANGED <<answered, lines, callerVars>>

\* A leftover prompt: a record with neither an event nor a terminator.
BarePrompt == T!Write("none", 0, <<>>) /\ UNCHANGED <<answered, emitted, lines, cpu, callerVars>>

Exit == T!Exit /\ UNCHANGED <<lines, cpu, callerVars>>

-----------------------------------------------------------------------------
\* After launch the machine runs.
Init ==
    /\ T!Init
    /\ lines = <<>> /\ cpu = "run"
    /\ method = "none" /\ lastEvent = None /\ known = FALSE /\ mark = 0

Next ==
    \/ \E m \in Methods : Call(m) \/ CallFails(m)
    \/ Advance
    \/ Execute
    \/ Halt
    \/ BarePrompt
    \/ Exit

Spec == Init /\ [][Next]_vars

-----------------------------------------------------------------------------
(* Properties. *)

EventOrNone == T!Event \cup {None}

\* Types; a method is in progress exactly while a call of the transport is.
TypeOK ==
    /\ T!TypeOK /\ emitted <= MaxEvents
    /\ lines \in Seq({Line[m] : m \in Methods}) /\ Len(lines) = sent
    /\ cpu \in {"stop", "run", "over"}
    /\ method \in Methods \cup {"none"} /\ (method = "none" <=> pc = "idle")
    /\ lastEvent \in EventOrNone
    /\ known \in BOOLEAN
    /\ mark \in Nat

StopInStream == \E i \in DOMAIN stream : \E e \in stream[i].events : e.kind \in StopEvents

\* What a reported stop is worth.  While no command has timed out, a caller that
\* began with brk, and has been given an event by every resume since, has a stopped
\* CPU and no stop waiting in the stream, whatever races the CPU and the commands
\* ran (execution.py brk, step, stepOver, runUntil).
KnownMeansStopped ==
    known /\ method = "none" /\ abandoned = 0 => cpu = "stop" /\ ~StopInStream

\* In this step method m returns an event, or finds none.
Reports(m) == method = m /\ method' = "none" /\ Returns /\ lastEvent' # None
FindsNone(m) == method = m /\ method' = "none" /\ Returns /\ lastEvent' = None

Sure == known /\ abandoned = 0

\* Such a caller gets from its next resume an event the resume itself led to,
\* never an older one (docs/api/execution.md, runUntil: "the next stopping event").
KnownGetsNextStop ==
    [][\A m \in {"step", "stepOver", "runUntil"} :
           Reports(m) /\ Sure => lastEvent'.n > mark]_vars

\* And when the resume returns None the stop is not missed: the CPU still runs, or
\* the stop is in the stream for the next read (docs/api/execution.md: "the
\* stopping event is not missed").
NoStopMissed ==
    [][\A m \in Resuming : FindsNone(m) /\ Sure => cpu # "stop" \/ StopInStream']_vars

\* The methods use the transport, and the emulator answers, as Transport says.
UsesTransport == T!Spec

\* docs/api/execution.md, runUntil: "Resume the CPU and return the next stopping
\* event", for every caller and not only one that is sure it is stopped: an event
\* from after the call, even when no command has timed out.
RunUntilGetsNextStop ==
    [][Reports("runUntil") /\ abandoned = 0 => lastEvent'.n > mark]_vars
=============================================================================
