------------------------------ MODULE Transport ------------------------------
(***************************************************************************)
(* The command layer of x16dbg.transport.Transport: one caller, one        *)
(* emulator process, two pipes.  Commands are written one per line; the    *)
(* emulator answers each with one record (a record is everything up to one *)
(* debugger prompt), and puts records of its own, holding only events,     *)
(* into the same stream whenever it likes.  Nothing in a record says which *)
(* command it answers: command() takes the next record that has a          *)
(* terminator for its reply.                                               *)
(*                                                                         *)
(* A record is [terminator, answers, events].  "answers" is a ghost: the   *)
(* number of the command the emulator wrote it for, 0 for an event-only    *)
(* record; no guard of the client reads it.  An event line is [n, kind],   *)
(* n counting the event lines in the order the emulator wrote them, so a   *)
(* set of events is a list of event lines in that order.                   *)
(***************************************************************************)
EXTENDS Integers, Sequences, FiniteSets

CONSTANTS
    EventKind,    \* the event prefixes a caller tells apart ("* BRK ", "* WP ", ...)
    MaxCommands,  \* bound: commands sent over the life of the transport
    MaxEvents,    \* bound: event lines the emulator writes
    MaxStream     \* records the stdout pipe holds before the emulator blocks

ASSUME BoundsAssumption ==
    /\ MaxCommands \in Nat
    /\ MaxEvents \in Nat
    /\ MaxStream \in Nat

VARIABLES
    sent,       \* commands written to the emulator's stdin; their numbers are 1..sent
    answered,   \* commands the emulator has answered, oldest first
    emitted,    \* event lines the emulator has written
    stream,     \* records written to stdout and not yet consumed, oldest first
    buffered,   \* how many of them are whole in self._buf; the others are in the pipe
    process,    \* the emulator process: "running" or "exited"
    pc,         \* where the caller is
    until,      \* until_prefix of the resume in progress; {} is None
    collected,  \* events gathered by the call in progress
    outcome,    \* what the last finished call returned or raised
    taken,      \* history: terminated records consumed so far
    abandoned,  \* history: commands whose call gave up: TimeoutError or EOFError
    stray,      \* history: terminated records consumed by waitPrompt
    delivered,  \* history: numbers of the events calls have returned
    dropped     \* history: numbers of the events lost in calls that raised

emulatorVars == <<answered, emitted, process>>
historyVars == <<taken, abandoned, stray, delivered, dropped>>
vars == <<sent, answered, emitted, stream, buffered, process, pc, until,
          collected, outcome, taken, abandoned, stray, delivered, dropped>>

-----------------------------------------------------------------------------
Event == [n : Nat \ {0}, kind : EventKind]

Record == [terminator : {"none", "RDY", "ERR"},
           answers    : Nat,
           events     : SUBSET Event]

\* _parseBody saw an RDY or ERR line: chunk.terminator is not None.
Terminated(r) == r.terminator # "none"

Numbers(events) == {e.n : e \in events}

\* "loop": in command(); "resumeLoop": in the command() of resumeCollectingEvents;
\* "wait": in waitPrompt(); "resumeWait": in the waitPrompt() of resumeCollectingEvents.
Control == {"idle", "loop", "resumeLoop", "wait", "resumeWait"}
Looping == {"loop", "resumeLoop"}
Waiting == {"wait", "resumeWait"}

Raises == {"X16dbgError", "TimeoutError", "EOFError", "BrokenPipeError"}

Outcome == [kind    : {"none", "reply", "events", "prompt"} \cup Raises,
            command : Nat,     \* the last command sent when the call finished
            answers : Nat,     \* ghost: the command the returned record answers
            events  : SUBSET Event]

NoOutcome == [kind |-> "none", command |-> 0, answers |-> 0, events |-> {}]

-----------------------------------------------------------------------------
(* How a call ends. *)

\* Mutant of Return: the gathered events outlive the call that returns them.
ReturnKeepsGathered(kind, answers, events) ==
    /\ outcome' = [kind |-> kind, command |-> sent, answers |-> answers, events |-> events]
    /\ pc' = "idle"
    /\ until' = {}
    /\ delivered' = delivered \cup Numbers(events)
    /\ UNCHANGED <<collected, dropped>>

Return(kind, answers, events) ==
    /\ outcome' = [kind |-> kind, command |-> sent, answers |-> answers, events |-> events]
    /\ pc' = "idle"
    /\ collected' = {}
    /\ until' = {}
    /\ delivered' = delivered \cup Numbers(events)
    /\ UNCHANGED dropped

\* A call that raises loses what it had gathered: reply is a local of the frame.
Raise(error, events) ==
    /\ outcome' = [kind |-> error, command |-> sent, answers |-> 0, events |-> {}]
    /\ pc' = "idle"
    /\ collected' = {}
    /\ until' = {}
    /\ dropped' = dropped \cup Numbers(events)
    /\ UNCHANGED delivered

-----------------------------------------------------------------------------
(* The caller: send, then _readUntilPrompt until the call has its answer.  *)

\* Mutant of Send: what is left in self._buf is thrown away before a command.
SendEmptiesBuffer(control, prefixes) ==
    /\ pc = "idle" /\ process = "running" /\ sent < MaxCommands
    /\ sent' = sent + 1
    /\ pc' = control
    /\ until' = prefixes
    /\ stream' = SubSeq(stream, buffered + 1, Len(stream))
    /\ buffered' = 0
    /\ UNCHANGED <<emulatorVars, collected, outcome, historyVars>>

Send(control, prefixes) ==
    /\ pc = "idle" /\ process = "running" /\ sent < MaxCommands
    /\ sent' = sent + 1
    /\ pc' = control
    /\ until' = prefixes
    /\ UNCHANGED <<emulatorVars, stream, buffered, collected, outcome, historyVars>>

Command == Send("loop", {})

ResumeCollectingEvents == \E prefixes \in SUBSET EventKind : Send("resumeLoop", prefixes)

\* The write fails when the emulator is gone.
SendFails ==
    /\ pc = "idle" /\ process = "exited"
    /\ Raise("BrokenPipeError", {})
    /\ UNCHANGED <<sent, emulatorVars, stream, buffered, taken, abandoned, stray>>

WaitPrompt ==
    /\ pc = "idle"
    /\ pc' = "wait"
    /\ UNCHANGED <<sent, emulatorVars, stream, buffered, until, collected, outcome,
                   historyVars>>

\* os.read: moves any number of bytes, hence of whole records, into self._buf.
\* The loop reads only while _buf holds no prompt.
Fill ==
    /\ pc # "idle" /\ buffered = 0
    /\ \E k \in 1..Len(stream) : buffered' = k
    /\ UNCHANGED <<sent, emulatorVars, stream, pc, until, collected, outcome, historyVars>>

\* Mutants of TakeRecord: the tail after the prompt is not assigned back to
\* self._buf, or is discarded with the record.
TakeRecordKeepsBuffer ==
    /\ buffered > 0
    /\ stream' = Tail(stream)
    /\ taken' = taken + (IF Terminated(Head(stream)) THEN 1 ELSE 0)
    /\ UNCHANGED <<sent, emulatorVars, abandoned, buffered>>

TakeRecordDropsTail ==
    /\ buffered > 0
    /\ stream' = SubSeq(stream, buffered + 1, Len(stream))
    /\ buffered' = 0
    /\ taken' = taken + (IF Terminated(Head(stream)) THEN 1 ELSE 0)
    /\ UNCHANGED <<sent, emulatorVars, abandoned>>

\* partition at the first prompt: exactly one record leaves the buffer.
TakeRecord ==
    /\ buffered > 0
    /\ stream' = Tail(stream)
    /\ buffered' = buffered - 1
    /\ taken' = taken + (IF Terminated(Head(stream)) THEN 1 ELSE 0)
    /\ UNCHANGED <<sent, emulatorVars, abandoned>>

Gathered == collected \cup Head(stream).events

\* Mutant of SkipUnterminated: "=" for "+=" on reply.events.
SkipKeepsLastEvents ==
    /\ pc \in Looping
    /\ TakeRecord
    /\ ~Terminated(Head(stream))
    /\ collected' = Head(stream).events
    /\ UNCHANGED <<pc, until, outcome, stray, delivered, dropped>>

SkipUnterminated ==
    /\ pc \in Looping
    /\ TakeRecord
    /\ ~Terminated(Head(stream))
    /\ collected' = Gathered
    /\ UNCHANGED <<pc, until, outcome, stray, delivered, dropped>>

\* Mutant of TakeReply: the first prompt ends the call, terminator or not.
TakeFirstPrompt ==
    /\ pc = "loop"
    /\ TakeRecord
    /\ Head(stream).terminator # "ERR"
    /\ Return("reply", Head(stream).answers, Gathered)
    /\ UNCHANGED stray

TakeReply ==
    /\ pc = "loop"
    /\ TakeRecord
    /\ Head(stream).terminator = "RDY"
    /\ Return("reply", Head(stream).answers, Gathered)
    /\ UNCHANGED stray

TakeError ==
    /\ pc \in Looping
    /\ TakeRecord
    /\ Head(stream).terminator = "ERR"
    /\ Raise("X16dbgError", Gathered)
    /\ UNCHANGED stray

Satisfied(events) == \E e \in events : e.kind \in until

\* resumeCollectingEvents after its command(): done when an awaited event is
\* among the reply's events, otherwise one more prompt.
TakeResumeReply ==
    /\ pc = "resumeLoop"
    /\ TakeRecord
    /\ Head(stream).terminator = "RDY"
    /\ \/ /\ Satisfied(Gathered)
          /\ Return("events", Head(stream).answers, Gathered)
       \/ /\ ~Satisfied(Gathered)
          /\ pc' = "resumeWait"
          /\ collected' = Gathered
          /\ UNCHANGED <<until, outcome, delivered, dropped>>
    /\ UNCHANGED stray

\* waitPrompt returns whatever record comes first, a late reply included.
TakePrompt ==
    /\ pc \in Waiting
    /\ TakeRecord
    /\ Return(IF pc = "wait" THEN "prompt" ELSE "events", Head(stream).answers, Gathered)
    /\ stray' = stray + (IF Terminated(Head(stream)) THEN 1 ELSE 0)

GiveUp == abandoned' = abandoned + (IF pc \in Looping THEN 1 ELSE 0)

\* Mutants of Timeout: every call tolerates it, not only a resume's second read;
\* or the read blocks, and the deadline is only looked at once something came.
TimeoutTolerated ==
    /\ pc # "idle" /\ buffered = 0
    /\ Return("events", 0, collected)
    /\ GiveUp
    /\ UNCHANGED <<sent, emulatorVars, stream, buffered, taken, stray>>

TimeoutAfterData ==
    /\ pc # "idle" /\ buffered = 0 /\ stream # <<>>
    /\ Raise("TimeoutError", collected)
    /\ GiveUp
    /\ UNCHANGED <<sent, emulatorVars, stream, buffered, taken, stray>>

\* The deadline passes before a prompt is in _buf, even if one is in the pipe.
\* Only resumeCollectingEvents handles it, and returns what it has.
Timeout ==
    /\ pc # "idle" /\ buffered = 0
    /\ \/ /\ pc = "resumeWait"
          /\ Return("events", 0, collected)
       \/ /\ pc # "resumeWait"
          /\ Raise("TimeoutError", collected)
    /\ GiveUp
    /\ UNCHANGED <<sent, emulatorVars, stream, buffered, taken, stray>>

\* os.read returns no bytes: the emulator is gone and the pipe is drained.
EndOfFile ==
    /\ pc # "idle" /\ stream = <<>> /\ process = "exited"
    /\ Raise("EOFError", collected)
    /\ GiveUp
    /\ UNCHANGED <<sent, emulatorVars, stream, buffered, taken, stray>>

Invoke == Command \/ ResumeCollectingEvents \/ WaitPrompt \/ SendFails

Progress ==
    \/ Fill
    \/ SkipUnterminated
    \/ TakeReply
    \/ TakeError
    \/ TakeResumeReply
    \/ TakePrompt
    \/ Timeout
    \/ EndOfFile

-----------------------------------------------------------------------------
(* The emulator (external): answers commands in the order it reads them,   *)
(* one terminated record each, and writes unsolicited records at any time. *)

Write(terminator, answers, burst) ==
    /\ process = "running" /\ Len(stream) < MaxStream
    /\ stream' = Append(stream,
           [terminator |-> terminator, answers |-> answers,
            events |-> {[n |-> emitted + i, kind |-> burst[i]] : i \in DOMAIN burst}])
    /\ UNCHANGED <<sent, buffered, process, pc, until, collected, outcome, historyVars>>

Answer ==
    \E m \in 0..(MaxEvents - emitted), terminator \in {"RDY", "ERR"} :
        \E burst \in [1..m -> EventKind] :
            /\ answered < sent
            /\ Write(terminator, answered + 1, burst)
            /\ answered' = answered + 1
            /\ emitted' = emitted + m

\* An event with its own prompt, or (m = 0) a bare leftover prompt.
Announce ==
    \E m \in 0..(MaxEvents - emitted) :
        \E burst \in [1..m -> EventKind] :
            /\ Write("none", 0, burst)
            /\ emitted' = emitted + m
            /\ UNCHANGED answered

Exit ==
    /\ process = "running"
    /\ process' = "exited"
    /\ UNCHANGED <<sent, answered, emitted, stream, buffered, pc, until, collected,
                   outcome, historyVars>>

-----------------------------------------------------------------------------
Init ==
    /\ sent = 0 /\ answered = 0 /\ emitted = 0
    /\ stream = <<>> /\ buffered = 0 /\ process = "running"
    /\ pc = "idle" /\ until = {} /\ collected = {} /\ outcome = NoOutcome
    /\ taken = 0 /\ abandoned = 0 /\ stray = 0 /\ delivered = {} /\ dropped = {}

Next == Invoke \/ Progress \/ Answer \/ Announce \/ Exit

Spec == Init /\ [][Next]_vars

\* The caller's thread runs until its call ends; nothing is assumed of the emulator.
FairSpec == Spec /\ WF_vars(Progress)

-----------------------------------------------------------------------------
(* Properties. *)

\* Types; what the client has in self._buf is a prefix of the stream.
TypeOK ==
    /\ sent \in Nat /\ answered \in Nat /\ emitted \in Nat
    /\ stream \in Seq(Record)
    /\ buffered \in 0..Len(stream)
    /\ process \in {"running", "exited"}
    /\ pc \in Control
    /\ until \in SUBSET EventKind
    /\ collected \in SUBSET Event
    /\ outcome \in Outcome
    /\ taken \in Nat /\ abandoned \in Nat /\ stray \in Nat
    /\ delivered \in SUBSET Nat /\ dropped \in SUBSET Nat

\* The terminated records in the stream are the answers given and not yet taken,
\* each once and in the order of the commands: no reply is skipped or doubled
\* however reads split the stream (_readUntilPrompt keeps the tail in self._buf).
RepliesInOrder ==
    /\ taken <= answered /\ answered <= sent
    /\ \A i \in DOMAIN stream :
           /\ Terminated(stream[i]) => stream[i].answers \in (taken + 1)..answered
           /\ ~Terminated(stream[i]) => stream[i].answers = 0
    /\ \A i, j \in DOMAIN stream :
           i < j /\ Terminated(stream[i]) /\ Terminated(stream[j])
               => stream[i].answers < stream[j].answers
    /\ \A c \in (taken + 1)..answered : \E i \in DOMAIN stream : stream[i].answers = c

\* How many replies belong to calls that are over.
Debt == abandoned - stray

\* Commands without a reply taken for them are those given up on, plus the one a
\* call is waiting for: waitPrompt settles a debt, it never creates a credit.
DebtLaw ==
    /\ Debt \in Nat
    /\ sent - taken = Debt + (IF pc \in Looping THEN 1 ELSE 0)

\* command() has no way to tell a late reply from its own.  The reply it returns
\* answers the command sent Debt commands earlier: its own exactly when every
\* command that timed out was made up for by a waitPrompt that swallowed a reply
\* (transport.py command, waitPrompt).
ReplyLag ==
    outcome.kind = "reply" => outcome.answers = outcome.command - Debt

\* As long as no command has timed out, command() returns the reply to the
\* command it sent, whatever event-only records and bare prompts surround it.
OwnReply ==
    outcome.kind = "reply" /\ abandoned = 0 => outcome.answers = outcome.command

\* What the text of command() says of every reply it returns: "read past such
\* event-only responses ... until the reply that actually terminates arrives".
ReplyMatchesCommand ==
    outcome.kind = "reply" => outcome.answers = outcome.command

\* docs/api/errors.md: a broken pipe or an unexpected end of file is reported as
\* X16dbgError, so that TimeoutError is the only other error a call raises.
PipeBreakIsX16dbgError ==
    outcome.kind \in Raises => outcome.kind \in {"X16dbgError", "TimeoutError"}

\* The events of calls that are over, and those still in the stream.
Over == delivered \cup dropped
InStream == UNION {Numbers(stream[i].events) : i \in DOMAIN stream}

\* Every event line the emulator wrote is in exactly one place: returned by a call,
\* lost with a call that raised, gathered by the call in progress, or still in the
\* stream; and these follow each other in the order it wrote them.  No call that
\* returns loses an event, and none returns one twice (the bugs
\* test_transport_offline.py pins on single byte streams).
EventsAccounted ==
    /\ 1..emitted = Over \cup Numbers(collected) \cup InStream
    /\ delivered \cap dropped = {}
    /\ \A a \in Over, b \in Numbers(collected) \cup InStream : a < b
    /\ \A a \in Numbers(collected), b \in InStream : a < b
    /\ \A i, j \in DOMAIN stream : i < j =>
           \A a \in Numbers(stream[i].events), b \in Numbers(stream[j].events) : a < b

\* What a call returns is newer than everything returned before it.
EventsNewer ==
    [][outcome' # outcome =>
           \A e \in Numbers(outcome'.events), d \in delivered : d < e]_vars

\* A call ends, by answer, error or timeout, once the emulator stops writing
\* unsolicited records.  (Each record restarts the deadline of command(), so an
\* emulator that never stops can hold a call for ever.)
CallsEnd == (<>[][~Announce]_vars) => [](pc # "idle" => <>(pc = "idle"))

Service == INSTANCE CommandService
               WITH handed <- taken, past <- Over, busy <- pc

\* The transport keeps the promise of CommandService: a step of it is a step of
\* the service or changes nothing a caller can see.
ImplementsService == Service!Spec
=============================================================================
