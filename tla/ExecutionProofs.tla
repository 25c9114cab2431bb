-------------------------- MODULE ExecutionProofs --------------------------
(***************************************************************************)
(* Proofs about Execution: that the methods and the emulator use the       *)
(* transport as Transport says, so that what TransportProofs shows of the  *)
(* transport holds here; and what a reported stop is worth.                *)
(***************************************************************************)
EXTENDS Execution, WellFoundedInduction, TLAPS

P == INSTANCE TransportProofs

-----------------------------------------------------------------------------
(* The two instances of Transport, T of Execution and P with the theorems, *)
(* say the same.                                                           *)

LEMMA SameTypes == T!TypeOK <=> P!TypeOK
BY DEF T!TypeOK, P!TypeOK, T!Record, P!Record, T!Control, P!Control, T!Outcome, P!Outcome,
       T!Event, P!Event, T!Raises, P!Raises

LEMMA SameInit == T!Init <=> P!Init
BY DEF T!Init, P!Init, T!NoOutcome, P!NoOutcome

LEMMA SameNext == T!Next <=> P!Next
BY DEF T!Next, P!Next, T!Invoke, P!Invoke, T!Progress, P!Progress, T!Exit, P!Exit,
       T!Command, P!Command, T!Send, P!Send, T!emulatorVars, P!emulatorVars,
       T!historyVars, P!historyVars, T!ResumeCollectingEvents, P!ResumeCollectingEvents,
       T!WaitPrompt, P!WaitPrompt, T!SendFails, P!SendFails, T!Raise, P!Raise,
       T!Return, P!Return, T!Numbers, P!Numbers, T!Fill, P!Fill,
       T!SkipUnterminated, P!SkipUnterminated, T!TakeRecord, P!TakeRecord,
       T!Terminated, P!Terminated, T!Gathered, P!Gathered, T!TakeReply, P!TakeReply,
       T!TakeError, P!TakeError, T!TakeResumeReply, P!TakeResumeReply,
       T!TakePrompt, P!TakePrompt, T!Timeout, P!Timeout, T!EndOfFile, P!EndOfFile,
       T!GiveUp, P!GiveUp, T!Looping, P!Looping, T!Waiting, P!Waiting,
       T!Satisfied, P!Satisfied, T!Answer, P!Answer, T!Announce, P!Announce,
       T!Write, P!Write

\* The assumption under which the theorems of TransportProofs hold.
LEMMA Bounds == P!BoundsAssumption
BY BoundsAssumption DEF P!BoundsAssumption

-----------------------------------------------------------------------------
(* Every step is a step of the transport. *)

LEMMA MethodNames ==
    /\ Methods = {"cont", "brk", "step", "stepOver", "reset", "runUntil", "query"}
    /\ Resuming = {"stepOver", "runUntil"}
    /\ \A m \in Resuming : UntilPrefix[m] \in SUBSET EventKind
BY DEF Methods, Line, Resuming, UntilPrefix, EventKind, StopEvents, BrkEvents

\* What the emulator may answer.
Replies == IF cpu = "stop" THEN WhenStopped(lines[answered + 1])
                           ELSE WhenRunning(lines[answered + 1])

LEMMA ReplyShape ==
    ASSUME TypeOK, NEW reply \in Replies
    PROVE  /\ reply.terminator \in {"RDY", "ERR"}
           /\ reply.kinds \in Seq(EventKind)
           /\ reply.cpu \in {"stop", "run", "over"}
<1>1. /\ "STEP" \in EventKind /\ "BREAK" \in EventKind /\ "USER" \in EventKind
      /\ "WP" \in EventKind /\ "RES" \in EventKind
  BY DEF EventKind, StopEvents, BrkEvents
<1>2. /\ <<>> \in Seq(EventKind)
      /\ \A a \in EventKind : <<a>> \in Seq(EventKind)
      /\ \A a, b \in EventKind : <<a, b>> \in Seq(EventKind)
  OBVIOUS
<1> DEFINE Kinds == Seq(EventKind)
<1> HIDE DEF Kinds
<1>3. /\ <<>> \in Kinds /\ <<"STEP">> \in Kinds /\ <<"RES">> \in Kinds
      /\ <<"USER">> \in Kinds /\ <<"RES", "BREAK">> \in Kinds /\ <<"RES", "WP">> \in Kinds
  BY <1>1, <1>2 DEF Kinds
<1>4. PICK t \in {"RDY", "ERR"}, k \in Kinds, c \in {"stop", "run", "over"} :
          reply = Answered(t, k, c)
  <2>1. CASE reply \in WhenStopped(lines[answered + 1])
    BY <1>3, <2>1 DEF WhenStopped
  <2>2. CASE reply \in WhenRunning(lines[answered + 1])
    BY <1>3, <2>2 DEF WhenRunning, TypeOK
  <2> QED
    BY <2>1, <2>2 DEF Replies
<1> QED
  BY <1>4 DEF Answered, Kinds

LEMMA StepSimulates ==
    TypeOK /\ [Next]_vars => [T!Next]_(T!vars)
<1> SUFFICES ASSUME TypeOK, [Next]_vars
             PROVE  [T!Next]_(T!vars)
  OBVIOUS
<1>1. ASSUME NEW m \in Methods, Call(m)
      PROVE  T!Next
  BY <1>1, MethodNames DEF Call, T!Next, T!Invoke, T!Command, T!ResumeCollectingEvents
<1>2. ASSUME NEW m \in Methods, CallFails(m)
      PROVE  T!Next
  BY <1>2 DEF CallFails, T!Next, T!Invoke
<1>3. CASE Advance
  BY <1>3 DEF Advance, T!Next
<1>4. CASE Execute
  <2>1. PICK reply \in Replies :
            /\ emitted + Len(reply.kinds) <= MaxEvents
            /\ T!Write(reply.terminator, answered + 1, reply.kinds)
            /\ emitted' = emitted + Len(reply.kinds)
    BY <1>4 DEF Execute, Replies
  <2> DEFINE k == Len(reply.kinds)
  <2>2. k \in Nat /\ reply.kinds \in [1..k -> EventKind]
    BY <2>1, ReplyShape
  <2>3. k \in 0..(MaxEvents - emitted)
    BY <2>1, <2>2, BoundsAssumption DEF TypeOK, T!TypeOK
  <2>4. answered < sent /\ answered' = answered + 1
    BY <1>4 DEF Execute
  <2>5. T!Answer
    BY <2>1, <2>2, <2>3, <2>4, ReplyShape DEF T!Answer
  <2> QED
    BY <2>5 DEF T!Next
<1>5. CASE Halt
  <2>1. PICK kind \in EventKind : T!Write("none", 0, <<kind>>)
    BY <1>5 DEF Halt, EventKind, StopEvents, BrkEvents
  <2>2. <<kind>> \in [1..1 -> EventKind]
    BY <2>1
  <2>3. 1 \in 0..(MaxEvents - emitted) /\ emitted' = emitted + 1 /\ UNCHANGED answered
    BY <1>5, BoundsAssumption DEF Halt, TypeOK, T!TypeOK
  <2>4. T!Announce
    BY <2>1, <2>2, <2>3 DEF T!Announce
  <2> QED
    BY <2>4 DEF T!Next
<1>6. CASE BarePrompt
  <2>1. <<>> \in [1..0 -> EventKind] /\ T!Write("none", 0, <<>>)
    BY <1>6 DEF BarePrompt
  <2>2. /\ 0 \in 0..(MaxEvents - emitted) /\ emitted' = emitted + 0
        /\ UNCHANGED answered
    BY <1>6, BoundsAssumption DEF BarePrompt, TypeOK, T!TypeOK
  <2>3. T!Announce
    BY <2>1, <2>2, Zenon DEF T!Announce
  <2> QED
    BY <2>3 DEF T!Next
<1>7. CASE Exit
  BY <1>7 DEF Exit, T!Next
<1>8. CASE UNCHANGED vars
  BY <1>8 DEF vars, transportVars, T!vars
<1> QED
  BY <1>1, <1>2, <1>3, <1>4, <1>5, <1>6, <1>7, <1>8 DEF Next

-----------------------------------------------------------------------------
(* The first stop among some events. *)

HasStop(events) == \E e \in events : e.kind \in StopEvents

\* CHOOSE is well defined: event lines are numbered, so one of the stops is first.
LEMMA FirstStop ==
    ASSUME NEW events \in SUBSET T!Event, HasStop(events)
    PROVE  /\ FindStopEvent(events) \in events
           /\ FindStopEvent(events) # None
<1> DEFINE stops == {e \in events : e.kind \in StopEvents}
           numbers == {e.n : e \in stops}
<1>1. stops # {} /\ \A e \in stops : e.n \in Nat \ {0}
  BY DEF HasStop, T!Event
<1>2. numbers \subseteq Nat /\ numbers # {}
  BY <1>1
<1> DEFINE Less == {ss \in Nat \X Nat : ss[1] < ss[2]}
<1>3. IsWellFoundedOn(Less, Nat)
  BY NatLessThanWellFounded, Zenon DEF OpToRel
<1>4. \A i, j \in Nat : <<j, i>> \in Less <=> j < i
  OBVIOUS
<1> HIDE DEF Less, numbers
<1>5. PICK i \in numbers : \A j \in numbers : <<j, i>> \notin Less
  BY <1>2, <1>3, WFMin
<1>6. \A j \in numbers : i <= j
  <2>1. \A j \in numbers : i \in Nat /\ j \in Nat /\ ~(j < i)
    BY <1>2, <1>4, <1>5, Zenon
  <2> QED
    BY <2>1
<1>7. \E e \in stops : \A f \in stops : e.n <= f.n
  BY <1>6 DEF numbers
<1>8. FindStopEvent(events) = CHOOSE e \in stops : \A f \in stops : e.n <= f.n
  BY <1>1 DEF FindStopEvent
<1>9. FindStopEvent(events) \in stops
  BY <1>7, <1>8, Zenon
<1> QED
  BY <1>1, <1>9 DEF None

LEMMA NoStop ==
    ASSUME NEW events, ~HasStop(events)
    PROVE  FindStopEvent(events) = None
BY DEF HasStop, FindStopEvent

LEMMA FoundIsEvent ==
    ASSUME NEW events \in SUBSET T!Event
    PROVE  FindStopEvent(events) \in EventOrNone
BY FirstStop, NoStop DEF EventOrNone

-----------------------------------------------------------------------------
(* Types. *)

\* How the transport's part of a method's step ends the call: the records it reads
\* and the outcome it leaves.
LEMMA ProgressEnds ==
    ASSUME TypeOK, T!TypeOK', T!Progress
    PROVE  /\ pc # "idle"
           /\ outcome'.events \in SUBSET T!Event
           /\ UNCHANGED <<sent, answered, emitted, process>>
           /\ pc' \in {pc, "idle", "resumeWait"}
<1>1. outcome'.events \in SUBSET T!Event
  BY DEF T!TypeOK, T!Outcome
<1> QED
  BY <1>1 DEF T!Progress, T!Fill, T!SkipUnterminated, T!TakeReply, T!TakeError, T!TakeResumeReply,
        T!TakePrompt, T!Timeout, T!EndOfFile, T!TakeRecord, T!Return, T!Raise,
        T!Looping, T!Waiting, T!emulatorVars, T!historyVars

LEMMA TypeOKInit == Init => TypeOK
<1> SUFFICES ASSUME Init
             PROVE  TypeOK
  OBVIOUS
<1>1. P!TypeOK
  BY SameInit, Bounds, P!TypeOKInit DEF Init
<1>2. sent = 0 /\ pc = "idle" /\ emitted <= MaxEvents
  BY BoundsAssumption DEF Init, T!Init
<1>3. lines \in Seq({Line[m] : m \in Methods}) /\ Len(lines) = sent
  BY <1>2 DEF Init
<1> QED
  BY <1>1, <1>2, <1>3, SameTypes, MethodNames DEF Init, TypeOK, EventOrNone

LEMMA EmittedStep ==
    ASSUME TypeOK, [Next]_vars
    PROVE  emitted' <= MaxEvents
<1>1. emitted \in Nat /\ emitted <= MaxEvents
  BY DEF TypeOK, T!TypeOK
<1>2. CASE Execute \/ Halt
  BY <1>1, <1>2, BoundsAssumption DEF Execute, Halt
<1>3. CASE ~(Execute \/ Halt)
  <2>1. Advance => UNCHANGED emitted
    BY DEF Advance, T!Progress, T!Fill, T!SkipUnterminated, T!TakeReply, T!TakeError,
        T!TakeResumeReply, T!TakePrompt, T!Timeout, T!EndOfFile, T!TakeRecord, T!emulatorVars
  <2>2. UNCHANGED emitted
    BY <1>3, <2>1 DEF Next, Call, CallFails, BarePrompt, Exit, T!Send, T!SendFails, T!Exit,
        T!emulatorVars, vars, transportVars
  <2> QED
    BY <1>1, <2>2
<1> QED
  BY <1>2, <1>3

LEMMA TypeOKStep == TypeOK /\ [Next]_vars => TypeOK'
<1> SUFFICES ASSUME TypeOK, [Next]_vars
             PROVE  TypeOK'
  OBVIOUS
<1>1. T!TypeOK' /\ emitted' <= MaxEvents
  <2>1. P!TypeOK /\ [P!Next]_(P!vars)
    BY StepSimulates, SameTypes, SameNext DEF TypeOK, T!vars, P!vars
  <2>2. P!TypeOK'
    BY <2>1, Bounds, P!TypeOKStep
  <2> QED
    BY <2>2, EmittedStep DEF T!TypeOK, P!TypeOK, T!Record, P!Record, T!Control, P!Control,
                T!Outcome, P!Outcome, T!Event, P!Event, T!Raises, P!Raises
<1>2. ASSUME NEW m \in Methods, Call(m)
      PROVE  TypeOK'
  <2>1. /\ lines' = Append(lines, Line[m]) /\ method' = m /\ mark' = emitted
        /\ UNCHANGED <<cpu, lastEvent, known>>
    BY <1>2 DEF Call
  <2>2. sent' = sent + 1 /\ pc' # "idle"
    BY <1>2 DEF Call, T!Send
  <2> DEFINE Lines == {Line[i] : i \in Methods}
  <2>3. Line[m] \in Lines
    OBVIOUS
  <2> HIDE DEF Lines
  <2>4. lines \in Seq(Lines) /\ Len(lines) = sent /\ sent \in Nat /\ emitted \in Nat
    BY DEF TypeOK, T!TypeOK, Lines
  <2>5. lines' \in Seq(Lines) /\ Len(lines') = sent'
    BY <2>1, <2>2, <2>3, <2>4
  <2>6. m # "none"
    BY MethodNames
  <2> QED
    BY <1>1, <2>1, <2>2, <2>4, <2>5, <2>6 DEF TypeOK, EventOrNone, T!Event, Lines
<1>3. ASSUME NEW m \in Methods, CallFails(m)
      PROVE  TypeOK'
  <2>1. UNCHANGED <<lines, cpu, method, lastEvent, mark, sent>>
    BY <1>3 DEF CallFails, T!SendFails
  <2>2. pc = "idle" /\ pc' = "idle"
    BY <1>3 DEF CallFails, T!SendFails, T!Raise
  <2>3. known' \in BOOLEAN
    BY <1>3, Zenon DEF CallFails, KnownAfter, TypeOK
  <2> QED
    BY <1>1, <2>1, <2>2, <2>3 DEF TypeOK, EventOrNone, T!Event
<1>4. CASE Advance
  <2>1. /\ pc # "idle" /\ outcome'.events \in SUBSET T!Event
        /\ UNCHANGED sent
    BY <1>1, <1>4, ProgressEnds DEF Advance
  <2>2. CASE Finish
    <3>1. FindStopEvent(outcome'.events) \in EventOrNone
      BY <2>1, FoundIsEvent
    <3>2. lastEvent' \in EventOrNone
      BY <2>2, <3>1 DEF Finish, TypeOK
    <3>3. known' \in BOOLEAN
      BY <2>2, Zenon DEF Finish, KnownAfter, TypeOK
    <3> QED
      BY <1>1, <2>1, <2>2, <3>2, <3>3 DEF Finish, TypeOK, EventOrNone, T!Event
  <2>3. CASE pc' # "idle" /\ UNCHANGED <<lines, cpu, callerVars>>
    BY <1>1, <2>1, <2>3 DEF TypeOK, callerVars, EventOrNone, T!Event
  <2> QED
    BY <1>4, <2>2, <2>3 DEF Advance
<1>5. CASE Execute
  <2>1. cpu' \in {"stop", "run", "over"}
    BY <1>5, ReplyShape DEF Execute, Replies
  <2>2. UNCHANGED <<lines, method, lastEvent, known, mark, sent, pc>>
    BY <1>5 DEF Execute, T!Write, callerVars
  <2> QED
    BY <1>1, <2>1, <2>2 DEF TypeOK, EventOrNone, T!Event
<1>6. CASE Halt
  BY <1>1, <1>6 DEF Halt, T!Write, callerVars, TypeOK, EventOrNone, T!Event
<1>7. CASE BarePrompt
  BY <1>1, <1>7 DEF BarePrompt, T!Write, callerVars, TypeOK, EventOrNone, T!Event
<1>8. CASE Exit
  BY <1>1, <1>8 DEF Exit, T!Exit, callerVars, TypeOK, EventOrNone, T!Event
<1>9. CASE UNCHANGED vars
  BY <1>1, <1>9 DEF vars, transportVars, callerVars, TypeOK, EventOrNone, T!Event
<1> QED
  BY <1>2, <1>3, <1>4, <1>5, <1>6, <1>7, <1>8, <1>9 DEF Next

\* Every variable keeps its type, a command line is kept for every command sent, and
\* a method is in progress exactly while its call of the transport is.
THEOREM TypeCorrect == Spec => []TypeOK
<1>1. Init => TypeOK
  BY TypeOKInit
<1>2. TypeOK /\ [Next]_vars => TypeOK'
  BY TypeOKStep
<1> QED
  BY <1>1, <1>2, PTL DEF Spec

\* The methods use the transport, and the emulator answers, as Transport says.
THEOREM MethodsUseTransport == Spec => UsesTransport
<1>1. Init => T!Init
  BY DEF Init
<1>2. TypeOK /\ [Next]_vars => [T!Next]_(T!vars)
  BY StepSimulates
<1> QED
  BY <1>1, <1>2, TypeCorrect, PTL DEF Spec, UsesTransport, T!Spec

-----------------------------------------------------------------------------
(* What TransportProofs shows of the replies holds here. *)

LEMMA ReplyInvInit == Init => P!ReplyInv
BY SameInit, Bounds, P!ReplyInvInit DEF Init

LEMMA ReplyInvStep == TypeOK /\ P!ReplyInv /\ [Next]_vars => P!ReplyInv'
<1> SUFFICES ASSUME TypeOK, P!ReplyInv, [Next]_vars
             PROVE  P!ReplyInv'
  OBVIOUS
<1>1. [P!Next]_(P!vars)
  BY StepSimulates, SameNext DEF T!vars, P!vars
<1>2. P!TypeOK'
  BY <1>1, Bounds, P!TypeOKStep DEF P!ReplyInv
<1>3. P!RepliesInOrder'
  BY <1>1, Bounds, P!OrderStep
<1>4. P!DebtLaw' /\ P!ReplyLag'
  BY <1>1, Bounds, P!DebtStep
<1> QED
  BY <1>2, <1>3, <1>4 DEF P!ReplyInv

\* While no command has timed out a call in command() waits for the one command
\* that has no reply yet, and at most one reply is in the stream.
LEMMA OneReply ==
    ASSUME TypeOK, P!ReplyInv, abandoned = 0
    PROVE  /\ answered <= sent
           /\ pc \in T!Looping => sent = taken + 1
           /\ pc \notin T!Looping => answered = sent /\ sent = taken
           /\ answered < sent => answered = taken
           /\ \A i \in DOMAIN stream : T!Terminated(stream[i]) => answered = sent
           /\ \A i, j \in DOMAIN stream :
                  T!Terminated(stream[i]) /\ T!Terminated(stream[j]) => i = j
<1>1. /\ taken <= answered /\ answered <= sent
      /\ \A i \in DOMAIN stream :
             T!Terminated(stream[i]) => stream[i].answers \in (taken + 1)..answered
      /\ \A i, j \in DOMAIN stream :
             (i < j /\ T!Terminated(stream[i]) /\ T!Terminated(stream[j]))
                 => stream[i].answers < stream[j].answers
  BY DEF P!ReplyInv, P!RepliesInOrder, P!Terminated, T!Terminated
<1>2. sent \in Nat /\ taken \in Nat /\ answered \in Nat /\ stray \in Nat
      /\ stream \in Seq(T!Record)
  BY DEF TypeOK, T!TypeOK
<1>3. sent - taken = (IF pc \in T!Looping THEN 1 ELSE 0)
  BY <1>2 DEF P!ReplyInv, P!DebtLaw, P!Debt, P!Looping, T!Looping
<1>4. \A i \in DOMAIN stream :
          T!Terminated(stream[i]) =>
              answered = sent /\ stream[i].answers = sent
  BY <1>1, <1>2, <1>3
<1>5. \A i, j \in DOMAIN stream :
          T!Terminated(stream[i]) /\ T!Terminated(stream[j]) => ~(i < j) /\ ~(j < i)
  BY <1>1, <1>2, <1>4
<1>6. \A i, j \in DOMAIN stream :
          T!Terminated(stream[i]) /\ T!Terminated(stream[j]) => i = j
  <2>1. \A i \in DOMAIN stream : i \in Nat
    BY <1>2
  <2> QED
    BY <1>5, <2>1
<1> QED
  BY <1>1, <1>2, <1>3, <1>4, <1>6

-----------------------------------------------------------------------------
(* What a caller knows. *)

\* How the method in progress hangs together with its call of the transport.
Linked ==
    /\ pc # "wait"
    /\ method \in Resuming <=> pc \in {"resumeLoop", "resumeWait"}
    /\ method \in Resuming => until = UntilPrefix[method]
    /\ method # "none" => sent > 0 /\ lines[sent] = Line[method]
    /\ pc = "idle" => collected = {}
    /\ mark <= emitted

\* A record of a leftover prompt, and that all but some records of the stream are such.
Bare(r) == ~T!Terminated(r) /\ r.events = {}
BareBut(read) == \A i \in DOMAIN stream \ read : Bare(stream[i])

\* Between two methods: the CPU is stopped and nothing is left to read but prompts.
AtRest == Sure /\ pc = "idle" => cpu = "stop" /\ BareBut({})

\* A method has sent its line and the emulator has not read it.
Unanswered ==
    Sure /\ pc \in T!Looping /\ answered < sent =>
        cpu = "stop" /\ BareBut({}) /\ collected = {}

\* The methods that leave a stopped CPU stopped, brk aside, which stops it.
Steady == {"step", "query", "reset"}

\* Nothing but prompts follows their reply: a stopped CPU writes no other record.
ReplyLast ==
    abandoned = 0 /\ pc = "loop" /\ answered = sent
        /\ (method = "brk" \/ (known /\ method \in Steady)) =>
        cpu = "stop" /\ \E i \in DOMAIN stream : T!Terminated(stream[i]) /\ BareBut(1..i)

\* The stop a resume waits for is among the events of its reply, or in one record
\* that comes after those in "read", or the CPU runs.
StopFollows(events, read) ==
    \/ BareBut(read) /\ (cpu = "stop" <=> HasStop(events))
    \/ /\ cpu = "stop" /\ ~HasStop(events)
       /\ \E j \in DOMAIN stream : /\ \A i \in read : i < j
                                   /\ HasStop(stream[j].events)
                                   /\ BareBut(read \cup {j})

\* A resume has its reply in the stream, and the reply or a later record the stop.
Resumed ==
    Sure /\ pc = "resumeLoop" /\ answered = sent =>
        /\ collected = {}
        /\ \E i \in DOMAIN stream :
               T!Terminated(stream[i]) /\ StopFollows(stream[i].events, {i})

\* The same when the reply has been read.
AwaitsStop == Sure /\ pc = "resumeWait" => StopFollows(collected, {})

\* All the method reads was written after it was called.
Fresh ==
    Sure /\ pc # "idle" =>
        /\ \A e \in collected : e.n > mark
        /\ \A i \in DOMAIN stream : \A e \in stream[i].events : e.n > mark

StopInv == AtRest /\ Unanswered /\ ReplyLast /\ Resumed /\ AwaitsStop /\ Fresh

IInv == TypeOK /\ P!ReplyInv /\ Linked /\ StopInv

LEMMA IInvInit == Init => IInv
<1> SUFFICES ASSUME Init
             PROVE  IInv
  OBVIOUS
<1>1. TypeOK /\ P!ReplyInv
  BY TypeOKInit, ReplyInvInit
<1>2. pc = "idle" /\ collected = {} /\ method = "none" /\ known = FALSE /\ mark = 0 /\ emitted = 0
  BY DEF Init, T!Init
<1>3. Linked
  BY <1>2, MethodNames DEF Linked
<1>4. StopInv
  BY <1>2, Zenon DEF StopInv, AtRest, Unanswered, ReplyLast, Resumed, AwaitsStop, Fresh, Sure,
             T!Looping
<1> QED
  BY <1>1, <1>3, <1>4 DEF IInv

LEMMA LinkedStep ==
    ASSUME TypeOK, Linked, TypeOK', [Next]_vars
    PROVE  Linked'
<1>1. ASSUME NEW m \in Methods, Call(m)
      PROVE  Linked'
  <2>1. /\ sent' = sent + 1 /\ pc' = (IF m \in Resuming THEN "resumeLoop" ELSE "loop")
        /\ m \in Resuming => until' = UntilPrefix[m]
        /\ UNCHANGED emitted
    BY <1>1 DEF Call, T!Send, T!emulatorVars
  <2>2. lines' = Append(lines, Line[m]) /\ method' = m /\ mark' = emitted
    BY <1>1 DEF Call
  <2>3. Len(lines) = sent /\ sent \in Nat /\ emitted \in Nat
        /\ lines \in Seq({Line[i] : i \in Methods})
    BY DEF TypeOK, T!TypeOK
  <2>4. lines'[sent'] = Line[m]
    BY <2>1, <2>2, <2>3
  <2> QED
    BY <2>1, <2>2, <2>3, <2>4 DEF Linked
<1>2. ASSUME NEW m \in Methods, CallFails(m)
      PROVE  Linked'
  BY <1>2 DEF CallFails, T!SendFails, T!Raise, T!emulatorVars, Linked, TypeOK, T!TypeOK
<1>3. CASE Advance
  <2>1. /\ pc # "idle" /\ pc' \in {pc, "idle", "resumeWait"}
        /\ pc' = "idle" => collected' = {}
        /\ pc' = "resumeWait" => pc \in {"resumeLoop", "resumeWait"}
        /\ pc' # "idle" => UNCHANGED until
        /\ UNCHANGED <<sent, emitted>>
    BY <1>3 DEF Advance, T!Progress, T!Fill, T!SkipUnterminated, T!TakeReply, T!TakeError,
        T!TakeResumeReply, T!TakePrompt, T!Timeout, T!EndOfFile, T!TakeRecord, T!Return,
        T!Raise, T!Looping, T!Waiting, T!emulatorVars, T!historyVars
  <2>2. CASE Finish
    BY <2>1, <2>2, MethodNames DEF Finish, Linked, TypeOK, T!TypeOK
  <2>3. CASE pc' # "idle" /\ UNCHANGED <<lines, cpu, callerVars>>
    BY <2>1, <2>3, MethodNames DEF Linked, callerVars
  <2> QED
    BY <1>3, <2>2, <2>3 DEF Advance
<1>4. CASE Execute
  <2>1. PICK reply \in Replies : emitted' = emitted + Len(reply.kinds)
    BY <1>4 DEF Execute, Replies
  <2>2. emitted <= emitted'
    <3>1. reply.kinds \in Seq(EventKind) /\ emitted \in Nat
      BY ReplyShape DEF TypeOK, T!TypeOK
    <3>2. Len(reply.kinds) \in Nat
      BY <3>1
    <3> QED
      BY <2>1, <3>1, <3>2
  <2> QED
    BY <1>4, <2>2 DEF Execute, T!Write, callerVars, Linked, TypeOK, T!TypeOK
<1>5. CASE Halt
  BY <1>5 DEF Halt, T!Write, callerVars, Linked, TypeOK, T!TypeOK
<1>6. CASE BarePrompt
  BY <1>6 DEF BarePrompt, T!Write, callerVars, Linked, TypeOK, T!TypeOK
<1>7. CASE Exit
  BY <1>7 DEF Exit, T!Exit, callerVars, Linked
<1>8. CASE UNCHANGED vars
  BY <1>8 DEF vars, transportVars, callerVars, Linked
<1> QED
  BY <1>1, <1>2, <1>3, <1>4, <1>5, <1>6, <1>7, <1>8 DEF Next

\* Reading a record: it is the first of the stream and the others move up.
LEMMA HeadTaken ==
    ASSUME TypeOK, T!TakeRecord
    PROVE  /\ 1 \in DOMAIN stream /\ Head(stream) = stream[1] /\ stream # <<>>
           /\ \A i \in DOMAIN stream' :
                  i \in Nat /\ i + 1 \in DOMAIN stream \ {1} /\ stream'[i] = stream[i + 1]
           /\ \A i \in DOMAIN stream \ {1} :
                  i \in Nat /\ i - 1 \in DOMAIN stream' /\ stream'[i - 1] = stream[i]
           /\ UNCHANGED <<sent, answered, emitted, abandoned>>
<1>1. stream \in Seq(T!Record) /\ buffered \in 0..Len(stream) /\ buffered > 0
  BY DEF TypeOK, T!TypeOK, T!TakeRecord
<1>2. stream # <<>> /\ stream' = Tail(stream) /\ Len(stream) \in Nat \ {0}
  BY <1>1 DEF T!TakeRecord
<1>3. UNCHANGED <<sent, answered, emitted, abandoned>>
  BY DEF T!TakeRecord, T!emulatorVars
<1> QED
  BY <1>1, <1>2, <1>3

\* Nothing but prompts after the first record: nothing but prompts once it is read.
LEMMA BareTaken ==
    ASSUME TypeOK, T!TakeRecord, BareBut({1})
    PROVE  BareBut({})'
BY HeadTaken DEF BareBut, Bare, T!Terminated

\* What a caller that knows the CPU is stopped was told when its method ended.
LEMMA KnownAgain ==
    ASSUME TypeOK, Finish, known'
    PROVE  \/ /\ Returns /\ method \in Reporting
              /\ FindStopEvent(outcome'.events) # None
              /\ known \/ method = "brk"
           \/ known /\ method \in {"query", "reset"}
<1>1. CASE Returns /\ method \in Reporting
  BY <1>1 DEF Finish, KnownAfter
<1>2. CASE ~(Returns /\ method \in Reporting)
  BY <1>2, Zenon DEF Finish, KnownAfter
<1> QED
  BY <1>1, <1>2

\* The end of a call that leaves a stopped CPU and nothing to read but prompts.
LEMMA RestEnds ==
    ASSUME pc' = "idle", Sure' => cpu' = "stop" /\ BareBut({})'
    PROVE  StopInv'
BY DEF StopInv, AtRest, Unanswered, ReplyLast, Resumed, AwaitsStop, Fresh, T!Looping

\* When the reply of brk or of a steady method is taken only prompts are left.
LEMMA ReplyTaken ==
    ASSUME IInv, abandoned = 0, pc = "loop", T!TakeRecord, T!Terminated(Head(stream)),
           method = "brk" \/ (known /\ method \in Steady)
    PROVE  cpu = "stop" /\ BareBut({})'
<1>1. 1 \in DOMAIN stream /\ T!Terminated(stream[1])
  BY HeadTaken DEF IInv
<1>2. answered = sent
  BY <1>1, OneReply DEF IInv
<1>3. PICK i \in DOMAIN stream : cpu = "stop" /\ T!Terminated(stream[i]) /\ BareBut(1..i)
  BY <1>2, Zenon DEF IInv, StopInv, ReplyLast
<1>4. i = 1
  BY <1>1, <1>3, OneReply DEF IInv
<1>5. BareBut({1})
  BY <1>3, <1>4 DEF BareBut
<1> QED
  BY <1>3, <1>5, BareTaken DEF IInv

LEMMA CallStep ==
    ASSUME IInv, NEW m \in Methods, Call(m)
    PROVE  StopInv'
<1>1. /\ pc = "idle" /\ sent' = sent + 1 /\ pc' \in {"loop", "resumeLoop"}
      /\ UNCHANGED <<answered, stream, collected, abandoned, cpu, known>>
  BY DEF Call, T!Send, T!emulatorVars, T!historyVars
<1>2. CASE abandoned # 0
  BY <1>1, <1>2 DEF StopInv, AtRest, Unanswered, ReplyLast, Resumed, AwaitsStop, Fresh, Sure
<1>3. CASE abandoned = 0
  <2>1. answered # sent'
    BY <1>1, <1>3, OneReply DEF IInv, TypeOK, T!TypeOK
  <2>2. collected' = {} /\ (Sure => cpu' = "stop" /\ BareBut({}))
    BY <1>1, Zenon DEF IInv, Linked, StopInv, AtRest
  <2>3. BareBut({})' <=> BareBut({})
    BY <1>1 DEF BareBut
  <2>4. Sure' <=> Sure
    BY <1>1 DEF Sure
  <2>5. Unanswered'
    BY <2>2, <2>3, <2>4, Zenon DEF Unanswered
  <2>6. AtRest' /\ ReplyLast' /\ Resumed' /\ AwaitsStop'
    BY <1>1, <2>1 DEF AtRest, ReplyLast, Resumed, AwaitsStop
  <2>7. Fresh'
    <3>1. Sure' => \A i \in DOMAIN stream' : stream'[i].events = {}
      BY <1>1, <2>2, <2>4 DEF BareBut, Bare
    <3> QED
      BY <2>2, <3>1 DEF Fresh
  <2> QED
    BY <2>5, <2>6, <2>7 DEF StopInv
<1> QED
  BY <1>2, <1>3

LEMMA CallFailsStep ==
    ASSUME IInv, NEW m \in Methods, CallFails(m)
    PROVE  StopInv'
<1>1. /\ pc = "idle" /\ pc' = "idle" /\ outcome'.kind = "BrokenPipeError"
      /\ UNCHANGED <<stream, abandoned, cpu>>
      /\ known' = KnownAfter(m, None)
  BY DEF CallFails, T!SendFails, T!Raise
<1>2. ~Returns
  BY <1>1 DEF Returns, T!Raises
<1>3. known' => known
  BY <1>1, <1>2, Zenon DEF KnownAfter
<1>4. Sure' => cpu' = "stop" /\ BareBut({})
  BY <1>1, <1>3, Zenon DEF Sure, IInv, StopInv, AtRest
<1>5. BareBut({})' <=> BareBut({})
  BY <1>1 DEF BareBut
<1> QED
  BY <1>1, <1>4, <1>5, RestEnds, Zenon

LEMMA TakeReplyStep ==
    ASSUME IInv, T!TakeReply, Finish
    PROVE  StopInv'
<1>1. /\ pc = "loop" /\ T!TakeRecord /\ T!Terminated(Head(stream)) /\ pc' = "idle"
      /\ UNCHANGED cpu
  BY DEF T!TakeReply, T!Terminated, Finish
<1>2. abandoned' = abandoned
  BY <1>1 DEF T!TakeRecord
<1>3. method \notin Resuming
  BY <1>1 DEF IInv, Linked
<1>4. Sure' => abandoned = 0 /\ (method = "brk" \/ (known /\ method \in Steady))
  BY <1>2, <1>3, KnownAgain, MethodNames DEF Sure, IInv, Steady, Reporting
<1> QED
  BY <1>1, <1>4, ReplyTaken, RestEnds

LEMMA TakeErrorStep ==
    ASSUME IInv, T!TakeError, Finish
    PROVE  StopInv'
<1>1. /\ pc \in T!Looping /\ T!TakeRecord /\ T!Terminated(Head(stream)) /\ pc' = "idle"
      /\ UNCHANGED cpu
  BY DEF T!TakeError, T!Terminated, Finish
<1>2. abandoned' = abandoned
  BY <1>1 DEF T!TakeRecord
<1>3. ~Returns
  BY DEF T!TakeError, T!Raise, Returns, T!Raises
<1>4. Sure' => abandoned = 0 /\ known /\ method \in {"query", "reset"}
  BY <1>2, <1>3, KnownAgain DEF Sure, IInv
<1>5. method \in {"query", "reset"} => pc = "loop"
  BY <1>1, MethodNames DEF T!Looping, IInv, Linked
<1> QED
  BY <1>1, <1>4, <1>5, ReplyTaken, RestEnds DEF Steady

LEMMA EventsAreEvents ==
    ASSUME TypeOK
    PROVE  /\ collected \in SUBSET T!Event
           /\ \A i \in DOMAIN stream : stream[i].events \in SUBSET T!Event
<1>1. stream \in Seq(T!Record) /\ collected \in SUBSET T!Event
  BY DEF TypeOK, T!TypeOK
<1>2. \A r \in T!Record : r.events \in SUBSET T!Event
  BY DEF T!Record
<1>3. \A i \in DOMAIN stream : stream[i] \in T!Record
  BY <1>1
<1> QED
  BY <1>1, <1>2, <1>3

\* In a resume that is done an awaited stop is among the events of the reply: the
\* CPU stopped before it wrote anything else.
LEMMA TakeResumeReplyStep ==
    ASSUME IInv, T!TakeResumeReply, Advance
    PROVE  StopInv'
<1>1. /\ pc = "resumeLoop" /\ T!TakeRecord /\ T!Terminated(Head(stream))
      /\ method \in Resuming /\ until = UntilPrefix[method]
  BY DEF T!TakeResumeReply, T!Terminated, IInv, Linked
<1>2. /\ 1 \in DOMAIN stream /\ Head(stream) = stream[1]
      /\ \A i \in DOMAIN stream' :
             i \in Nat /\ i + 1 \in DOMAIN stream \ {1} /\ stream'[i] = stream[i + 1]
      /\ \A i \in DOMAIN stream \ {1} :
             i \in Nat /\ i - 1 \in DOMAIN stream' /\ stream'[i - 1] = stream[i]
      /\ UNCHANGED abandoned
  BY <1>1, HeadTaken DEF IInv
<1>3. ASSUME Sure
      PROVE  collected = {} /\ StopFollows(stream[1].events, {1})
  <2>1. answered = sent
    BY <1>1, <1>2, <1>3, OneReply DEF IInv, Sure
  <2>2. PICK i \in DOMAIN stream :
            collected = {} /\ T!Terminated(stream[i]) /\ StopFollows(stream[i].events, {i})
    BY <1>1, <1>3, <2>1, Zenon DEF IInv, StopInv, Resumed
  <2>3. i = 1
    BY <1>1, <1>2, <1>3, <2>2, OneReply DEF IInv, Sure
  <2> QED
    BY <2>2, <2>3
<1>4. T!Gathered = collected \cup stream[1].events
  BY <1>2 DEF T!Gathered
<1>5. CASE T!Satisfied(T!Gathered) /\ T!Return("events", Head(stream).answers, T!Gathered)
  <2>1. pc' = "idle" /\ Finish
    BY <1>5 DEF T!Return, Advance
  <2>2. known' => known
    BY <1>1, <2>1, KnownAgain, MethodNames DEF IInv
  <2>3. HasStop(T!Gathered)
    BY <1>1, <1>5, MethodNames DEF T!Satisfied, UntilPrefix, HasStop, StopEvents
  <2>4. ASSUME Sure'
        PROVE  cpu' = "stop" /\ BareBut({})'
    <3>1. Sure
      BY <1>2, <2>2, <2>4 DEF Sure
    <3>2. HasStop(stream[1].events)
      BY <1>3, <1>4, <2>3, <3>1 DEF HasStop
    <3>3. cpu = "stop" /\ BareBut({1})
      BY <1>3, <3>1, <3>2, Zenon DEF StopFollows
    <3> QED
      BY <1>1, <2>1, <3>3, BareTaken DEF Finish, IInv
  <2> QED
    BY <2>1, <2>4, RestEnds
<1>6. CASE pc' = "resumeWait" /\ collected' = T!Gathered
  <2>1. UNCHANGED <<cpu, callerVars>>
    BY <1>6 DEF Advance, Finish
  <2>2. Sure' => Sure
    BY <1>2, <2>1 DEF Sure, callerVars
  <2>3. ASSUME Sure'
        PROVE  StopFollows(collected, {})'
    <3>1. collected' = stream[1].events
      BY <1>3, <1>4, <1>6, <2>2, <2>3
    <3>2. CASE BareBut({1}) /\ (cpu = "stop" <=> HasStop(stream[1].events))
      <4>1. BareBut({})' /\ (cpu' = "stop" <=> HasStop(collected'))
        BY <1>1, <2>1, <3>1, <3>2, BareTaken DEF IInv
      <4> QED
        BY <4>1 DEF StopFollows, HasStop
    <3>3. CASE /\ cpu = "stop" /\ ~HasStop(stream[1].events)
               /\ \E j \in DOMAIN stream : /\ \A i \in {1} : i < j
                                           /\ HasStop(stream[j].events)
                                           /\ BareBut({1} \cup {j})
      <4>1. PICK j \in DOMAIN stream : 1 < j /\ HasStop(stream[j].events) /\ BareBut({1, j})
        BY <3>3
      <4>2. j - 1 \in DOMAIN stream' /\ stream'[j - 1] = stream[j] /\ j \in Nat
        BY <1>2, <4>1
      <4>3. HasStop(stream'[j - 1].events)
        BY <4>1, <4>2
      <4>4. BareBut({j - 1})'
        BY <1>2, <4>1, <4>2 DEF BareBut, Bare, T!Terminated
      <4>5. cpu' = "stop" /\ ~HasStop(collected')
        BY <2>1, <3>1, <3>3
      <4> QED
        BY <4>2, <4>3, <4>4, <4>5 DEF StopFollows, HasStop
    <3> QED
      BY <1>3, <2>2, <2>3, <3>2, <3>3 DEF StopFollows
  <2>4. ASSUME Sure'
        PROVE  /\ \A e \in collected' : e.n > mark'
               /\ \A i \in DOMAIN stream' : \A e \in stream'[i].events : e.n > mark'
    BY <1>1, <1>2, <1>4, <1>6, <2>1, <2>2, <2>4 DEF IInv, StopInv, Fresh, callerVars
  <2> QED
    BY <1>6, <2>3, <2>4 DEF StopInv, AtRest, Unanswered, ReplyLast, Resumed, AwaitsStop,
                            Fresh, T!Looping
<1> QED
  BY <1>5, <1>6 DEF T!TakeResumeReply

\* What waitPrompt returns to a caller that knows again that the CPU is stopped was
\* the record of the stop, or a prompt behind a reply that held it.
LEMMA TakePromptStep ==
    ASSUME IInv, T!TakePrompt, Finish
    PROVE  StopInv'
<1>1. /\ pc = "resumeWait" /\ T!TakeRecord /\ method \in Resuming
      /\ pc' = "idle" /\ UNCHANGED cpu /\ outcome'.events = T!Gathered
  BY DEF T!TakePrompt, T!Return, T!Waiting, IInv, Linked, Finish
<1>2. /\ 1 \in DOMAIN stream /\ UNCHANGED abandoned
      /\ T!Gathered = collected \cup stream[1].events
  BY <1>1, HeadTaken DEF IInv, T!Gathered
<1>3. known' => known /\ FindStopEvent(T!Gathered) # None
  BY <1>1, KnownAgain, MethodNames DEF IInv
<1>4. ASSUME Sure'
      PROVE  cpu' = "stop" /\ BareBut({})'
  <2>1. Sure /\ HasStop(T!Gathered)
    BY <1>2, <1>3, <1>4, NoStop DEF Sure
  <2>2. HasStop(collected) \/ HasStop(stream[1].events)
    BY <1>2, <2>1 DEF HasStop
  <2>3. CASE BareBut({}) /\ (cpu = "stop" <=> HasStop(collected))
    <3>1. ~HasStop(stream[1].events) /\ BareBut({1})
      BY <1>2, <2>3 DEF BareBut, Bare, HasStop
    <3> QED
      BY <1>1, <2>2, <2>3, <3>1, BareTaken DEF IInv
  <2>4. CASE /\ cpu = "stop" /\ ~HasStop(collected)
             /\ \E j \in DOMAIN stream : HasStop(stream[j].events) /\ BareBut({j})
    <3>1. PICK j \in DOMAIN stream : HasStop(stream[j].events) /\ BareBut({j})
      BY <2>4
    <3>2. j = 1
      BY <1>2, <2>2, <2>4, <3>1 DEF BareBut, Bare, HasStop
    <3> QED
      BY <1>1, <2>4, <3>1, <3>2, BareTaken DEF IInv
  <2>5. StopFollows(collected, {})
    BY <1>1, <2>1, Zenon DEF IInv, StopInv, AwaitsStop
  <2> QED
    BY <2>3, <2>4, <2>5 DEF StopFollows
<1> QED
  BY <1>1, <1>4, RestEnds

LEMMA GiveUpStep ==
    ASSUME IInv, T!Timeout \/ T!EndOfFile, Finish
    PROVE  StopInv'
<1>1. /\ pc # "idle" /\ pc' = "idle" /\ UNCHANGED <<cpu, stream>>
      /\ abandoned' = abandoned + (IF pc \in T!Looping THEN 1 ELSE 0)
  BY DEF T!Timeout, T!EndOfFile, T!GiveUp, Finish
<1>2. abandoned \in Nat /\ pc \in {"loop", "resumeLoop", "resumeWait"}
  BY <1>1 DEF IInv, TypeOK, T!TypeOK, T!Control, Linked
<1>3. ASSUME Sure'
      PROVE  cpu' = "stop" /\ BareBut({})'
  <2>1. pc = "resumeWait" /\ abandoned = 0
    BY <1>1, <1>2, <1>3 DEF Sure, T!Looping
  <2>2. method \in Resuming
    BY <2>1 DEF IInv, Linked
  <2>3. Returns /\ FindStopEvent(outcome'.events) # None /\ known
    BY <1>3, <2>2, KnownAgain, MethodNames DEF IInv, Sure
  <2>4. outcome'.events = collected
    BY <2>1, <2>3 DEF T!Timeout, T!EndOfFile, T!Return, T!Raise, Returns, T!Raises
  <2>5. HasStop(collected)
    BY <2>3, <2>4, NoStop
  <2>6. cpu = "stop" /\ BareBut({})
    BY <2>1, <2>3, <2>5, Zenon DEF IInv, StopInv, AwaitsStop, StopFollows, Sure
  <2> QED
    BY <1>1, <2>6 DEF BareBut
<1> QED
  BY <1>1, <1>3, RestEnds

LEMMA SkipStep ==
    ASSUME IInv, T!SkipUnterminated, UNCHANGED <<cpu, callerVars>>
    PROVE  StopInv'
<1>1. /\ pc \in T!Looping /\ pc' = pc /\ T!TakeRecord /\ ~T!Terminated(Head(stream))
      /\ collected' = T!Gathered
  BY DEF T!SkipUnterminated
<1>2. /\ 1 \in DOMAIN stream /\ Head(stream) = stream[1]
      /\ \A i \in DOMAIN stream' :
             i \in Nat /\ i + 1 \in DOMAIN stream \ {1} /\ stream'[i] = stream[i + 1]
      /\ \A i \in DOMAIN stream \ {1} :
             i \in Nat /\ i - 1 \in DOMAIN stream' /\ stream'[i - 1] = stream[i]
      /\ UNCHANGED <<sent, answered, abandoned>>
  BY <1>1, HeadTaken DEF IInv
<1>3. Sure' => Sure
  BY <1>2 DEF Sure, callerVars
<1>4. T!Gathered = collected \cup stream[1].events
  BY <1>2 DEF T!Gathered
<1>5. AtRest' /\ AwaitsStop'
  BY <1>1 DEF AtRest, AwaitsStop, T!Looping
<1>6. Unanswered'
  <2>1. SUFFICES ASSUME Sure, answered < sent
                 PROVE  cpu = "stop" /\ BareBut({})' /\ T!Gathered = {}
    BY <1>1, <1>2, <1>3, Zenon DEF Unanswered
  <2>2. cpu = "stop" /\ BareBut({}) /\ collected = {}
    BY <1>1, <2>1, Zenon DEF IInv, StopInv, Unanswered
  <2>3. BareBut({1}) /\ stream[1].events = {}
    BY <1>2, <2>2 DEF BareBut, Bare
  <2> QED
    BY <1>1, <1>4, <2>2, <2>3, BareTaken DEF IInv
<1>7. ReplyLast'
  <2>1. SUFFICES ASSUME abandoned = 0 /\ pc = "loop" /\ answered = sent
                          /\ (method = "brk" \/ (known /\ method \in Steady))
                 PROVE  cpu = "stop" /\ \E i \in DOMAIN stream' :
                            T!Terminated(stream'[i]) /\ BareBut(1..i)'
    BY <1>1, <1>2 DEF ReplyLast, callerVars, T!Terminated, BareBut
  <2>2. PICK i \in DOMAIN stream : cpu = "stop" /\ T!Terminated(stream[i]) /\ BareBut(1..i)
    BY <2>1, Zenon DEF IInv, StopInv, ReplyLast
  <2>3. i # 1
    BY <1>1, <1>2, <2>2
  <2>4. i - 1 \in DOMAIN stream' /\ stream'[i - 1] = stream[i] /\ i \in Nat
    BY <1>2, <2>3
  <2>5. BareBut(1..(i - 1))'
    BY <1>2, <2>2, <2>4 DEF BareBut, Bare, T!Terminated
  <2> QED
    BY <2>2, <2>4, <2>5
<1>8. Resumed'
  <2>1. SUFFICES ASSUME Sure, pc = "resumeLoop", answered = sent
                 PROVE  /\ T!Gathered = {}
                        /\ \E i \in DOMAIN stream' :
                               T!Terminated(stream[i])' /\ StopFollows(stream[i].events, {i})'
    BY <1>1, <1>2, <1>3, Zenon DEF Resumed
  <2>2. PICK i \in DOMAIN stream :
            collected = {} /\ T!Terminated(stream[i]) /\ StopFollows(stream[i].events, {i})
    BY <2>1, Zenon DEF IInv, StopInv, Resumed
  <2>3. i # 1
    BY <1>1, <1>2, <2>2
  <2>4. /\ i - 1 \in DOMAIN stream' /\ stream'[i - 1] = stream[i] /\ i \in Nat
        /\ T!Terminated(stream[i - 1])'
    BY <1>2, <2>2, <2>3 DEF T!Terminated
  <2>5. CASE BareBut({i}) /\ (cpu = "stop" <=> HasStop(stream[i].events))
    <3>1. stream[1].events = {}
      BY <1>2, <2>3, <2>5 DEF BareBut, Bare
    <3>2. BareBut({i - 1})'
      BY <1>2, <2>4, <2>5 DEF BareBut, Bare, T!Terminated
    <3>3. cpu' = "stop" <=> HasStop(stream'[i - 1].events)
      BY <2>4, <2>5
    <3>4. StopFollows(stream[i - 1].events, {i - 1})'
      BY <3>2, <3>3 DEF StopFollows, HasStop
    <3> QED
      BY <1>4, <2>2, <2>4, <3>1, <3>4
  <2>6. CASE /\ cpu = "stop" /\ ~HasStop(stream[i].events)
             /\ \E j \in DOMAIN stream : /\ \A k \in {i} : k < j
                                         /\ HasStop(stream[j].events)
                                         /\ BareBut({i} \cup {j})
    <3>1. PICK j \in DOMAIN stream : i < j /\ HasStop(stream[j].events) /\ BareBut({i, j})
      BY <2>6
    <3>2. /\ j - 1 \in DOMAIN stream' /\ stream'[j - 1] = stream[j] /\ j \in Nat /\ j # 1
          /\ i - 1 < j - 1
      <4>1. j # 1
        BY <1>2, <2>3, <2>4, <3>1
      <4> QED
        BY <1>2, <2>4, <3>1, <4>1
    <3>3. stream[1].events = {}
      BY <1>2, <2>3, <3>1, <3>2 DEF BareBut, Bare
    <3>4. BareBut({i - 1, j - 1})'
      BY <1>2, <2>4, <3>1, <3>2 DEF BareBut, Bare, T!Terminated
    <3>5. HasStop(stream'[j - 1].events) /\ ~HasStop(stream'[i - 1].events) /\ cpu' = "stop"
      BY <2>4, <2>6, <3>1, <3>2
    <3>6. {i - 1} \cup {j - 1} = {i - 1, j - 1}
      OBVIOUS
    <3>7. StopFollows(stream[i - 1].events, {i - 1})'
      BY <3>2, <3>4, <3>5, <3>6 DEF StopFollows, HasStop
    <3> QED
      BY <1>4, <2>2, <2>4, <3>3, <3>7
  <2> QED
    BY <2>2, <2>5, <2>6 DEF StopFollows
<1>9. Fresh'
  BY <1>1, <1>2, <1>3, <1>4 DEF IInv, StopInv, Fresh, callerVars, T!Looping
<1> QED
  BY <1>5, <1>6, <1>7, <1>8, <1>9 DEF StopInv

\* A step that leaves alone what the invariant speaks of.
LEMMA QuietStep ==
    ASSUME StopInv, UNCHANGED <<sent, answered, stream, pc, collected, abandoned, cpu, method,
                                known, mark>>
    PROVE  StopInv'
BY DEF StopInv, AtRest, Unanswered, ReplyLast, Resumed, AwaitsStop, Fresh, Sure,
       StopFollows, BareBut

\* What a record holds when the emulator has written it.
Written(terminator, burst) ==
    [terminator |-> terminator, answers |-> answered + 1,
     events |-> {[n |-> emitted + i, kind |-> burst[i]] : i \in DOMAIN burst}]

\* How the emulator answers the methods that leave the CPU stopped, and a resume.
LEMMA SteadyReply ==
    ASSUME NEW m \in Methods, NEW reply \in WhenStopped(Line[m]), m \in Steady \cup {"brk"}
    PROVE  reply.cpu = "stop"
BY DEF Steady, WhenStopped, Answered, Line

LEMMA BrkReply ==
    ASSUME NEW reply \in WhenRunning("brk")
    PROVE  reply.cpu = "stop"
BY DEF WhenRunning, Answered

LEMMA ResumeReply ==
    ASSUME NEW m \in Resuming, NEW reply \in WhenStopped(Line[m])
    PROVE  reply.cpu = "stop" <=> \E i \in DOMAIN reply.kinds : reply.kinds[i] \in StopEvents
<1>1. Line[m] \in {"cnt", "sov"}
  BY MethodNames DEF Line
<1>2. CASE Line[m] = "cnt"
  BY <1>2 DEF WhenStopped, Answered, StopEvents, BrkEvents
<1>3. CASE Line[m] = "sov"
  BY <1>3 DEF WhenStopped, Answered, StopEvents, BrkEvents
<1> QED
  BY <1>1, <1>2, <1>3

LEMMA HaltStep ==
    ASSUME IInv, Halt
    PROVE  StopInv'
<1>1. PICK kind \in StopEvents : T!Write("none", 0, <<kind>>)
  BY DEF Halt, StopEvents, BrkEvents
<1>2. /\ cpu # "stop" /\ cpu' = "stop"
      /\ UNCHANGED <<sent, answered, pc, collected, abandoned, method, known, mark>>
  BY <1>1 DEF Halt, T!Write, callerVars, T!historyVars
<1> DEFINE r == [terminator |-> "none", answers |-> 0,
                 events |-> {[n |-> emitted + i, kind |-> <<kind>>[i]] : i \in DOMAIN <<kind>>}]
<1>3. stream' = Append(stream, r)
  BY <1>1 DEF T!Write
<1>4. HasStop(r.events) /\ \A e \in r.events : e.n = emitted + 1
  <2>1. r.events = {[n |-> emitted + 1, kind |-> kind]}
    BY DOMAIN <<kind>> = {1}
  <2> DEFINE e == [n |-> emitted + 1, kind |-> kind]
  <2>2. e.n = emitted + 1 /\ e.kind \in StopEvents /\ r.events = {e}
    BY <2>1
  <2> HIDE DEF e, r
  <2> QED
    BY <2>2 DEF HasStop
<1> HIDE DEF r
<1>5. /\ stream \in Seq(T!Record) /\ Len(stream) \in Nat
      /\ Len(stream') = Len(stream) + 1 /\ stream'[Len(stream) + 1] = r
      /\ \A i \in DOMAIN stream : stream'[i] = stream[i]
      /\ DOMAIN stream' = DOMAIN stream \cup {Len(stream) + 1}
  <2>1. stream \in Seq(T!Record)
    BY DEF IInv, TypeOK, T!TypeOK
  <2> QED
    BY <1>3, <2>1
<1>6. Sure' => Sure
  BY <1>2 DEF Sure
<1>7. AtRest' /\ Unanswered' /\ ReplyLast'
  BY <1>2, Zenon DEF IInv, StopInv, AtRest, Unanswered, ReplyLast, Sure
<1>8. ASSUME NEW read \in SUBSET DOMAIN stream, BareBut(read)
      PROVE  \E j \in DOMAIN stream' : /\ \A i \in read : i < j
                                        /\ HasStop(stream'[j].events)
                                        /\ BareBut(read \cup {j})'
  <2>1. PICK j \in Nat : j = Len(stream) + 1
    BY <1>5
  <2>2. j \in DOMAIN stream' /\ HasStop(stream'[j].events)
    BY <1>4, <1>5, <2>1
  <2>3. \A i \in read : i < j
    BY <1>5, <2>1
  <2>4. BareBut(read \cup {j})'
    BY <1>5, <1>8, <2>1 DEF BareBut, Bare, T!Terminated
  <2> QED
    BY <2>2, <2>3, <2>4
<1>9. Resumed' /\ AwaitsStop'
  <2>1. Resumed'
    <3>1. SUFFICES ASSUME Sure, pc = "resumeLoop", answered = sent
                   PROVE  /\ collected = {}
                          /\ \E i \in DOMAIN stream' :
                                 T!Terminated(stream[i])' /\ StopFollows(stream[i].events, {i})'
      BY <1>2, <1>6, Zenon DEF Resumed
    <3>2. PICK i \in DOMAIN stream :
              collected = {} /\ T!Terminated(stream[i]) /\ StopFollows(stream[i].events, {i})
      BY <3>1, Zenon DEF IInv, StopInv, Resumed
    <3>3. BareBut({i}) /\ ~HasStop(stream[i].events)
      BY <1>2, <3>2, Zenon DEF StopFollows
    <3>4. i \in DOMAIN stream' /\ stream'[i] = stream[i]
      BY <1>5
    <3>5. PICK j \in DOMAIN stream' : /\ \A k \in {i} : k < j
                                       /\ HasStop(stream'[j].events)
                                       /\ BareBut({i} \cup {j})'
      BY <1>8, <3>3
    <3>6. StopFollows(stream[i].events, {i})'
      BY <1>2, <3>3, <3>4, <3>5 DEF StopFollows, HasStop
    <3>7. T!Terminated(stream[i])'
      BY <3>2, <3>4 DEF T!Terminated
    <3> QED
      BY <3>2, <3>4, <3>6, <3>7
  <2>2. AwaitsStop'
    <3>1. SUFFICES ASSUME Sure, pc = "resumeWait"
                   PROVE  StopFollows(collected, {})'
      BY <1>2, <1>6, Zenon DEF AwaitsStop
    <3>2. BareBut({}) /\ ~HasStop(collected)
      BY <1>2, <3>1, Zenon DEF IInv, StopInv, AwaitsStop, StopFollows
    <3>3. \E j \in DOMAIN stream' : HasStop(stream'[j].events) /\ BareBut({j})'
      <4>1. PICK j \in Nat : j = Len(stream) + 1
        BY <1>5
      <4>2. j \in DOMAIN stream' /\ HasStop(stream'[j].events)
        BY <1>4, <1>5, <4>1
      <4>3. BareBut({j})'
        BY <1>5, <3>2, <4>1 DEF BareBut, Bare, T!Terminated
      <4> QED
        BY <4>2, <4>3
    <3>4. cpu' = "stop" /\ ~HasStop(collected')
      BY <1>2, <3>2
    <3> QED
      BY <3>3, <3>4 DEF StopFollows, HasStop, BareBut
  <2> QED
    BY <2>1, <2>2
<1>10. Fresh'
  <2>1. mark <= emitted /\ mark \in Nat /\ emitted \in Nat
    BY DEF IInv, Linked, TypeOK, T!TypeOK
  <2>2. \A e \in r.events : e.n > mark
    BY <1>4, <2>1
  <2> QED
    BY <1>2, <1>5, <1>6, <2>2 DEF IInv, StopInv, Fresh
<1> QED
  BY <1>7, <1>9, <1>10 DEF StopInv

\* A leftover prompt changes nothing of this.
LEMMA BarePromptStep ==
    ASSUME IInv, BarePrompt
    PROVE  StopInv'
<1>1. UNCHANGED <<sent, answered, pc, collected, abandoned, cpu, method, known, mark>>
  BY DEF BarePrompt, T!Write, callerVars, T!historyVars
<1> DEFINE r == [terminator |-> "none", answers |-> 0,
                 events |-> {[n |-> emitted + i, kind |-> <<>>[i]] : i \in DOMAIN <<>>}]
<1>2. stream' = Append(stream, r)
  BY DEF BarePrompt, T!Write
<1>3. Bare(r)
  BY DEF Bare, T!Terminated
<1> HIDE DEF r
<1>4. /\ \A i \in DOMAIN stream : i \in DOMAIN stream' /\ stream'[i] = stream[i]
      /\ \A i \in DOMAIN stream' \ DOMAIN stream : stream'[i] = r
  <2>1. stream \in Seq(T!Record)
    BY DEF IInv, TypeOK, T!TypeOK
  <2> QED
    BY <1>2, <2>1
<1>5. Sure' <=> Sure
  BY <1>1 DEF Sure
<1>6. \A read : BareBut(read) => BareBut(read)'
  BY <1>3, <1>4 DEF BareBut, Bare, T!Terminated
<1>7. AtRest' /\ Unanswered'
  BY <1>1, <1>5, <1>6, Zenon DEF IInv, StopInv, AtRest, Unanswered
<1>8. ReplyLast'
  <2>1. SUFFICES ASSUME abandoned = 0 /\ pc = "loop" /\ answered = sent
                          /\ (method = "brk" \/ (known /\ method \in Steady))
                 PROVE  cpu = "stop" /\ \E i \in DOMAIN stream' :
                            T!Terminated(stream[i])' /\ BareBut(1..i)'
    BY <1>1, Zenon DEF ReplyLast
  <2>2. PICK i \in DOMAIN stream : cpu = "stop" /\ T!Terminated(stream[i]) /\ BareBut(1..i)
    BY <2>1, Zenon DEF IInv, StopInv, ReplyLast
  <2>3. i \in DOMAIN stream' /\ T!Terminated(stream[i])'
    BY <1>4, <2>2 DEF T!Terminated
  <2> QED
    BY <1>6, <2>2, <2>3
<1>9. ASSUME NEW read, NEW e \in {collected} \cup {stream[i].events : i \in DOMAIN stream},
             StopFollows(e, read)
      PROVE  \/ BareBut(read)' /\ (cpu' = "stop" <=> HasStop(e))
             \/ /\ cpu' = "stop" /\ ~HasStop(e)
                /\ \E j \in DOMAIN stream' : /\ \A i \in read : i < j
                                             /\ HasStop(stream'[j].events)
                                             /\ BareBut(read \cup {j})'
  <2>1. CASE BareBut(read) /\ (cpu = "stop" <=> HasStop(e))
    BY <1>1, <1>6, <2>1
  <2>2. CASE /\ cpu = "stop" /\ ~HasStop(e)
             /\ \E j \in DOMAIN stream : /\ \A i \in read : i < j
                                         /\ HasStop(stream[j].events)
                                         /\ BareBut(read \cup {j})
    <3>1. PICK j \in DOMAIN stream : /\ \A i \in read : i < j
                                     /\ HasStop(stream[j].events)
                                     /\ BareBut(read \cup {j})
      BY <2>2
    <3>2. j \in DOMAIN stream' /\ HasStop(stream'[j].events) /\ BareBut(read \cup {j})'
      BY <1>4, <1>6, <3>1
    <3> QED
      BY <1>1, <2>2, <3>1, <3>2
  <2> QED
    BY <1>9, <2>1, <2>2 DEF StopFollows
<1>10. Resumed'
  <2>1. SUFFICES ASSUME Sure, pc = "resumeLoop", answered = sent
                 PROVE  /\ collected = {}
                        /\ \E i \in DOMAIN stream' :
                               T!Terminated(stream[i])' /\ StopFollows(stream[i].events, {i})'
    BY <1>1, <1>5, Zenon DEF Resumed
  <2>2. PICK i \in DOMAIN stream :
            collected = {} /\ T!Terminated(stream[i]) /\ StopFollows(stream[i].events, {i})
    BY <2>1, Zenon DEF IInv, StopInv, Resumed
  <2>3. i \in DOMAIN stream' /\ T!Terminated(stream[i])' /\ stream'[i] = stream[i]
    BY <1>4, <2>2 DEF T!Terminated
  <2> DEFINE e == stream[i].events
  <2>4. e \in {collected} \cup {stream[k].events : k \in DOMAIN stream}
        /\ StopFollows(e, {i}) /\ e' = e
    BY <2>2, <2>3
  <2>5. \/ BareBut({i})' /\ (cpu' = "stop" <=> HasStop(e))
        \/ /\ cpu' = "stop" /\ ~HasStop(e)
           /\ \E j \in DOMAIN stream' : /\ \A k \in {i} : k < j
                                        /\ HasStop(stream'[j].events)
                                        /\ BareBut({i} \cup {j})'
    BY <1>9, <2>4
  <2>6. StopFollows(e, {i})'
    BY <2>4, <2>5 DEF StopFollows, HasStop
  <2> QED
    BY <2>2, <2>3, <2>6
<1>11. AwaitsStop'
  <2>1. SUFFICES ASSUME Sure, pc = "resumeWait"
                 PROVE  StopFollows(collected, {})'
    BY <1>1, <1>5, Zenon DEF AwaitsStop
  <2>2. StopFollows(collected, {})
    BY <2>1, Zenon DEF IInv, StopInv, AwaitsStop
  <2> QED
    BY <1>1, <1>9, <2>2 DEF StopFollows, HasStop
<1>12. Fresh'
  BY <1>1, <1>3, <1>4, <1>5 DEF IInv, StopInv, Fresh, Bare
<1> QED
  BY <1>7, <1>8, <1>10, <1>11, <1>12 DEF StopInv

LEMMA ExecuteStep ==
    ASSUME IInv, Execute
    PROVE  StopInv'
<1>1. PICK reply \in Replies :
          /\ T!Write(reply.terminator, answered + 1, reply.kinds)
          /\ cpu' = reply.cpu
  BY DEF Execute, Replies
<1>2. /\ answered < sent /\ answered' = answered + 1
      /\ UNCHANGED <<sent, pc, collected, abandoned, method, known, mark>>
  BY <1>1 DEF Execute, T!Write, callerVars, T!historyVars
<1> DEFINE r == Written(reply.terminator, reply.kinds)
<1>3. stream' = Append(stream, r)
  BY <1>1 DEF T!Write, Written
<1>4. /\ T!Terminated(r)
      /\ HasStop(r.events) <=> \E i \in DOMAIN reply.kinds : reply.kinds[i] \in StopEvents
      /\ \A e \in r.events : \E i \in DOMAIN reply.kinds : e.n = emitted + i
  <2>1. T!Terminated(r)
    BY ReplyShape DEF IInv, T!Terminated, Written
  <2> DEFINE line(i) == [n |-> emitted + i, kind |-> reply.kinds[i]]
  <2>2. r.events = {line(i) : i \in DOMAIN reply.kinds}
    BY DEF Written
  <2>3. \A i : line(i).n = emitted + i /\ line(i).kind = reply.kinds[i]
    OBVIOUS
  <2> HIDE DEF line, r
  <2> QED
    BY <2>1, <2>2, <2>3 DEF HasStop
<1> HIDE DEF r
<1>5. /\ stream \in Seq(T!Record) /\ Len(stream) \in Nat
      /\ Len(stream') = Len(stream) + 1 /\ stream'[Len(stream) + 1] = r
      /\ \A i \in DOMAIN stream : stream'[i] = stream[i]
      /\ DOMAIN stream' = DOMAIN stream \cup {Len(stream) + 1}
  <2>1. stream \in Seq(T!Record)
    BY DEF IInv, TypeOK, T!TypeOK
  <2> QED
    BY <1>3, <2>1
<1> PICK last \in Nat : last = Len(stream) + 1
  BY <1>5
<1>6. Sure' => Sure
  BY <1>2 DEF Sure
<1>7. abandoned = 0 => /\ pc \in T!Looping /\ sent = answered + 1
                       /\ method \in Methods /\ lines[answered + 1] = Line[method]
                       /\ answered' = sent'
  BY <1>2, OneReply DEF IInv, Linked, TypeOK, T!TypeOK, T!Looping
<1>8. Sure => /\ cpu = "stop" /\ BareBut({}) /\ collected = {}
              /\ reply \in WhenStopped(Line[method])
  <2>1. Sure => cpu = "stop" /\ BareBut({}) /\ collected = {}
    BY <1>2, <1>7, Zenon DEF IInv, StopInv, Unanswered, Sure
  <2> QED
    BY <1>7, <2>1 DEF Sure, Replies
<1>9. AtRest' /\ Unanswered' /\ AwaitsStop'
  <2>1. answered' = sent' => ~(answered' < sent')
    BY <1>2 DEF IInv, TypeOK, T!TypeOK
  <2> QED
    BY <1>2, <1>6, <1>7, <2>1 DEF AtRest, Unanswered, AwaitsStop, Sure, T!Looping
<1>10. ReplyLast'
  <2>1. ASSUME abandoned = 0, method = "brk" \/ (known /\ method \in Steady)
        PROVE  cpu' = "stop"
    <3>1. CASE known /\ method \in Steady
      BY <1>1, <1>7, <1>8, <2>1, <3>1, SteadyReply DEF Sure
    <3>2. CASE method = "brk"
      <4>1. lines[answered + 1] = "brk"
        BY <1>7, <2>1, <3>2 DEF Line
      <4>2. reply \in WhenStopped("brk") \/ reply \in WhenRunning("brk")
        BY <4>1 DEF Replies
      <4> QED
        BY <1>1, <1>7, <2>1, <3>2, <4>1, <4>2, SteadyReply, BrkReply
    <3> QED
      BY <2>1, <3>1, <3>2
  <2>2. last \in DOMAIN stream' /\ T!Terminated(stream[last])'
    BY <1>4, <1>5 DEF T!Terminated
  <2>3. BareBut(1..last)'
    BY <1>5 DEF BareBut
  <2> QED
    BY <1>2, <2>1, <2>2, <2>3, Zenon DEF ReplyLast
<1>11. Resumed'
  <2>1. SUFFICES ASSUME Sure, pc = "resumeLoop"
                 PROVE  /\ collected = {}
                        /\ last \in DOMAIN stream'
                        /\ T!Terminated(stream[last])' /\ StopFollows(stream[last].events, {last})'
    BY <1>2, <1>6, Zenon DEF Resumed
  <2>2. method \in Resuming
    BY <2>1 DEF IInv, Linked
  <2>3. last \in DOMAIN stream' /\ stream'[last] = r /\ T!Terminated(stream[last])'
    BY <1>4, <1>5 DEF T!Terminated
  <2>4. BareBut({last})'
    BY <1>5, <1>8, <2>1 DEF BareBut, Bare, T!Terminated
  <2>5. cpu' = "stop" <=> HasStop(stream'[last].events)
    BY <1>1, <1>4, <1>8, <2>1, <2>2, <2>3, ResumeReply
  <2> QED
    BY <1>8, <2>1, <2>3, <2>4, <2>5 DEF StopFollows, HasStop
<1>12. Fresh'
  <2>1. mark <= emitted /\ mark \in Nat /\ emitted \in Nat
    BY DEF IInv, Linked, TypeOK, T!TypeOK
  <2>2. \A e \in r.events : e.n > mark
    BY <1>4, <2>1, ReplyShape DEF IInv
  <2> QED
    BY <1>2, <1>5, <1>6, <2>2 DEF IInv, StopInv, Fresh
<1> QED
  BY <1>9, <1>10, <1>11, <1>12 DEF StopInv

LEMMA StopInvStep ==
    ASSUME IInv, [Next]_vars
    PROVE  StopInv'
<1>1. ASSUME NEW m \in Methods, Call(m) \/ CallFails(m)
      PROVE  StopInv'
  BY <1>1, CallStep, CallFailsStep
<1>2. CASE Advance
  <2>1. CASE T!Fill
    <3>1. /\ pc' # "idle"
          /\ UNCHANGED <<sent, answered, stream, pc, collected, abandoned>>
      BY <2>1 DEF T!Fill, T!emulatorVars, T!historyVars
    <3> QED
      BY <1>2, <3>1, QuietStep DEF IInv, Advance, Finish, callerVars
  <2>2. CASE T!SkipUnterminated
    <3>1. pc' # "idle"
      BY <2>2 DEF T!SkipUnterminated, T!Looping
    <3> QED
      BY <1>2, <2>2, <3>1, SkipStep DEF Advance, Finish
  <2>3. CASE T!TakeResumeReply
    BY <1>2, <2>3, TakeResumeReplyStep
  <2>4. CASE T!TakeReply \/ T!TakeError \/ T!TakePrompt \/ T!Timeout \/ T!EndOfFile
    <3>1. pc' = "idle"
      BY <2>4 DEF T!TakeReply, T!TakeError, T!TakePrompt, T!Timeout, T!EndOfFile, T!Return, T!Raise
    <3>2. Finish
      BY <1>2, <3>1 DEF Advance
    <3> QED
      BY <2>4, <3>2, TakeReplyStep, TakeErrorStep, TakePromptStep, GiveUpStep
  <2> QED
    BY <1>2, <2>1, <2>2, <2>3, <2>4 DEF Advance, T!Progress
<1>3. CASE Execute
  BY <1>3, ExecuteStep
<1>4. CASE Halt
  BY <1>4, HaltStep
<1>5. CASE BarePrompt
  BY <1>5, BarePromptStep
<1>6. CASE Exit \/ UNCHANGED vars
  <2>1. UNCHANGED <<sent, answered, stream, pc, collected, abandoned, cpu, method, known, mark>>
    BY <1>6 DEF Exit, T!Exit, T!historyVars, callerVars, vars, transportVars
  <2> QED
    BY <2>1, QuietStep DEF IInv
<1> QED
  BY <1>1, <1>2, <1>3, <1>4, <1>5, <1>6 DEF Next

LEMMA IInvStep == IInv /\ [Next]_vars => IInv'
<1> SUFFICES ASSUME IInv, [Next]_vars
             PROVE  IInv'
  OBVIOUS
<1>1. TypeOK'
  BY TypeOKStep DEF IInv
<1>2. P!ReplyInv'
  BY ReplyInvStep DEF IInv
<1>3. Linked'
  BY <1>1, LinkedStep DEF IInv
<1>4. StopInv'
  BY StopInvStep
<1> QED
  BY <1>1, <1>2, <1>3, <1>4 DEF IInv

LEMMA IInvariant == Spec => []IInv
<1>1. Init => IInv
  BY IInvInit
<1>2. IInv /\ [Next]_vars => IInv'
  BY IInvStep
<1> QED
  BY <1>1, <1>2, PTL DEF Spec

\* While no command has timed out, a caller that began with brk and has been given an
\* event by every resume since has a stopped CPU and no stop left in the stream.
THEOREM KnownIsStopped == Spec => []KnownMeansStopped
<1>1. IInv => KnownMeansStopped
  <2>1. IInv /\ Sure /\ method = "none" => cpu = "stop" /\ BareBut({})
    BY Zenon DEF IInv, TypeOK, StopInv, AtRest
  <2> QED
    BY <2>1 DEF KnownMeansStopped, StopInStream, Sure, BareBut, Bare
<1> QED
  BY <1>1, IInvariant, PTL

-----------------------------------------------------------------------------
(* What a method returns. *)

\* A method returns when its call of the transport ends, with events that were
\* gathered or that were in the first record of the stream.
LEMMA MethodReturns ==
    ASSUME IInv, [Next]_vars, TypeOK', method \in Methods, method' = "none", Returns
    PROVE  /\ Advance /\ Finish /\ pc # "idle"
           /\ outcome'.events \in SUBSET T!Event
           /\ \A e \in outcome'.events :
                  e \in collected \/ (stream # <<>> /\ e \in stream[1].events)
<1>1. Advance /\ Finish
  BY MethodNames DEF Next, Call, CallFails, Advance, Execute, Halt, BarePrompt, Exit, vars,
                     callerVars
<1>2. pc # "idle" /\ outcome'.events \in SUBSET T!Event
  BY <1>1, ProgressEnds DEF IInv, TypeOK, Advance
<1>3. \A e \in outcome'.events :
          e \in collected \/ (stream # <<>> /\ e \in stream[1].events)
  <2>1. ~T!Fill /\ ~T!SkipUnterminated
    BY <1>1, <1>2 DEF T!Fill, T!SkipUnterminated, T!Looping, Finish
  <2>2. \/ outcome'.events \in {{}, collected}
        \/ T!TakeRecord /\ outcome'.events = T!Gathered
    BY <1>1, <2>1 DEF Advance, T!Progress, T!TakeReply, T!TakeError, T!TakeResumeReply, Finish,
        T!TakePrompt, T!Timeout, T!EndOfFile, T!Return, T!Raise
  <2>3. T!TakeRecord => stream # <<>> /\ T!Gathered = collected \cup stream[1].events
    BY HeadTaken DEF IInv, T!Gathered
  <2> QED
    BY <2>2, <2>3
<1> QED
  BY <1>1, <1>2, <1>3

LEMMA NextStopStep ==
    ASSUME IInv, [Next]_vars, TypeOK', NEW m \in {"step", "stepOver", "runUntil"},
           Reports(m), Sure
    PROVE  lastEvent'.n > mark
<1>1. /\ Finish /\ pc # "idle" /\ outcome'.events \in SUBSET T!Event
      /\ \A e \in outcome'.events :
             e \in collected \/ (stream # <<>> /\ e \in stream[1].events)
  BY MethodReturns, MethodNames DEF Reports
<1>2. lastEvent' = FindStopEvent(outcome'.events) /\ lastEvent' # None
  BY <1>1 DEF Finish, Reports, Reporting
<1>3. HasStop(outcome'.events)
  BY <1>2, NoStop
<1>4. lastEvent' \in outcome'.events
  BY <1>1, <1>2, <1>3, FirstStop
<1>5. stream # <<>> => 1 \in DOMAIN stream
  <2>1. stream \in Seq(T!Record)
    BY DEF IInv, TypeOK, T!TypeOK
  <2> QED
    BY <2>1
<1>6. /\ \A e \in collected : e.n > mark
      /\ \A i \in DOMAIN stream : \A e \in stream[i].events : e.n > mark
  BY <1>1, Zenon DEF IInv, StopInv, Fresh
<1> QED
  BY <1>1, <1>4, <1>5, <1>6

\* When the resume of a caller that knows the CPU is stopped returns None, either the
\* CPU runs or the record of the stop is behind the reply, where the next read finds it.
LEMMA NoneFoundStep ==
    ASSUME IInv, [Next]_vars, TypeOK', NEW m \in Resuming, FindsNone(m), Sure
    PROVE  cpu # "stop" \/ StopInStream'
<1>1. /\ Advance /\ Finish /\ pc # "idle" /\ outcome'.events \in SUBSET T!Event
      /\ method \in Resuming /\ Returns
  BY MethodReturns, MethodNames DEF FindsNone
<1>2. FindStopEvent(outcome'.events) = None
  BY <1>1, MethodNames DEF Finish, FindsNone, Reporting
<1>3. ~HasStop(outcome'.events)
  BY <1>1, <1>2, FirstStop
<1>4. pc \in {"resumeLoop", "resumeWait"} /\ pc' = "idle" /\ until = UntilPrefix[method]
  BY <1>1 DEF IInv, Linked, Finish
<1>5. CASE T!TakeResumeReply
  <2>1. T!Satisfied(T!Gathered) /\ outcome'.events = T!Gathered
    BY <1>4, <1>5 DEF T!TakeResumeReply, T!Return
  <2>2. HasStop(T!Gathered)
    BY <1>1, <1>4, <2>1, MethodNames DEF T!Satisfied, UntilPrefix, HasStop, StopEvents
  <2> QED
    BY <1>3, <2>1, <2>2
<1>6. CASE T!TakePrompt
  <2>1. T!TakeRecord /\ pc = "resumeWait" /\ outcome'.events = T!Gathered
    BY <1>4, <1>6 DEF T!TakePrompt, T!Waiting, T!Return
  <2>2. /\ 1 \in DOMAIN stream /\ T!Gathered = collected \cup stream[1].events
        /\ \A j \in DOMAIN stream \ {1} :
               j - 1 \in DOMAIN stream' /\ stream'[j - 1] = stream[j]
    BY <2>1, HeadTaken DEF IInv, T!Gathered
  <2>3. ~HasStop(collected) /\ ~HasStop(stream[1].events)
    BY <1>3, <2>1, <2>2 DEF HasStop
  <2>4. cpu # "stop" \/ \E j \in DOMAIN stream : HasStop(stream[j].events)
    BY <2>1, <2>3, Zenon DEF IInv, StopInv, AwaitsStop, StopFollows
  <2> QED
    BY <2>2, <2>3, <2>4 DEF StopInStream, HasStop
<1>7. CASE T!Timeout
  <2>1. pc = "resumeWait" /\ outcome'.events = collected /\ UNCHANGED stream
    BY <1>1, <1>4, <1>7 DEF T!Timeout, T!Return, T!Raise, Returns, T!Raises
  <2>2. cpu # "stop" \/ \E j \in DOMAIN stream : HasStop(stream[j].events)
    BY <1>3, <2>1, Zenon DEF IInv, StopInv, AwaitsStop, StopFollows
  <2> QED
    BY <2>1, <2>2 DEF StopInStream, HasStop
<1> QED
  <2>1. ~T!Fill /\ ~T!SkipUnterminated /\ ~T!TakeReply
    BY <1>1, <1>4 DEF T!Fill, T!SkipUnterminated, T!TakeReply
  <2>2. ~T!TakeError /\ ~T!EndOfFile
    BY <1>1 DEF T!TakeError, T!EndOfFile, T!Raise, Returns, T!Raises
  <2> QED
    BY <1>1, <1>5, <1>6, <1>7, <2>1, <2>2 DEF Advance, T!Progress

\* step, stepOver and runUntil of such a caller return an event the call itself led to,
\* never one from before it.
THEOREM NextStopIsNew == Spec => KnownGetsNextStop
<1>1. IInv /\ IInv' /\ [Next]_vars =>
          [\A m \in {"step", "stepOver", "runUntil"} :
               Reports(m) /\ Sure => lastEvent'.n > mark]_vars
  BY NextStopStep DEF IInv
<1> QED
  BY <1>1, IInvariant, PTL DEF Spec, KnownGetsNextStop

\* And when they return None no stop is missed.
THEOREM StopsAreNotMissed == Spec => NoStopMissed
<1>1. IInv /\ IInv' /\ [Next]_vars =>
          [\A m \in Resuming : FindsNone(m) /\ Sure => cpu # "stop" \/ StopInStream']_vars
  BY NoneFoundStep DEF IInv
<1> QED
  BY <1>1, IInvariant, PTL DEF Spec, NoStopMissed
=============================================================================
