---------------------------- MODULE MemoryProofs ----------------------------
(***************************************************************************)
(* Proofs about Memory: types, what an interrupted write leaves behind and *)
(* what a read shows.                                                      *)
(***************************************************************************)
EXTENDS Memory, TLAPS

P == INSTANCE TransportProofs WITH EventKind <- {}, MaxEvents <- 0

-----------------------------------------------------------------------------
(* The two instances of Transport, T of Memory and P with the theorems, say *)
(* the same.                                                                *)

LEMMA SameTypes == T!TypeOK <=> P!TypeOK
BY DEF T!TypeOK, P!TypeOK, T!Record, P!Record, T!Control, P!Control, T!Outcome, P!Outcome,
       T!Event, P!Event, T!Raises, P!Raises

LEMMA SameInit == T!Init <=> P!Init
BY DEF T!Init, P!Init, T!NoOutcome, P!NoOutcome

LEMMA SameNext == T!Next <=> P!Next
BY DEF T!Next, P!Next, T!Invoke, P!Invoke, T!Progress, P!Progress, T!Exit, P!Exit,
       T!Command, P!Command, T!Send, P!Send, T!emulatorVars, P!emulatorVars,
       T!historyVars, P!historyVars, T!ResumeCollectingEvents, P!ResumeCollectingEvents,
       T!WaitPrompt, P!WaitPrompt, T!SendFails, P!SendFails, T!Raise, P!Raise,
       T!Return, P!Return, T!Numbers, P!Numbers, T!Fill, P!Fill,
       T!SkipUnterminated, P!SkipUnterminated, T!TakeRecord, P!TakeRecord,
       T!Terminated, P!Terminated, T!Gathered, P!Gathered, T!TakeReply, P!TakeReply,
       T!TakeError, P!TakeError, T!TakeResumeReply, P!TakeResumeReply,
       T!TakePrompt, P!TakePrompt, T!Timeout, P!Timeout, T!EndOfFile, P!EndOfFile,
       T!GiveUp, P!GiveUp, T!Looping, P!Looping, T!Waiting, P!Waiting,
       T!Satisfied, P!Satisfied, T!Answer, P!Answer, T!Announce, P!Announce,
       T!Write, P!Write

\* The assumption under which the theorems of TransportProofs hold.
LEMMA Bounds == P!BoundsAssumption
BY ChunkAssumption DEF P!BoundsAssumption

-----------------------------------------------------------------------------
(* Every step is a step of the transport. *)

LEMMA StepSimulates ==
    emitted = 0 /\ [Next]_vars => [T!Next]_(T!vars) /\ emitted' = 0
<1> SUFFICES ASSUME emitted = 0, [Next]_vars
             PROVE  [T!Next]_(T!vars) /\ emitted' = 0
  OBVIOUS
<1>1. CASE WriteMemory \/ Fill \/ Read \/ LoopEnds \/ UNCHANGED vars
  BY <1>1 DEF WriteMemory, Fill, Read, LoopEnds, vars, transportVars, T!vars
<1>2. CASE NextChunk \/ OnlyLine
  <2>1. T!Send("loop", {})
    BY <1>2 DEF NextChunk, OnlyLine, Transmit
  <2> QED
    BY <2>1 DEF T!Send, T!emulatorVars, T!Next, T!Invoke, T!Command
<1>3. CASE LineFails
  BY <1>3 DEF LineFails, T!SendFails, T!emulatorVars, T!Next, T!Invoke
<1>4. CASE Advance
  <2>1. T!Progress
    BY <1>4 DEF Advance
  <2>2. UNCHANGED emitted
    BY <2>1 DEF T!Progress, T!Fill, T!SkipUnterminated, T!TakeReply, T!TakeError,
        T!TakeResumeReply, T!TakePrompt, T!Timeout, T!EndOfFile, T!TakeRecord, T!emulatorVars
  <2> QED
    BY <2>1, <2>2 DEF T!Next
<1>5. CASE Execute
  <2>1. PICK terminator \in {"RDY", "ERR"} : T!Write(terminator, answered + 1, <<>>)
    BY <1>5 DEF Execute
  <2>2. <<>> \in [1..0 -> {}] /\ 0 \in 0..(0 - emitted)
    OBVIOUS
  <2>3. answered < sent /\ answered' = answered + 1 /\ emitted' = emitted + 0
    BY <1>5 DEF Execute
  <2>4. T!Answer
    BY <2>1, <2>2, <2>3 DEF T!Answer
  <2> QED
    BY <2>3, <2>4 DEF T!Next
<1>6. CASE BarePrompt
  <2>1. PICK m \in 0..(0 - emitted) : emitted' = emitted + m
    BY <1>6 DEF BarePrompt, T!Announce
  <2>2. emitted' = 0
    BY <2>1
  <2> QED
    BY <1>6, <2>2 DEF BarePrompt, T!Next
<1>7. CASE Exit
  BY <1>7 DEF Exit, T!Exit, T!Next
<1> QED
  BY <1>1, <1>2, <1>3, <1>4, <1>5, <1>6, <1>7 DEF Next

\* What TransportProofs shows of the replies holds here; no event line is written.
ReplyInv == emitted = 0 /\ T!TypeOK /\ P!ReplyInv

LEMMA ReplyInvInit == Init => ReplyInv
<1> SUFFICES ASSUME Init
             PROVE  ReplyInv
  OBVIOUS
<1>1. P!ReplyInv
  BY SameInit, Bounds, P!ReplyInvInit DEF Init
<1> QED
  BY <1>1, SameTypes DEF ReplyInv, P!ReplyInv, Init, T!Init

LEMMA ReplyInvStep == ReplyInv /\ [Next]_vars => ReplyInv'
<1> SUFFICES ASSUME ReplyInv, [Next]_vars
             PROVE  ReplyInv'
  OBVIOUS
<1>1. [P!Next]_(P!vars) /\ emitted' = 0
  BY StepSimulates, SameNext DEF T!vars, P!vars, ReplyInv
<1>2. P!TypeOK'
  BY <1>1, Bounds, P!TypeOKStep DEF ReplyInv, P!ReplyInv
<1>3. P!RepliesInOrder'
  BY <1>1, Bounds, P!OrderStep DEF ReplyInv
<1>4. P!DebtLaw' /\ P!ReplyLag'
  BY <1>1, Bounds, P!DebtStep DEF ReplyInv
<1>5. T!TypeOK'
  BY <1>2 DEF T!TypeOK, P!TypeOK, T!Record, P!Record, T!Control, P!Control,
              T!Outcome, P!Outcome, T!Event, P!Event, T!Raises, P!Raises
<1> QED
  BY <1>1, <1>2, <1>3, <1>4, <1>5 DEF ReplyInv, P!ReplyInv

\* While no command has timed out a call waits for the one command that has no reply
\* yet; between two calls every command has been answered and its reply taken.
LEMMA OneReply ==
    ASSUME ReplyInv, abandoned = 0
    PROVE  /\ answered <= sent /\ sent <= answered + 1
           /\ pc \in T!Looping => sent = taken + 1
           /\ pc \notin T!Looping => answered = sent
           /\ pc \notin T!Looping => \A i \in DOMAIN stream : ~T!Terminated(stream[i])
           /\ \A i \in DOMAIN stream :
                  T!Terminated(stream[i]) => answered = sent /\ stream[i].answers = sent
<1>1. /\ taken <= answered /\ answered <= sent
      /\ \A i \in DOMAIN stream :
             T!Terminated(stream[i]) => stream[i].answers \in (taken + 1)..answered
  BY DEF ReplyInv, P!ReplyInv, P!RepliesInOrder, P!Terminated, T!Terminated
<1>2. sent \in Nat /\ taken \in Nat /\ answered \in Nat /\ stray \in Nat
      /\ stream \in Seq(T!Record)
  BY DEF ReplyInv, T!TypeOK
<1>3. sent - taken = (IF pc \in T!Looping THEN 1 ELSE 0)
  BY <1>2 DEF ReplyInv, P!ReplyInv, P!DebtLaw, P!Debt, P!Looping, T!Looping
<1> QED
  BY <1>1, <1>2, <1>3

-----------------------------------------------------------------------------
(* Storing bytes. *)

LEMMA PokeType ==
    ASSUME NEW memory \in Memories, NEW addr \in Nat, NEW bytes \in Seq(Nat)
    PROVE  Poke(memory, addr, bytes) \in Memories
BY DEF Poke, Memories, Address

LEMMA PokeNothing ==
    ASSUME NEW memory \in Memories, NEW addr \in Nat
    PROVE  Poke(memory, addr, <<>>) = memory
BY DEF Poke, Memories

\* Two chunks that follow each other are stored as one.
LEMMA PokeTwice ==
    ASSUME NEW memory \in Memories, NEW addr \in Nat, NEW data \in Seq(Nat),
           NEW p \in 0..Len(data), NEW k \in p..Len(data)
    PROVE  Poke(Poke(memory, addr, SubSeq(data, 1, p)), addr + p, SubSeq(data, p + 1, k))
               = Poke(memory, addr, SubSeq(data, 1, k))
<1> DEFINE first == SubSeq(data, 1, p)
           next == SubSeq(data, p + 1, k)
           both == SubSeq(data, 1, k)
<1>1. /\ p \in Nat /\ k \in Nat /\ p <= k /\ k <= Len(data)
      /\ DOMAIN first = 1..p /\ DOMAIN next = 1..(k - p) /\ DOMAIN both = 1..k
  OBVIOUS
<1>2. /\ \A i \in 1..p : first[i] = data[i]
      /\ \A i \in 1..(k - p) : next[i] = data[p + i]
      /\ \A i \in 1..k : both[i] = data[i]
  OBVIOUS
<1> HIDE DEF first, next, both
<1>3. ASSUME NEW a \in Address
      PROVE  /\ a - addr + 1 \in DOMAIN both <=>
                    a - addr + 1 \in DOMAIN first \/ a - (addr + p) + 1 \in DOMAIN next
             /\ a - (addr + p) + 1 \in DOMAIN next =>
                    next[a - (addr + p) + 1] = both[a - addr + 1]
             /\ a - addr + 1 \in DOMAIN first => /\ first[a - addr + 1] = both[a - addr + 1]
                                               /\ a - (addr + p) + 1 \notin DOMAIN next
  <2>1. PICK j \in Int : j = a - addr + 1 /\ j - p = a - (addr + p) + 1
    BY <1>1 DEF Address
  <2>2. /\ j \in 1..k <=> j \in 1..p \/ j - p \in 1..(k - p)
        /\ j \in 1..p => j - p \notin 1..(k - p)
        /\ j \in 1..p => j \in 1..k
        /\ p + (j - p) = j
    BY <1>1
  <2>3. j - p \in 1..(k - p) => next[j - p] = both[j]
    <3>1. j - p \in 1..(k - p) => next[j - p] = data[p + (j - p)] /\ j \in 1..k
      BY <1>2, <2>2
    <3> QED
      BY <1>2, <2>2, <3>1
  <2>4. j \in 1..p => first[j] = both[j]
    BY <1>2, <2>2
  <2> QED
    BY <1>1, <2>1, <2>2, <2>3, <2>4
<1>4. DOMAIN memory = Address
  BY DEF Memories
<1> QED
  BY <1>3, <1>4 DEF Poke, first, next, both

-----------------------------------------------------------------------------
(* Types. *)

Line == [op : {"wmm", "fill", "read"}, addr : Address, bytes : Seq(Nat)]

Job == [op : {"none", "write", "fill", "read"}, state : {"open", "over"},
        addr : Address, data : Seq(Nat), offset : Nat,
        result : {"none", "done", "raised"}, read : Memories \cup {<<>>}]

\* How the method in progress hangs together with its calls of the transport: they
\* are made one after another, and the first that fails is the last.
Linked ==
    /\ pc \in {"idle", "loop"}
    /\ pc = "loop" => job.state = "open" /\ sent > 0
    /\ job.state = "open" => job.op # "none" /\ job.result = "none"
    /\ clean /\ job.state = "open" => abandoned = 0
    /\ job.op = "write" => job.addr + Len(job.data) <= MaxAddr + 1

Typed == TypeOK /\ ReplyInv /\ Linked

LEMMA TypedInit == Init => Typed
<1> SUFFICES ASSUME Init
             PROVE  Typed
  OBVIOUS
<1>1. ReplyInv
  BY ReplyInvInit
<1>2. /\ pc = "idle" /\ sent = 0 /\ answered = 0 /\ lines = <<>> /\ seen = <<>>
      /\ job = NoJob /\ before = ram /\ clean = TRUE /\ abandoned = 0
  BY DEF Init, T!Init
<1>3. ram \in Memories
  BY DEF Init, Memories
<1>4. 0 \in Address
  BY ChunkAssumption DEF Address
<1>5. job \in Job /\ job.offset <= Len(job.data)
  BY <1>2, <1>4 DEF NoJob, Job
<1>6. lines \in Seq(Line) /\ seen \in Seq(Memories)
      /\ Len(lines) = sent - answered /\ Len(seen) = answered
  BY <1>2
<1>7. TypeOK
  BY <1>1, <1>2, <1>3, <1>5, <1>6 DEF TypeOK, ReplyInv, Line, Job
<1>8. Linked
  BY <1>2 DEF Linked, NoJob
<1> QED
  BY <1>1, <1>7, <1>8 DEF Typed

LEMMA TypeOKIs ==
    TypeOK <=> /\ T!TypeOK
               /\ lines \in Seq(Line)
               /\ Len(lines) = sent - answered /\ Len(seen) = answered
               /\ ram \in Memories /\ before \in Memories /\ seen \in Seq(Memories)
               /\ job \in Job /\ job.offset <= Len(job.data) /\ clean \in BOOLEAN
BY DEF TypeOK, Line, Job

\* Head and tail of the lines that wait.
LEMMA WaitingLine ==
    ASSUME Typed, answered < sent
    PROVE  /\ lines # <<>> /\ Head(lines) = lines[1] /\ lines[1] \in Line
           /\ Tail(lines) \in Seq(Line) /\ Len(Tail(lines)) = Len(lines) - 1
           /\ Head(lines).addr \in Nat /\ Stored(Head(lines)) \in Seq(Nat)
<1>1. lines \in Seq(Line) /\ Len(lines) = sent - answered
  BY TypeOKIs DEF Typed
<1>2. sent \in Nat /\ answered \in Nat
  BY DEF Typed, ReplyInv, T!TypeOK
<1>3. /\ lines # <<>> /\ Head(lines) = lines[1] /\ lines[1] \in Line
      /\ Tail(lines) \in Seq(Line) /\ Len(Tail(lines)) = Len(lines) - 1
  BY <1>1, <1>2
<1>4. Head(lines).addr \in Nat /\ Head(lines).bytes \in Seq(Nat)
  BY <1>3 DEF Line, Address
<1>5. Stored(Head(lines)) \in Seq(Nat)
  <2>1. Smaller(LineCap, Len(Head(lines).bytes)) \in 0..Len(Head(lines).bytes)
    BY <1>4, ChunkAssumption DEF Smaller
  <2>2. SubSeq(Head(lines).bytes, 1, Smaller(LineCap, Len(Head(lines).bytes))) \in Seq(Nat)
    BY <1>4, <2>1
  <2> QED
    BY <1>4, <2>2 DEF Stored
<1> QED
  BY <1>3, <1>4, <1>5

LEMMA StartTyped ==
    ASSUME Typed, T!TypeOK', UNCHANGED <<transportVars, lines, ram, seen>>,
           NEW op \in {"write", "fill", "read"}, NEW addr \in Address, NEW data \in Seq(Nat),
           op = "write" => addr + Len(data) <= MaxAddr + 1,
           Start(op, addr, data)
    PROVE  TypeOK' /\ Linked'
<1>1. job' = [op |-> op, state |-> "open", addr |-> addr, data |-> data, offset |-> 0,
              result |-> "none", read |-> <<>>]
  BY DEF Start
<1>2. job' \in Job /\ job'.offset <= Len(job'.data)
  BY <1>1 DEF Job
<1>3. before' \in Memories /\ clean' \in BOOLEAN /\ (clean' => abandoned = 0)
  BY TypeOKIs DEF Start, Typed
<1>4. UNCHANGED <<sent, answered, pc, abandoned, lines, ram, seen>> /\ pc = "idle"
  BY DEF transportVars, Start
<1>5. TypeOK'
  BY <1>2, <1>3, <1>4, TypeOKIs DEF Typed, TypeOK, Line, Job, Memories, Address
<1>6. Linked'
  BY <1>1, <1>3, <1>4 DEF Linked
<1> QED
  BY <1>5, <1>6

\* The bytes a line carries and where they go.
LEMMA TransmitTyped ==
    ASSUME Typed, T!TypeOK', NEW line \in Line, Transmit(line), Ready,
           NEW k \in job.offset..Len(job.data), job' = [job EXCEPT !.offset = k],
           UNCHANGED <<ram, seen, before, clean>>
    PROVE  TypeOK' /\ Linked'
<1>1. /\ sent' = sent + 1 /\ pc = "idle" /\ pc' = "loop" /\ UNCHANGED <<answered, abandoned>>
      /\ lines' = Append(lines, line)
  BY DEF Transmit, T!Send, T!emulatorVars, T!historyVars
<1>2. lines \in Seq(Line) /\ Len(lines) = sent - answered /\ sent \in Nat /\ answered \in Nat
      /\ job \in Job /\ job.offset <= Len(job.data)
  BY TypeOKIs DEF Typed, ReplyInv, T!TypeOK
<1>3. lines' \in Seq(Line) /\ Len(lines') = sent' - answered'
  BY <1>1, <1>2
<1>4. job' \in Job /\ job'.offset <= Len(job'.data)
  <2>1. job.offset \in Nat /\ job.data \in Seq(Nat)
    BY <1>2 DEF Job
  <2>2. k \in Nat /\ k <= Len(job.data)
    BY <2>1
  <2> QED
    BY <1>2, <2>2 DEF Job
<1>5. TypeOK'
  BY <1>1, <1>3, <1>4 DEF Typed, TypeOK, Line, Job, Memories, Address
<1>6. job'.state = job.state /\ job'.op = job.op /\ job'.result = job.result
      /\ job'.addr = job.addr /\ job'.data = job.data
  BY <1>2 DEF Job
<1>7. Linked'
  BY <1>1, <1>2, <1>6 DEF Typed, Linked, Ready
<1> QED
  BY <1>5, <1>7

\* The steps that touch the method but not the lines.
LEMMA JobTyped ==
    ASSUME Typed, T!TypeOK', job' \in Job, job'.offset <= Len(job'.data), Linked',
           UNCHANGED <<sent, answered, lines, ram, seen, before, clean>>
    PROVE  TypeOK'
BY DEF Typed, TypeOK, Line, Job, Memories, Address

LEMMA BytesType ==
    ASSUME Typed, NEW n \in Nat
    PROVE  /\ Bytes(n) \in Seq(Nat) /\ Len(Bytes(n)) = n
           /\ [i \in 1..n |-> 100 * (sent + 1)] \in Seq(Nat)
<1>1. \A f \in [1..n -> Nat] : f \in Seq(Nat) /\ Len(f) = n
  OBVIOUS
<1>2. Bytes(n) \in [1..n -> Nat] /\ [i \in 1..n |-> 100 * (sent + 1)] \in [1..n -> Nat]
  BY DEF Bytes, Typed, ReplyInv, T!TypeOK
<1>3. Bytes(n) \in Seq(Nat) /\ Len(Bytes(n)) = n
  BY <1>1, <1>2
<1>4. [i \in 1..n |-> 100 * (sent + 1)] \in Seq(Nat)
  BY <1>1, <1>2, Zenon
<1> QED
  BY <1>3, <1>4

LEMMA TypedStep == Typed /\ [Next]_vars => Typed'
<1> SUFFICES ASSUME Typed, [Next]_vars
             PROVE  TypeOK' /\ Linked'
  BY ReplyInvStep DEF Typed
<1>1. ReplyInv' /\ T!TypeOK'
  BY ReplyInvStep DEF Typed, ReplyInv
<1>2. sent \in Nat /\ answered \in Nat /\ job \in Job /\ job.offset <= Len(job.data)
      /\ seen \in Seq(Memories) /\ ram \in Memories
  BY TypeOKIs DEF Typed, ReplyInv, T!TypeOK
<1>3. ASSUME WriteMemory \/ Fill
      PROVE  TypeOK' /\ Linked'
  <2>1. PICK range \in Ranges :
            \/ Start("write", range[1], Bytes(range[2]))
            \/ Start("fill", range[1], [i \in 1..range[2] |-> 100 * (sent + 1)])
    BY <1>3 DEF WriteMemory, Fill
  <2>2. /\ range[1] \in Address /\ range[2] \in Nat /\ range[1] + range[2] <= MaxAddr + 1
    BY ChunkAssumption DEF Address
  <2>3. /\ Bytes(range[2]) \in Seq(Nat) /\ Len(Bytes(range[2])) = range[2]
        /\ [i \in 1..range[2] |-> 100 * (sent + 1)] \in Seq(Nat)
    BY <2>2, BytesType
  <2>4. UNCHANGED <<transportVars, lines, ram, seen>>
    BY <1>3 DEF WriteMemory, Fill
  <2> QED
    BY <1>1, <2>1, <2>2, <2>3, <2>4, StartTyped
<1>4. CASE Read
  <2>1. 0 \in Address /\ <<>> \in Seq(Nat)
    BY ChunkAssumption DEF Address
  <2> QED
    BY <1>1, <1>4, <2>1, StartTyped DEF Read
<1>5. CASE NextChunk
  <2> DEFINE k == Smaller(job.offset + ChunkSize, Len(job.data))
             line == [op |-> "wmm", addr |-> job.addr + job.offset,
                      bytes |-> SubSeq(job.data, job.offset + 1, k)]
  <2>1. /\ Ready /\ Transmit(line) /\ job' = [job EXCEPT !.offset = k]
        /\ UNCHANGED <<ram, seen, before, clean>>
        /\ job.op = "write" /\ job.offset < Len(job.data)
    BY <1>5 DEF NextChunk
  <2>2. /\ job.offset \in Nat /\ job.data \in Seq(Nat) /\ job.addr \in Address
    BY <1>2 DEF Job
  <2>3. k \in job.offset..Len(job.data)
    <3> DEFINE n == Len(job.data)
    <3>1. n \in Nat /\ job.offset \in Nat /\ job.offset < n /\ ChunkSize \in Nat
      BY <2>1, <2>2, ChunkAssumption
    <3> HIDE DEF n
    <3>2. Smaller(job.offset + ChunkSize, n) \in job.offset..n
      BY <3>1 DEF Smaller
    <3> QED
      BY <3>2 DEF n
  <2>4. job.addr + job.offset \in Address
    <3>1. job.addr + Len(job.data) <= MaxAddr + 1 /\ MaxAddr \in Nat
      BY <2>1, ChunkAssumption DEF Typed, Linked
    <3>2. Len(job.data) \in Nat /\ job.addr \in Nat /\ job.offset \in Nat
      BY <2>2 DEF Address
    <3>3. job.addr + job.offset \in Nat /\ job.addr + job.offset <= MaxAddr
      BY <2>1, <3>1, <3>2
    <3> QED
      BY <3>1, <3>3 DEF Address
  <2>5. SubSeq(job.data, job.offset + 1, k) \in Seq(Nat)
    BY <2>2, <2>3
  <2> HIDE DEF k
  <2>6. line \in Line
    BY <2>4, <2>5 DEF Line
  <2> HIDE DEF line
  <2> QED
    BY <1>1, <2>1, <2>3, <2>6, TransmitTyped
<1>6. CASE OnlyLine
  <2> DEFINE line == [op |-> job.op, addr |-> job.addr, bytes |-> job.data]
  <2>1. /\ Ready /\ Transmit(line) /\ job' = [job EXCEPT !.offset = Len(job.data)]
        /\ UNCHANGED <<ram, seen, before, clean>> /\ job.op \in {"fill", "read"}
    BY <1>6 DEF OnlyLine
  <2>2. line \in Line /\ Len(job.data) \in job.offset..Len(job.data)
    BY <1>2, <2>1 DEF Line, Job
  <2> HIDE DEF line
  <2> QED
    BY <1>1, <2>1, <2>2, TransmitTyped
<1>7. CASE LoopEnds \/ LineFails
  <2>1. /\ job' \in {[job EXCEPT !.state = "over", !.result = "done"],
                     [job EXCEPT !.state = "over", !.result = "raised"]}
        /\ pc' = "idle" /\ UNCHANGED <<sent, answered, lines, ram, seen, before, clean>>
    BY <1>7 DEF LoopEnds, LineFails, Ready, T!SendFails, T!Raise, T!emulatorVars, transportVars
  <2>2. job' \in Job /\ job'.offset <= Len(job'.data) /\ job'.state = "over"
        /\ job'.op = job.op /\ job'.addr = job.addr /\ job'.data = job.data
    BY <1>2, <2>1 DEF Job
  <2>3. Linked'
    BY <2>1, <2>2 DEF Typed, Linked
  <2> QED
    BY <1>1, <2>1, <2>2, <2>3, JobTyped
<1>8. CASE Advance
  <2>1. T!Progress /\ UNCHANGED <<lines, ram, seen, before, clean>>
    BY <1>8 DEF Advance
  <2>2. /\ pc = "loop" /\ job.state = "open" /\ job.result = "none"
    <3>1. pc # "idle"
      BY <2>1 DEF T!Progress, T!Fill, T!SkipUnterminated, T!TakeReply, T!TakeError,
        T!TakeResumeReply, T!TakePrompt, T!Timeout, T!EndOfFile, T!Looping, T!Waiting
    <3> QED
      BY <3>1 DEF Typed, Linked
  <2>3. /\ pc' \in {"idle", "loop"}
        /\ outcome'.kind \in T!Raises \/ abandoned' = abandoned
        /\ pc' # "idle" => abandoned' = abandoned
        /\ UNCHANGED <<sent, answered>>
    BY <2>1, <2>2 DEF T!Progress, T!Fill, T!SkipUnterminated, T!TakeReply, T!TakeError,
        T!TakeResumeReply, T!TakePrompt, T!Timeout, T!EndOfFile, T!TakeRecord, T!Return,
        T!Raise, T!Raises, T!Looping, T!Waiting, T!emulatorVars, T!historyVars
  <2>4. CASE CallEnds
    <3>1. DataOf(outcome'.answers) \in Memories \cup {<<>>}
      BY <1>2 DEF DataOf
    <3>2. \/ job' = [job EXCEPT !.state = "over", !.result = "raised"]
          \/ job' = job /\ outcome'.kind \notin T!Raises
          \/ \E data \in Memories \cup {<<>>} :
                 job' = [job EXCEPT !.state = "over", !.result = "done", !.read = data]
      BY <2>4, <3>1 DEF CallEnds
    <3>3. /\ job' \in Job /\ job'.offset <= Len(job'.data)
          /\ job'.op = job.op /\ job'.addr = job.addr /\ job'.data = job.data
          /\ job'.state = "over" \/ (job' = job /\ outcome'.kind \notin T!Raises)
      BY <1>2, <3>2 DEF Job
    <3>4. Linked'
      BY <2>1, <2>2, <2>3, <2>4, <3>3 DEF Typed, Linked, CallEnds
    <3> QED
      BY <1>1, <2>1, <2>3, <3>3, <3>4, JobTyped
  <2>5. CASE pc' # "idle" /\ UNCHANGED job
    <3>1. Linked'
      BY <2>1, <2>2, <2>3, <2>5 DEF Typed, Linked
    <3> QED
      BY <1>1, <1>2, <2>1, <2>3, <2>5, <3>1, JobTyped
  <2> QED
    BY <1>8, <2>4, <2>5 DEF Advance
<1>9. CASE Execute
  <2>1. PICK terminator \in {"RDY", "ERR"} :
            /\ T!Write(terminator, answered + 1, <<>>)
            /\ ram' = IF terminator = "RDY"
                      THEN Poke(ram, Head(lines).addr, Stored(Head(lines))) ELSE ram
    BY <1>9 DEF Execute
  <2>2. /\ answered < sent /\ answered' = answered + 1 /\ seen' = Append(seen, ram)
        /\ lines' = Tail(lines) /\ UNCHANGED <<job, before, clean>>
        /\ UNCHANGED <<sent, pc, abandoned>>
    BY <1>9, <2>1 DEF Execute, T!Write, T!historyVars
  <2>3. ram' \in Memories
    BY <1>2, <2>1, <2>2, WaitingLine, PokeType
  <2>4. seen' \in Seq(Memories) /\ Len(seen') = answered'
    BY <1>2, <2>2, TypeOKIs DEF Typed
  <2>5. lines' \in Seq(Line) /\ Len(lines') = sent' - answered'
    BY <1>2, <2>2, WaitingLine, TypeOKIs DEF Typed
  <2>6. TypeOK'
    BY <1>1, <2>2, <2>3, <2>4, <2>5 DEF Typed, TypeOK, Line, Memories, Address
  <2>7. Linked'
    BY <1>1, <2>2 DEF Typed, Linked, ReplyInv
  <2> QED
    BY <2>6, <2>7
<1>10. CASE BarePrompt \/ Exit \/ UNCHANGED vars
  <2>1. UNCHANGED <<sent, answered, pc, abandoned, lines, ram, seen, job, before, clean>>
    BY <1>10 DEF BarePrompt, T!Announce, T!Write, Exit, T!Exit, vars, transportVars,
                 T!historyVars
  <2>2. Linked'
    BY <2>1 DEF Typed, Linked
  <2> QED
    BY <1>1, <1>2, <2>1, <2>2, JobTyped
<1> QED
  BY <1>1, <1>3, <1>4, <1>5, <1>6, <1>7, <1>8, <1>9, <1>10 DEF Next

LEMMA TypedAlways == Spec => []Typed
<1>1. Init => Typed
  BY TypedInit
<1>2. Typed /\ [Next]_vars => Typed'
  BY TypedStep
<1> QED
  BY <1>1, <1>2, PTL DEF Spec

\* Every variable keeps its type, a line waits for every command not answered, and the
\* offset of a write stays within its bytes.
THEOREM TypeCorrect == Spec => []TypeOK
<1>1. Typed => TypeOK
  BY DEF Typed
<1> QED
  BY <1>1, TypedAlways, PTL

-----------------------------------------------------------------------------
(* What a write leaves in the memory. *)

\* The line that carries the bytes from p to the offset is waiting.
Pending(p) ==
    lines = <<[op |-> "wmm", addr |-> job.addr + p,
               bytes |-> SubSeq(job.data, p + 1, job.offset)]>>

\* The chunks before p are stored and the one from p on is on its way, or none is.
StoredTo(p) ==
    /\ Boundary(p) /\ Holds(p)
    /\ \/ lines = <<>>
       \/ Pending(p) /\ p < job.offset /\ job.offset <= p + ChunkSize

\* Between two lines all the bytes before the offset are stored; while a line is
\* answered they are as soon as an RDY is in the stream.
ChunkInv ==
    job.op = "write" /\ clean =>
        /\ Boundary(job.offset)
        /\ \E p \in 0..job.offset : StoredTo(p)
        /\ (job.state = "open" /\ pc = "idle") \/ job.result = "done" =>
               lines = <<>> /\ Holds(job.offset)
        /\ job.state = "open" /\ pc = "loop" =>
               \A i \in DOMAIN stream : stream[i].terminator = "RDY" => Holds(job.offset)
        /\ job.result = "done" => job.offset = Len(job.data)

\* A read changes nothing, and what it was answered is what the memory still holds.
ReadInv ==
    job.op = "read" /\ abandoned = 0 =>
        /\ lines # <<>> => lines[1].op = "read"
        /\ pc = "loop" /\ answered = sent => seen[sent] = ram
        /\ job.result = "done" => job.read = ram

IInv == Typed /\ ChunkInv /\ ReadInv

LEMMA IInvInit == Init => IInv
BY TypedInit, ChunkAssumption DEF Init, IInv, ChunkInv, ReadInv, NoJob

\* The next chunk begins where one ends.
LEMMA NextBoundary ==
    ASSUME NEW p \in Nat, p % ChunkSize = 0
    PROVE  (p + ChunkSize) % ChunkSize = 0
<1>1. PICK q \in Nat : q = p \div ChunkSize
  BY ChunkAssumption
<1>2. p = ChunkSize * q
  BY <1>1, ChunkAssumption
<1>3. \A j \in Nat : (j * ChunkSize) % ChunkSize = 0
  BY ChunkAssumption
<1>4. p + ChunkSize = (q + 1) * ChunkSize
  BY <1>2, ChunkAssumption
<1>5. q + 1 \in Nat
  BY <1>1
<1> QED
  BY <1>3, <1>4, <1>5

\* When no command has timed out nothing waits between two calls.
LEMMA NothingWaits ==
    ASSUME Typed, abandoned = 0, pc = "idle"
    PROVE  /\ answered = sent /\ lines = <<>>
           /\ \A i \in DOMAIN stream : ~T!Terminated(stream[i])
<1>1. answered = sent /\ \A i \in DOMAIN stream : ~T!Terminated(stream[i])
  BY OneReply DEF Typed, T!Looping
<1>2. lines \in Seq(Line) /\ Len(lines) = sent - answered /\ sent \in Nat
  BY TypeOKIs DEF Typed, ReplyInv, T!TypeOK
<1> QED
  BY <1>1, <1>2

LEMMA StartStep ==
    ASSUME IInv, Typed', UNCHANGED <<transportVars, lines, ram, seen>>,
           NEW op \in {"write", "fill", "read"}, NEW addr \in Address, NEW data \in Seq(Nat),
           Start(op, addr, data)
    PROVE  ChunkInv' /\ ReadInv'
<1>1. /\ job' = [op |-> op, state |-> "open", addr |-> addr, data |-> data, offset |-> 0,
                 result |-> "none", read |-> <<>>]
      /\ before' = ram /\ clean' = (abandoned = 0) /\ pc = "idle"
      /\ UNCHANGED <<pc, abandoned, lines, ram, seen>>
  BY DEF Start, transportVars
<1>2. abandoned = 0 => lines = <<>>
  BY <1>1, NothingWaits DEF IInv
<1>3. ReadInv'
  BY <1>1, <1>2 DEF ReadInv
<1>4. ASSUME op = "write", abandoned = 0
      PROVE  Boundary(0)' /\ StoredTo(0)' /\ Holds(0)'
  <2>1. Boundary(0)'
    BY ChunkAssumption DEF Boundary
  <2>2. SubSeq(data, 1, 0) = <<>> /\ addr \in Nat /\ ram \in Memories
    BY TypeOKIs DEF Address, IInv, Typed
  <2>3. Holds(0)'
    BY <1>1, <2>2, PokeNothing DEF Holds
  <2> QED
    BY <1>1, <1>2, <1>4, <2>1, <2>3 DEF StoredTo
<1>5. ChunkInv'
  <2>1. job'.op = op /\ job'.offset = 0 /\ job'.result = "none" /\ 0 \in 0..0
    BY <1>1
  <2>2. SUFFICES ASSUME op = "write", clean'
                 PROVE  /\ Boundary(0)' /\ StoredTo(0)' /\ lines' = <<>> /\ Holds(0)'
    BY <1>1, <2>1 DEF ChunkInv
  <2> QED
    BY <1>1, <1>2, <1>4, <2>2
<1> QED
  BY <1>3, <1>5

LEMMA NextChunkStep ==
    ASSUME IInv, NextChunk
    PROVE  ChunkInv' /\ ReadInv'
<1>1. /\ pc = "idle" /\ pc' = "loop" /\ job.state = "open" /\ job.op = "write"
      /\ job.offset < Len(job.data) /\ UNCHANGED <<ram, before, clean, stream>>
  BY DEF NextChunk, Ready, Transmit, T!Send
<1>2. job \in Job /\ job.offset \in Nat /\ job.data \in Seq(Nat) /\ Len(job.data) \in Nat
  BY TypeOKIs DEF IInv, Typed, Job
<1>3. PICK p \in Nat, k \in Nat :
          /\ p = job.offset /\ k = Smaller(job.offset + ChunkSize, Len(job.data))
          /\ p < k /\ k <= Len(job.data) /\ k <= p + ChunkSize
          /\ k = p + ChunkSize \/ k = Len(job.data)
  <2> DEFINE n == Len(job.data)
  <2> HIDE DEF n
  <2>1. n \in Nat /\ job.offset \in Nat /\ job.offset < n /\ ChunkSize \in Nat \ {0}
    BY <1>1, <1>2, ChunkAssumption DEF n
  <2>2. \/ Smaller(job.offset + ChunkSize, n) = n /\ n <= job.offset + ChunkSize
        \/ /\ Smaller(job.offset + ChunkSize, n) = job.offset + ChunkSize
           /\ job.offset + ChunkSize <= n
    BY <2>1 DEF Smaller
  <2> QED
    BY <2>1, <2>2 DEF n
<1>4. /\ job' = [job EXCEPT !.offset = k]
      /\ lines' = Append(lines, [op |-> "wmm", addr |-> job.addr + p,
                                 bytes |-> SubSeq(job.data, p + 1, k)])
  BY <1>3 DEF NextChunk, Transmit
<1>5. /\ job'.op = "write" /\ job'.state = "open" /\ job'.offset = k /\ job'.addr = job.addr
      /\ job'.data = job.data /\ job'.result = "none"
  BY <1>1, <1>2, <1>4 DEF Job, IInv, Typed, Linked
<1>6. ReadInv'
  BY <1>5 DEF ReadInv
<1>7. ASSUME clean
      PROVE  ChunkInv'
  <2>1. lines = <<>> /\ Holds(p) /\ Boundary(p)
    BY <1>1, <1>3, <1>7 DEF IInv, ChunkInv
  <2>2. \A i \in DOMAIN stream : stream[i].terminator # "RDY"
    <3>1. abandoned = 0
      BY <1>1, <1>7 DEF IInv, Typed, Linked
    <3> QED
      BY <1>1, <3>1, NothingWaits DEF IInv, T!Terminated
  <2>3. Boundary(k)'
    <3>1. CASE k = Len(job.data)
      BY <1>5, <3>1 DEF Boundary
    <3>2. CASE k = p + ChunkSize
      <4>1. p % ChunkSize = 0
        BY <1>1, <1>2, <1>3, <2>1 DEF Boundary
      <4> QED
        BY <3>2, <4>1, NextBoundary DEF Boundary
    <3> QED
      BY <1>3, <3>1, <3>2
  <2>4. Pending(p)'
    BY <1>4, <1>5, <2>1 DEF Pending
  <2>5. Boundary(p)' /\ Holds(p)'
    BY <1>1, <1>5, <2>1 DEF Boundary, Holds
  <2>6. StoredTo(p)' /\ p \in 0..k
    BY <1>3, <1>5, <2>4, <2>5 DEF StoredTo
  <2>7. \E q \in 0..job'.offset : StoredTo(q)'
    BY <1>5, <2>6
  <2> QED
    BY <1>1, <1>5, <2>2, <2>3, <2>7 DEF ChunkInv
<1> QED
  BY <1>1, <1>6, <1>7 DEF ChunkInv

LEMMA OnlyLineStep ==
    ASSUME IInv, OnlyLine
    PROVE  ChunkInv' /\ ReadInv'
<1>1. /\ pc = "idle" /\ job.op \in {"fill", "read"} /\ job.state = "open"
      /\ lines' = Append(lines, [op |-> job.op, addr |-> job.addr, bytes |-> job.data])
      /\ sent' = sent + 1 /\ UNCHANGED <<answered, abandoned>>
  BY DEF OnlyLine, Ready, Transmit, T!Send, T!emulatorVars, T!historyVars
<1>2. job'.op = job.op /\ job'.result = "none"
  BY <1>1, TypeOKIs DEF OnlyLine, IInv, Typed, Linked, Job
<1>3. ChunkInv'
  BY <1>1, <1>2 DEF ChunkInv
<1>4. ASSUME abandoned = 0, job.op = "read"
      PROVE  lines'[1].op = "read" /\ answered' # sent'
  <2>1. lines = <<>> /\ answered = sent /\ sent \in Nat
    BY <1>1, <1>4, NothingWaits DEF IInv, Typed, ReplyInv, T!TypeOK
  <2> QED
    BY <1>1, <1>4, <2>1
<1> QED
  BY <1>1, <1>2, <1>3, <1>4 DEF ReadInv

\* The method ends without a reply: what is stored and what waits stays as it is.
LEMMA OverStep ==
    ASSUME IInv, job' = [job EXCEPT !.state = "over", !.result = "raised"],
           UNCHANGED <<lines, ram, seen, before, clean>>, pc' = "idle",
           abandoned' = 0 => abandoned = 0
    PROVE  ChunkInv' /\ ReadInv'
<1>1. /\ job'.op = job.op /\ job'.state = "over" /\ job'.offset = job.offset
      /\ job'.addr = job.addr /\ job'.data = job.data /\ job'.result = "raised"
  BY TypeOKIs DEF IInv, Typed, Job
<1>2. \A p : StoredTo(p) => StoredTo(p)'
  BY <1>1 DEF StoredTo, Boundary, Holds, Pending
<1> QED
  BY <1>1, <1>2 DEF IInv, ChunkInv, ReadInv, Boundary

LEMMA LoopEndsStep ==
    ASSUME IInv, LoopEnds
    PROVE  ChunkInv' /\ ReadInv'
<1>1. /\ pc = "idle" /\ job.state = "open" /\ job.op = "write" /\ job.offset = Len(job.data)
      /\ job' = [job EXCEPT !.state = "over", !.result = "done"]
      /\ UNCHANGED <<lines, ram, before, clean, pc>>
  BY DEF LoopEnds, Ready, transportVars
<1>2. /\ job'.op = "write" /\ job'.state = "over" /\ job'.offset = job.offset
      /\ job'.addr = job.addr /\ job'.data = job.data
  BY <1>1, TypeOKIs DEF IInv, Typed, Job
<1>3. \A p : StoredTo(p) => StoredTo(p)'
  BY <1>1, <1>2 DEF StoredTo, Boundary, Holds, Pending
<1> QED
  BY <1>1, <1>2, <1>3 DEF IInv, ChunkInv, ReadInv, Boundary, Holds

\* A step that changes neither the method nor the memory, and adds no RDY.
LEMMA QuietStep ==
    ASSUME IInv, UNCHANGED <<sent, answered, pc, abandoned, lines, ram, seen, job, before, clean>>,
           \A i \in DOMAIN stream' :
               stream'[i].terminator = "RDY" =>
                   \E j \in DOMAIN stream : stream[j].terminator = "RDY"
    PROVE  ChunkInv' /\ ReadInv'
<1>1. \A p : StoredTo(p) <=> StoredTo(p)'
  BY DEF StoredTo, Boundary, Holds, Pending
<1>2. ReadInv'
  BY DEF IInv, ReadInv
<1>3. ChunkInv'
  BY <1>1 DEF IInv, ChunkInv, Boundary, Holds
<1> QED
  BY <1>2, <1>3

LEMMA HeadTaken ==
    ASSUME IInv, T!TakeRecord
    PROVE  /\ stream # <<>> /\ 1 \in DOMAIN stream /\ Head(stream) = stream[1]
           /\ \A i \in DOMAIN stream' : i + 1 \in DOMAIN stream /\ stream'[i] = stream[i + 1]
           /\ UNCHANGED <<sent, answered, abandoned>>
<1>1. stream \in Seq(T!Record) /\ buffered \in 0..Len(stream) /\ buffered > 0
      /\ stream' = Tail(stream)
  BY DEF IInv, Typed, ReplyInv, T!TypeOK, T!TakeRecord
<1>2. UNCHANGED <<sent, answered, abandoned>>
  BY DEF T!TakeRecord, T!emulatorVars
<1> QED
  BY <1>1, <1>2

\* A reply is the reply to the line the method has sent, as long as no command has
\* timed out.
LEMMA TakeReplyStep ==
    ASSUME IInv, T!TakeReply, CallEnds, UNCHANGED <<lines, ram, seen, before, clean>>
    PROVE  ChunkInv' /\ ReadInv'
<1>1. /\ pc = "loop" /\ T!TakeRecord /\ Head(stream).terminator = "RDY" /\ pc' = "idle"
      /\ outcome'.kind = "reply" /\ outcome'.answers = Head(stream).answers
  BY DEF T!TakeReply, T!Return
<1>2. /\ 1 \in DOMAIN stream /\ stream[1].terminator = "RDY"
      /\ outcome'.answers = stream[1].answers
      /\ UNCHANGED <<sent, answered, abandoned>>
  BY <1>1, HeadTaken
<1>3. outcome'.kind \notin T!Raises
  BY <1>1 DEF T!Raises
<1>4. job.state = "open" /\ job.result = "none" /\ sent > 0 /\ job \in Job
  BY <1>1, TypeOKIs DEF IInv, Typed, Linked
<1>5. ASSUME abandoned = 0
      PROVE  answered = sent /\ stream[1].answers = sent /\ lines = <<>>
  <2>1. answered = sent /\ stream[1].answers = sent
    BY <1>2, <1>5, OneReply DEF IInv, Typed, T!Terminated
  <2>2. lines \in Seq(Line) /\ Len(lines) = sent - answered /\ sent \in Nat
    BY TypeOKIs DEF IInv, Typed, ReplyInv, T!TypeOK
  <2> QED
    BY <2>1, <2>2
<1>6. CASE job.op = "write"
  <2>1. job' = job
    BY <1>3, <1>6 DEF CallEnds
  <2>2. \A p : StoredTo(p) => StoredTo(p)'
    BY <2>1 DEF StoredTo, Boundary, Holds, Pending
  <2>3. ASSUME clean
        PROVE  lines = <<>> /\ Holds(job.offset) /\ ChunkInv
    <3>1. abandoned = 0
      BY <1>4, <2>3 DEF IInv, Typed, Linked
    <3> QED
      BY <1>1, <1>2, <1>4, <1>5, <1>6, <2>3, <3>1 DEF IInv, ChunkInv
  <2>4. ChunkInv'
    BY <1>1, <1>4, <1>6, <2>1, <2>2, <2>3 DEF ChunkInv, Boundary, Holds
  <2> QED
    BY <1>6, <2>1, <2>4 DEF ReadInv
<1>7. CASE job.op # "write"
  <2>1. /\ job'.op = job.op /\ job'.state = "over" /\ job'.result = "done"
        /\ job.op = "read" => job'.read = DataOf(stream[1].answers)
    BY <1>2, <1>3, <1>4, <1>7 DEF CallEnds, Job
  <2>2. ASSUME job.op = "read", abandoned = 0
        PROVE  job'.read = ram /\ lines = <<>>
    <3>1. sent \in DOMAIN seen
      <4>1. seen \in Seq(Memories) /\ Len(seen) = answered /\ sent \in Nat
        BY TypeOKIs DEF IInv, Typed, ReplyInv, T!TypeOK
      <4> QED
        BY <1>4, <1>5, <2>2, <4>1
    <3>2. seen[sent] = ram
      BY <1>1, <1>5, <2>2 DEF IInv, ReadInv
    <3> QED
      BY <1>5, <2>1, <2>2, <3>1, <3>2 DEF DataOf
  <2> QED
    BY <1>1, <1>2, <1>7, <2>1, <2>2 DEF ChunkInv, ReadInv
<1> QED
  BY <1>6, <1>7

LEMMA AdvanceStep ==
    ASSUME IInv, Advance
    PROVE  ChunkInv' /\ ReadInv'
<1>1. T!Progress /\ UNCHANGED <<lines, ram, seen, before, clean>>
  BY DEF Advance
<1>2. abandoned \in Nat /\ pc \in {"idle", "loop"}
  BY DEF IInv, Typed, ReplyInv, T!TypeOK, Linked
<1>3. CASE T!Fill \/ T!SkipUnterminated
  <2>1. /\ pc' = pc /\ pc # "idle"
        /\ UNCHANGED <<sent, answered, abandoned>>
    BY <1>3 DEF T!Fill, T!SkipUnterminated, T!TakeRecord, T!Looping, T!emulatorVars, T!historyVars
  <2>2. UNCHANGED job
    BY <2>1 DEF Advance, CallEnds
  <2>3. \A i \in DOMAIN stream' : \E j \in DOMAIN stream : stream'[i] = stream[j]
    <3>1. CASE T!Fill
      BY <3>1 DEF T!Fill
    <3>2. CASE T!SkipUnterminated
      <4>1. T!TakeRecord
        BY <3>2 DEF T!SkipUnterminated
      <4> QED
        BY <4>1, HeadTaken
    <3> QED
      BY <1>3, <3>1, <3>2
  <2>4. \A i \in DOMAIN stream' : stream'[i].terminator = "RDY" =>
            \E j \in DOMAIN stream : stream[j].terminator = "RDY"
    BY <2>3
  <2> QED
    BY <1>1, <2>1, <2>2, <2>4, QuietStep
<1>4. CASE T!TakeReply
  <2>1. pc' = "idle"
    BY <1>4 DEF T!TakeReply, T!Return
  <2> QED
    BY <1>1, <1>4, <2>1, TakeReplyStep DEF Advance
<1>5. CASE T!TakeError \/ T!Timeout \/ T!EndOfFile
  <2>1. pc = "loop"
    BY <1>2, <1>5 DEF T!TakeError, T!Timeout, T!EndOfFile, T!Looping
  <2>2. /\ pc' = "idle" /\ outcome'.kind \in T!Raises
        /\ abandoned' \in {abandoned, abandoned + 1}
    BY <1>5, <2>1 DEF T!TakeError, T!TakeRecord, T!Timeout, T!EndOfFile, T!Raise, T!Raises, T!GiveUp,
                      T!Looping
  <2>3. job' = [job EXCEPT !.state = "over", !.result = "raised"]
    BY <2>2 DEF Advance, CallEnds
  <2>4. abandoned' = 0 => abandoned = 0
    BY <1>2, <2>2
  <2> QED
    BY <1>1, <2>2, <2>3, <2>4, OverStep
<1>6. ~T!TakeResumeReply /\ ~T!TakePrompt
  BY <1>2 DEF T!TakeResumeReply, T!TakePrompt, T!Waiting
<1> QED
  BY <1>1, <1>3, <1>4, <1>5, <1>6 DEF T!Progress

\* A line is obeyed or refused: the memory then holds the chunks before its own, or
\* its own as well.
LEMMA ExecuteStep ==
    ASSUME IInv, Execute
    PROVE  ChunkInv' /\ ReadInv'
<1>1. PICK terminator \in {"RDY", "ERR"} :
          /\ T!Write(terminator, answered + 1, <<>>)
          /\ ram' = IF terminator = "RDY"
                    THEN Poke(ram, Head(lines).addr, Stored(Head(lines))) ELSE ram
  BY DEF Execute
<1>2. /\ answered < sent /\ answered' = answered + 1 /\ seen' = Append(seen, ram)
      /\ lines' = Tail(lines) /\ UNCHANGED <<job, before, clean, sent, pc, abandoned>>
  BY <1>1 DEF Execute, T!Write, T!historyVars
<1>3. /\ sent \in Nat /\ answered \in Nat /\ lines \in Seq(Line) /\ Len(lines) = sent - answered
      /\ seen \in Seq(Memories) /\ Len(seen) = answered /\ ram \in Memories /\ before \in Memories
      /\ job \in Job /\ job.offset <= Len(job.data) /\ stream \in Seq(T!Record)
  BY TypeOKIs DEF IInv, Typed, ReplyInv, T!TypeOK
<1>4. lines # <<>> /\ Head(lines) = lines[1] /\ Head(lines).addr \in Nat
      /\ Len(Tail(lines)) = Len(lines) - 1 /\ Tail(lines) \in Seq(Line)
  BY <1>2, WaitingLine DEF IInv
<1>5. ASSUME job.op = "read", abandoned = 0
      PROVE  ReadInv'
  <2>1. pc = "loop" /\ sent = answered + 1
    BY <1>2, <1>3, <1>5, OneReply DEF IInv, Typed, Linked, T!Looping
  <2>2. lines' = <<>>
    BY <1>2, <1>3, <1>4, <2>1
  <2>3. Stored(Head(lines)) = <<>>
    BY <1>4, <1>5 DEF IInv, ReadInv, Stored
  <2>4. ram' = ram
    BY <1>1, <1>3, <1>4, <2>3, PokeNothing
  <2>5. seen'[sent'] = ram'
    BY <1>2, <1>3, <2>1, <2>4
  <2>6. job.result = "none"
    BY <2>1 DEF IInv, Typed, Linked
  <2> QED
    BY <1>2, <2>2, <2>5, <2>6 DEF ReadInv
<1>6. ASSUME job.op = "write", clean
      PROVE  ChunkInv'
  <2>1. PICK p \in 0..job.offset :
            /\ Boundary(p) /\ Holds(p) /\ Pending(p)
            /\ p < job.offset /\ job.offset <= p + ChunkSize
    BY <1>4, <1>6 DEF IInv, ChunkInv, StoredTo
  <2>2. PICK k \in Nat : k = job.offset
    BY <1>3 DEF Job
  <2>3. /\ p \in Nat /\ p < k /\ k <= p + ChunkSize /\ k <= Len(job.data)
        /\ job.data \in Seq(Nat) /\ job.addr \in Nat
    BY <1>3, <2>1, <2>2 DEF Job, Address
  <2> DEFINE chunk == SubSeq(job.data, p + 1, k)
  <2>4. Head(lines) = [op |-> "wmm", addr |-> job.addr + p, bytes |-> chunk] /\ lines' = <<>>
    BY <1>2, <2>1, <2>2 DEF Pending
  <2>5. Stored(Head(lines)) = chunk
    <3>1. chunk \in Seq(Nat) /\ Len(chunk) = k - p
      BY <2>3
    <3>2. Smaller(LineCap, Len(chunk)) = Len(chunk)
      BY <2>3, <3>1, ChunkAssumption DEF Smaller
    <3>3. SubSeq(chunk, 1, Len(chunk)) = chunk
      BY <3>1
    <3> HIDE DEF chunk
    <3> QED
      BY <2>4, <3>2, <3>3 DEF Stored
  <2>6. ram = Poke(before, job.addr, SubSeq(job.data, 1, p))
    BY <2>1 DEF Holds
  <2>7. terminator = "RDY" => ram' = Poke(before, job.addr, SubSeq(job.data, 1, k))
    <3>1. p \in 0..Len(job.data) /\ k \in p..Len(job.data)
      BY <2>3
    <3>2. Poke(Poke(before, job.addr, SubSeq(job.data, 1, p)), job.addr + p, chunk)
              = Poke(before, job.addr, SubSeq(job.data, 1, k))
      BY <1>3, <2>3, <3>1, PokeTwice
    <3>3. Head(lines).addr = job.addr + p
      BY <2>4
    <3> HIDE DEF chunk
    <3> QED
      BY <1>1, <2>5, <2>6, <3>2, <3>3
  <2>8. Boundary(k)' /\ Boundary(p)'
    BY <1>2, <1>6, <2>1, <2>2 DEF IInv, ChunkInv, Boundary
  <2>9. IF terminator = "RDY" THEN Holds(k)' ELSE Holds(p)'
    BY <1>1, <1>2, <2>6, <2>7 DEF Holds
  <2>10. \E q \in 0..job'.offset : StoredTo(q)'
    <3>1. p \in 0..k /\ k \in 0..k
      BY <2>3
    <3>2. StoredTo(p)' \/ StoredTo(k)'
      BY <2>4, <2>8, <2>9 DEF StoredTo
    <3> QED
      BY <1>2, <2>2, <3>1, <3>2
  <2>11. ~((job.state = "open" /\ pc = "idle") \/ job.result = "done")
    BY <1>4, <1>6 DEF IInv, ChunkInv
  <2>12. ASSUME job.state = "open", NEW i \in DOMAIN stream', stream'[i].terminator = "RDY"
         PROVE  Holds(k)'
    <3>1. abandoned = 0
      BY <1>6, <2>12 DEF IInv, Typed, Linked
    <3>2. \A j \in DOMAIN stream : stream[j].terminator # "RDY"
      BY <1>2, <1>3, <3>1, OneReply DEF IInv, Typed, T!Terminated
    <3>3. PICK r : stream' = Append(stream, r) /\ r.terminator = terminator
      BY <1>1 DEF T!Write
    <3>4. \/ stream'[i] = r
          \/ i \in DOMAIN stream /\ stream'[i] = stream[i]
      BY <1>3, <3>3
    <3> QED
      BY <2>9, <2>12, <3>2, <3>3, <3>4
  <2> QED
    BY <1>2, <1>6, <2>2, <2>8, <2>10, <2>11, <2>12 DEF ChunkInv
<1>7. job.op # "write" \/ ~clean => ChunkInv'
  BY <1>2 DEF ChunkInv
<1>8. job.op # "read" \/ abandoned # 0 => ReadInv'
  BY <1>2 DEF ReadInv
<1> QED
  BY <1>5, <1>6, <1>7, <1>8

LEMMA IInvStep == IInv /\ [Next]_vars => IInv'
<1> SUFFICES ASSUME IInv, [Next]_vars
             PROVE  ChunkInv' /\ ReadInv'
  BY TypedStep DEF IInv
<1>1. Typed'
  BY TypedStep DEF IInv
<1>2. CASE WriteMemory \/ Fill
  <2>1. PICK range \in Ranges :
            \/ Start("write", range[1], Bytes(range[2]))
            \/ Start("fill", range[1], [i \in 1..range[2] |-> 100 * (sent + 1)])
    BY <1>2 DEF WriteMemory, Fill
  <2>2. range[1] \in Address /\ range[2] \in Nat
    BY ChunkAssumption DEF Address
  <2>3. /\ Bytes(range[2]) \in Seq(Nat)
        /\ [i \in 1..range[2] |-> 100 * (sent + 1)] \in Seq(Nat)
    BY <2>2, BytesType DEF IInv
  <2>4. UNCHANGED <<transportVars, lines, ram, seen>>
    BY <1>2 DEF WriteMemory, Fill
  <2> QED
    BY <1>1, <2>1, <2>2, <2>3, <2>4, StartStep
<1>3. CASE Read
  <2>1. 0 \in Address /\ <<>> \in Seq(Nat)
    BY ChunkAssumption DEF Address
  <2> QED
    BY <1>1, <1>3, <2>1, StartStep DEF Read
<1>4. CASE NextChunk \/ OnlyLine \/ LoopEnds \/ Advance \/ Execute
  BY <1>4, NextChunkStep, OnlyLineStep, LoopEndsStep, AdvanceStep, ExecuteStep
<1>5. CASE LineFails
  BY <1>5, OverStep DEF LineFails, T!SendFails, T!Raise
<1>6. CASE BarePrompt \/ Exit \/ UNCHANGED vars
  <2>1. UNCHANGED <<sent, answered, pc, abandoned, lines, ram, seen, job, before, clean>>
    BY <1>6 DEF BarePrompt, T!Announce, T!Write, Exit, T!Exit, vars, transportVars,
                T!historyVars
  <2>2. \A i \in DOMAIN stream' : stream'[i].terminator = "RDY" =>
            \E j \in DOMAIN stream : stream[j].terminator = "RDY"
    <3>1. CASE BarePrompt
      <4>1. PICK r : stream' = Append(stream, r) /\ r.terminator = "none"
        BY <3>1 DEF BarePrompt, T!Announce, T!Write
      <4>2. stream \in Seq(T!Record)
        BY DEF IInv, Typed, ReplyInv, T!TypeOK
      <4>3. \A i \in DOMAIN stream' :
                \/ stream'[i] = r
                \/ i \in DOMAIN stream /\ stream'[i] = stream[i]
        BY <4>1, <4>2
      <4> QED
        BY <4>1, <4>3
    <3>2. CASE Exit \/ UNCHANGED vars
      BY <3>2 DEF Exit, T!Exit, vars, transportVars
    <3> QED
      BY <1>6, <3>1, <3>2
  <2> QED
    BY <2>1, <2>2, QuietStep
<1> QED
  BY <1>2, <1>3, <1>4, <1>5, <1>6 DEF Next

LEMMA IInvariant == Spec => []IInv
<1>1. Init => IInv
  BY IInvInit
<1>2. IInv /\ [Next]_vars => IInv'
  BY IInvStep
<1> QED
  BY <1>1, <1>2, PTL DEF Spec

\* At every moment of a write that began with no reply outstanding, and after it, the
\* memory holds the first chunks of its bytes, each whole, and is otherwise as it was;
\* all of them once the write has returned.
THEOREM WritesAreWholeChunks == Spec => []WholeChunks
<1>1. IInv => WholeChunks
  <2>1. SUFFICES ASSUME IInv, job.op = "write", clean
                 PROVE  /\ \E k \in 0..Len(job.data) : Boundary(k) /\ Holds(k)
                        /\ job.result = "done" => Holds(Len(job.data))
    BY DEF WholeChunks
  <2>2. job.offset \in Nat /\ job.offset <= Len(job.data) /\ Len(job.data) \in Nat
    <3>1. job \in Job /\ job.offset <= Len(job.data)
      BY <2>1, TypeOKIs DEF IInv, Typed
    <3>2. job.offset \in Nat /\ job.data \in Seq(Nat)
      BY <3>1 DEF Job
    <3> QED
      BY <3>1, <3>2
  <2>3. PICK p \in 0..job.offset : Boundary(p) /\ Holds(p)
    BY <2>1 DEF IInv, ChunkInv, StoredTo
  <2>4. p \in 0..Len(job.data)
    BY <2>2
  <2>5. job.result = "done" => Holds(Len(job.data))
    BY <2>1 DEF IInv, ChunkInv
  <2> QED
    BY <2>3, <2>4, <2>5
<1> QED
  BY <1>1, IInvariant, PTL

\* As long as no command has timed out, what a read returned is what the memory holds.
THEOREM ReadsShowTheMemory == Spec => []ReadsAreCurrent
<1>1. IInv => ReadsAreCurrent
  BY DEF IInv, ReadInv, ReadsAreCurrent
<1> QED
  BY <1>1, IInvariant, PTL
=============================================================================
