-------------------------- MODULE TransportProofs --------------------------
(* Theorems about Transport, for every set of event kinds and every bound. *)
EXTENDS Transport, SequenceTheorems, TLAPS

(* The steps fall into three classes by what they do to the stream. *)

Takes == SkipUnterminated \/ TakeReply \/ TakeError \/ TakeResumeReply \/ TakePrompt

Ends == SendFails \/ Timeout \/ EndOfFile

\* Next, by the definitions a proof has to expand.
LEMMA StepCases ==
    ASSUME Next
    PROVE  \/ Command \/ ResumeCollectingEvents \/ WaitPrompt
           \/ Fill \/ Exit \/ Takes \/ Ends \/ Answer \/ Announce
BY DEF Next, Invoke, Progress, Takes, Ends

\* What is left in the stream once its head is taken.
LEMMA TailOfStream ==
    ASSUME TypeOK, stream # <<>>
    PROVE  /\ Head(stream) = stream[1] /\ Head(stream) \in Record
           /\ Tail(stream) \in Seq(Record)
           /\ Len(Tail(stream)) = Len(stream) - 1
           /\ DOMAIN Tail(stream) = 1..(Len(stream) - 1)
           /\ \A i \in DOMAIN Tail(stream) : i + 1 \in DOMAIN stream
                                             /\ Tail(stream)[i] = stream[i + 1]
BY HeadTailProperties DEF TypeOK

LEMMA RecordTaken ==
    ASSUME TypeOK, TakeRecord
    PROVE  /\ stream # <<>> /\ Head(stream) \in Record
           /\ stream' \in Seq(Record) /\ buffered' \in 0..Len(stream') /\ taken' \in Nat
           /\ Gathered \in SUBSET Event
<1>1. stream # <<>>
    BY DEF TypeOK, TakeRecord
<1>2. QED BY <1>1, TailOfStream DEF TypeOK, TakeRecord, Record, Gathered

LEMMA NumbersAreNat ==
    ASSUME NEW events \in SUBSET Event
    PROVE  Numbers(events) \in SUBSET Nat
BY DEF Numbers, Event

-----------------------------------------------------------------------------
(* Type correctness. *)

LEMMA TypeOKInit == Init => TypeOK
BY DEF Init, TypeOK, NoOutcome, Outcome, Control

LEMMA EndTypes ==
    ASSUME TypeOK, NEW kind \in {"reply", "events", "prompt"} \cup Raises,
           NEW answers \in Nat, NEW events \in SUBSET Event,
           Return(kind, answers, events) \/ Raise(kind, events)
    PROVE  /\ outcome' \in Outcome /\ pc' \in Control
           /\ until' \in SUBSET EventKind /\ collected' \in SUBSET Event
           /\ delivered' \in SUBSET Nat /\ dropped' \in SUBSET Nat
<1>1. Numbers(events) \in SUBSET Nat
    BY NumbersAreNat
<1>2. CASE Return(kind, answers, events)
    BY <1>1, <1>2 DEF TypeOK, Return, Outcome, Control
<1>3. CASE Raise(kind, events)
    BY <1>1, <1>3 DEF TypeOK, Raise, Outcome, Control
<1> QED BY <1>2, <1>3

LEMMA RecordWritten ==
    ASSUME TypeOK, NEW terminator \in {"none", "RDY", "ERR"}, NEW answers \in Nat,
           NEW m \in Nat, NEW burst \in [1..m -> EventKind],
           Write(terminator, answers, burst)
    PROVE  /\ stream' = Append(stream, stream'[Len(stream) + 1])
           /\ Len(stream') = Len(stream) + 1
           /\ stream'[Len(stream) + 1] \in Record
           /\ stream'[Len(stream) + 1].terminator = terminator
           /\ stream'[Len(stream) + 1].answers = answers
           /\ Numbers(stream'[Len(stream) + 1].events) = (emitted + 1)..(emitted + m)
           /\ stream' \in Seq(Record)
           /\ \A i \in DOMAIN stream : i \in DOMAIN stream' /\ stream'[i] = stream[i]
<1> DEFINE events == {[n |-> emitted + i, kind |-> burst[i]] : i \in DOMAIN burst}
           record == [terminator |-> terminator, answers |-> answers, events |-> events]
<1>1. DOMAIN burst = 1..m
    OBVIOUS
<1>2. events \in SUBSET Event
    BY <1>1 DEF Event, TypeOK
<1>3. record \in Record
    BY <1>2 DEF Record
<1>4. Numbers(events) = (emitted + 1)..(emitted + m)
    <2>1. ASSUME NEW e \in Numbers(events) PROVE e \in (emitted + 1)..(emitted + m)
        BY <1>1, <2>1 DEF Numbers, TypeOK
    <2>2. ASSUME NEW e \in (emitted + 1)..(emitted + m) PROVE e \in Numbers(events)
        <3>1. e - emitted \in DOMAIN burst /\ e = emitted + (e - emitted)
            BY <1>1 DEF TypeOK
        <3> DEFINE line == [n |-> emitted + (e - emitted), kind |-> burst[e - emitted]]
        <3>2. line \in events
            BY <3>1
        <3>3. line.n = e
            BY <3>1
        <3> HIDE DEF line, events
        <3> QED BY <3>2, <3>3 DEF Numbers
    <2> QED BY <2>1, <2>2
<1>5. stream' = Append(stream, record)
    BY DEF Write
<1>6. /\ stream' \in Seq(Record) /\ Len(stream') = Len(stream) + 1
      /\ stream'[Len(stream) + 1] = record
      /\ \A i \in 1..Len(stream) : stream'[i] = stream[i]
    BY <1>3, <1>5, AppendProperties DEF TypeOK
<1> HIDE DEF events
<1> QED BY <1>4, <1>5, <1>6, LenProperties DEF TypeOK

LEMMA TypeOKStep == TypeOK /\ [Next]_vars => TypeOK'
<1> SUFFICES ASSUME TypeOK, [Next]_vars PROVE TypeOK'
    OBVIOUS
<1>1. CASE Command \/ ResumeCollectingEvents
    <2>1. PICK control \in Looping, prefixes \in SUBSET EventKind : Send(control, prefixes)
        BY <1>1 DEF Command, ResumeCollectingEvents, Looping
    <2> QED BY <2>1 DEF TypeOK, Send, Looping, Control, emulatorVars, historyVars
<1>2. CASE WaitPrompt
    BY <1>2 DEF TypeOK, WaitPrompt, Control, emulatorVars, historyVars
<1>3. CASE Fill
    BY <1>3 DEF TypeOK, Fill, Control, emulatorVars, historyVars
<1>4. CASE Exit
    BY <1>4 DEF TypeOK, Exit, Control, emulatorVars, historyVars
<1>5. CASE SkipUnterminated
    BY <1>5, RecordTaken DEF TypeOK, SkipUnterminated, TakeRecord, emulatorVars
<1>6. CASE TakeReply
    <2>1. TakeRecord /\ Return("reply", Head(stream).answers, Gathered)
        BY <1>6 DEF TakeReply
    <2>2. Head(stream).answers \in Nat
        BY <2>1, RecordTaken DEF Record
    <2> QED BY <1>6, <2>1, <2>2, RecordTaken, EndTypes
            DEF TypeOK, TakeReply, TakeRecord, emulatorVars
<1>7. CASE TakeError
    <2>1. TakeRecord /\ Raise("X16dbgError", Gathered)
        BY <1>7 DEF TakeError
    <2> QED BY <1>7, <2>1, RecordTaken, EndTypes
            DEF TypeOK, TakeError, TakeRecord, emulatorVars, Raises
<1>8. CASE TakeResumeReply
    <2>1. TakeRecord
        BY <1>8 DEF TakeResumeReply
    <2>2. Head(stream).answers \in Nat
        BY <2>1, RecordTaken DEF Record
    <2>3. CASE Return("events", Head(stream).answers, Gathered)
        BY <1>8, <2>1, <2>2, <2>3, RecordTaken, EndTypes
        DEF TypeOK, TakeResumeReply, TakeRecord, emulatorVars
    <2>4. CASE /\ pc' = "resumeWait" /\ collected' = Gathered
               /\ UNCHANGED <<until, outcome, delivered, dropped>>
        BY <1>8, <2>1, <2>4, RecordTaken
        DEF TypeOK, TakeResumeReply, TakeRecord, emulatorVars, Control
    <2> QED BY <1>8, <2>3, <2>4 DEF TakeResumeReply
<1>9. CASE TakePrompt
    <2> DEFINE kind == IF pc = "wait" THEN "prompt" ELSE "events"
    <2>1. TakeRecord /\ Return(kind, Head(stream).answers, Gathered)
        BY <1>9 DEF TakePrompt
    <2>2. Head(stream).answers \in Nat
        BY <2>1, RecordTaken DEF Record
    <2>3. kind \in {"reply", "events", "prompt"} \cup Raises
        OBVIOUS
    <2> QED BY <1>9, <2>1, <2>2, <2>3, RecordTaken, EndTypes
            DEF TypeOK, TakePrompt, TakeRecord, emulatorVars
<1>10. CASE SendFails
    BY <1>10, EndTypes DEF TypeOK, SendFails, emulatorVars, Raises
<1>11. CASE Timeout
    <2>1. Return("events", 0, collected) \/ Raise("TimeoutError", collected)
        BY <1>11 DEF Timeout
    <2> QED BY <1>11, <2>1, EndTypes
            DEF TypeOK, Timeout, GiveUp, emulatorVars, Raises
<1>12. CASE EndOfFile
    BY <1>12, EndTypes DEF TypeOK, EndOfFile, GiveUp, emulatorVars, Raises
<1>13. CASE Answer \/ Announce
    <2>1. PICK terminator \in {"none", "RDY", "ERR"}, answers \in {0, answered + 1},
               m \in 0..(MaxEvents - emitted) : \E burst \in [1..m -> EventKind] :
              /\ Write(terminator, answers, burst)
              /\ answered' \in {answered, answered + 1} /\ emitted' = emitted + m
        BY <1>13 DEF Answer, Announce
    <2>2. answers \in Nat /\ m \in Nat
        BY <2>1, BoundsAssumption DEF TypeOK
    <2>3. stream' \in Seq(Record) /\ Len(stream') = Len(stream) + 1
        BY <2>1, <2>2, RecordWritten
    <2> QED BY <2>1, <2>2, <2>3 DEF TypeOK, Write, historyVars
<1>14. CASE UNCHANGED vars
    BY <1>14 DEF TypeOK, vars
<1> QED
    BY <1>1, <1>2, <1>3, <1>4, <1>5, <1>6, <1>7, <1>8, <1>9, <1>10, <1>11, <1>12, <1>13,
       <1>14, StepCases DEF Takes, Ends

\* Every reachable state is type correct.
THEOREM TypeCorrect == Spec => []TypeOK
<1>1. QED BY TypeOKInit, TypeOKStep, PTL DEF Spec

-----------------------------------------------------------------------------
(* The order of the replies in the stream. *)

\* The terminated record at the head answers the oldest command not yet settled:
\* the others answer later commands, and one of them has to answer this one.
LEMMA HeadAnswersNext ==
    ASSUME TypeOK, RepliesInOrder, stream # <<>>, Terminated(Head(stream))
    PROVE  Head(stream).answers = taken + 1 /\ taken < answered
<1> 1 \in DOMAIN stream /\ Head(stream) = stream[1]
    BY TailOfStream DEF TypeOK
<1>1. stream[1].answers \in (taken + 1)..answered
    BY DEF RepliesInOrder
<1>2. PICK i \in DOMAIN stream : stream[i].answers = taken + 1
    BY <1>1 DEF RepliesInOrder, TypeOK
<1>3. Terminated(stream[i])
    BY <1>2 DEF RepliesInOrder, TypeOK
<1>4. i = 1 \/ stream[1].answers < stream[i].answers
    BY <1>3, LenProperties DEF RepliesInOrder, TypeOK
<1> QED BY <1>1, <1>2, <1>4 DEF TypeOK

LEMMA TakeKeepsOrder ==
    ASSUME TypeOK, RepliesInOrder, TakeRecord
    PROVE  RepliesInOrder'
<1>1. stream # <<>> /\ stream' = Tail(stream)
    BY RecordTaken DEF TakeRecord
<1>2. DOMAIN stream' = 1..(Len(stream) - 1)
    BY <1>1, TailOfStream
<1>3. \A i \in DOMAIN stream' : i + 1 \in DOMAIN stream /\ stream'[i] = stream[i + 1]
    BY <1>1, TailOfStream
<1>4. /\ Head(stream) = stream[1] /\ 1 \in DOMAIN stream
      /\ Len(stream) \in Nat /\ DOMAIN stream = 1..Len(stream)
    BY <1>1, TailOfStream, LenProperties DEF TypeOK
<1>5. UNCHANGED <<answered, sent>>
    BY DEF TakeRecord, emulatorVars
<1>6. /\ taken' \in Nat /\ taken' <= answered
      /\ stream[1].answers \notin (taken' + 1)..answered
    <2>1. CASE Terminated(Head(stream))
        BY <1>1, <1>4, <2>1, HeadAnswersNext DEF TakeRecord, TypeOK
    <2>2. CASE ~Terminated(Head(stream))
        BY <1>4, <2>2 DEF TakeRecord, RepliesInOrder, TypeOK
    <2> QED BY <2>1, <2>2
<1>7. ASSUME NEW i \in DOMAIN stream'
      PROVE  /\ Terminated(stream'[i]) => stream'[i].answers \in (taken' + 1)..answered
             /\ ~Terminated(stream'[i]) => stream'[i].answers = 0
    <2>1. i + 1 \in DOMAIN stream /\ 1 < i + 1 /\ stream'[i] = stream[i + 1]
        BY <1>2, <1>3
    <2>2. CASE Terminated(Head(stream)) /\ Terminated(stream[i + 1])
        <3>1. stream[1].answers < stream[i + 1].answers
            BY <1>4, <2>1, <2>2 DEF RepliesInOrder
        <3>2. stream[i + 1].answers \in (taken + 1)..answered
            BY <2>1, <2>2 DEF RepliesInOrder
        <3>3. stream[1].answers = taken + 1 /\ taken' = taken + 1
            BY <1>1, <1>4, <2>2, HeadAnswersNext DEF TakeRecord
        <3> QED BY <2>1, <2>2, <3>1, <3>2, <3>3 DEF TypeOK
    <2>3. CASE ~Terminated(Head(stream)) \/ ~Terminated(stream[i + 1])
        BY <2>1, <2>3 DEF RepliesInOrder, TakeRecord, TypeOK
    <2> QED BY <2>2, <2>3
<1>8. ASSUME NEW i \in DOMAIN stream', NEW j \in DOMAIN stream', i < j,
             Terminated(stream'[i]), Terminated(stream'[j])
      PROVE  stream'[i].answers < stream'[j].answers
    <2>1. /\ i + 1 \in DOMAIN stream /\ stream'[i] = stream[i + 1]
          /\ j + 1 \in DOMAIN stream /\ stream'[j] = stream[j + 1] /\ i + 1 < j + 1
        BY <1>2, <1>3, <1>8
    <2> QED BY <1>8, <2>1 DEF RepliesInOrder
<1>9. ASSUME NEW c \in (taken' + 1)..answered
      PROVE  \E i \in DOMAIN stream' : stream'[i].answers = c
    <2>1. c \in (taken + 1)..answered
        BY <1>6 DEF TakeRecord, TypeOK
    <2>2. PICK j \in DOMAIN stream : stream[j].answers = c
        BY <2>1 DEF RepliesInOrder
    <2>3. j # 1
        BY <1>6, <2>2
    <2>4. j - 1 \in DOMAIN stream' /\ stream'[j - 1] = stream[(j - 1) + 1]
        BY <1>2, <1>3, <1>4, <2>2, <2>3
    <2>5. (j - 1) + 1 = j
        BY <1>4, <2>2
    <2> QED BY <2>2, <2>4, <2>5
<1> QED BY <1>5, <1>6, <1>7, <1>8, <1>9 DEF RepliesInOrder

LEMMA WriteKeepsOrder ==
    ASSUME TypeOK, RepliesInOrder, Answer \/ Announce
    PROVE  RepliesInOrder'
<1>1. PICK terminator \in {"none", "RDY", "ERR"}, answers \in {0, answered + 1},
           m \in 0..(MaxEvents - emitted) :
          \E burst \in [1..m -> EventKind] :
              /\ Write(terminator, answers, burst)
              /\ \/ /\ terminator # "none" /\ answers = answered + 1
                    /\ answered < sent /\ answered' = answered + 1
                 \/ /\ terminator = "none" /\ answers = 0
                    /\ answered' = answered
    BY DEF Answer, Announce
<1> DEFINE new == Len(stream) + 1
<1>2. /\ answers \in Nat /\ m \in Nat
      /\ Len(stream) \in Nat /\ DOMAIN stream = 1..Len(stream)
    BY <1>1, BoundsAssumption, LenProperties DEF TypeOK
<1>3. /\ stream' \in Seq(Record) /\ Len(stream') = new
      /\ stream'[new].terminator = terminator /\ stream'[new].answers = answers
      /\ \A i \in DOMAIN stream : stream'[i] = stream[i]
    BY <1>1, <1>2, RecordWritten
<1>4. DOMAIN stream' = DOMAIN stream \cup {new}
    BY <1>2, <1>3, LenProperties
<1>5. UNCHANGED <<sent, taken>>
    BY <1>1 DEF Write, historyVars
<1>6. /\ Terminated(stream'[new]) <=> terminator # "none"
      /\ \A i \in DOMAIN stream : Terminated(stream'[i]) <=> Terminated(stream[i])
    BY <1>3 DEF Terminated
<1> HIDE DEF new
<1>7. ASSUME NEW i \in DOMAIN stream'
      PROVE  /\ Terminated(stream'[i]) => stream'[i].answers \in (taken + 1)..answered'
             /\ ~Terminated(stream'[i]) => stream'[i].answers = 0
    <2>1. CASE i = new
        BY <1>1, <1>3, <1>6, <2>1 DEF TypeOK, RepliesInOrder
    <2>2. CASE i \in DOMAIN stream
        BY <1>1, <1>3, <1>6, <2>2 DEF TypeOK, RepliesInOrder
    <2> QED BY <1>4, <2>1, <2>2
<1>8. ASSUME NEW i \in DOMAIN stream', NEW j \in DOMAIN stream', i < j,
             Terminated(stream'[i]), Terminated(stream'[j])
      PROVE  stream'[i].answers < stream'[j].answers
    <2>1. i \in DOMAIN stream
        BY <1>2, <1>4, <1>8 DEF new
    <2>2. stream[i].answers \in (taken + 1)..answered /\ stream'[i] = stream[i]
        BY <1>3, <1>6, <1>8, <2>1 DEF RepliesInOrder
    <2>3. CASE j = new
        BY <1>1, <1>3, <1>6, <1>8, <2>2, <2>3 DEF TypeOK
    <2>4. CASE j \in DOMAIN stream
        BY <1>3, <1>6, <1>8, <2>1, <2>4 DEF RepliesInOrder
    <2> QED BY <1>4, <2>3, <2>4
<1>9. ASSUME NEW c \in (taken + 1)..answered'
      PROVE  \E i \in DOMAIN stream' : stream'[i].answers = c
    <2>1. CASE c \in (taken + 1)..answered
        BY <1>3, <1>4, <2>1 DEF RepliesInOrder
    <2>2. CASE c = answered + 1 /\ answered' = answered + 1
        BY <1>1, <1>3, <1>4, <2>2 DEF TypeOK
    <2> QED BY <1>1, <2>1, <2>2 DEF TypeOK
<1>10. taken' <= answered' /\ answered' <= sent'
    BY <1>1, <1>5 DEF RepliesInOrder, TypeOK
<1> QED BY <1>5, <1>7, <1>8, <1>9, <1>10 DEF RepliesInOrder

-----------------------------------------------------------------------------
(* The reply a call gets. *)

\* The inductive invariant behind the laws about replies.
ReplyInv ==
    /\ TypeOK
    /\ RepliesInOrder
    /\ DebtLaw
    /\ ReplyLag

LEMMA ReplyInvInit == Init => ReplyInv
BY TypeOKInit DEF Init, ReplyInv, RepliesInOrder, DebtLaw, ReplyLag, Debt, NoOutcome,
                  Looping

LEMMA OrderStep == ReplyInv /\ [Next]_vars => RepliesInOrder'
<1> SUFFICES ASSUME ReplyInv, [Next]_vars PROVE RepliesInOrder'
    OBVIOUS
<1> USE DEF ReplyInv
<1>1. CASE TakeRecord
    BY <1>1, TakeKeepsOrder
<1>2. CASE Answer \/ Announce
    BY <1>2, WriteKeepsOrder
<1>3. CASE UNCHANGED <<stream, taken, answered>> /\ sent' \in {sent, sent + 1}
    <2>1. answered <= sent'
        BY <1>3 DEF RepliesInOrder, TypeOK
    <2> QED BY <1>3, <2>1 DEF RepliesInOrder, Terminated
<1>4. Takes => TakeRecord
    BY DEF Takes, SkipUnterminated, TakeReply, TakeError, TakeResumeReply, TakePrompt
<1>5. ASSUME \/ Command \/ ResumeCollectingEvents \/ WaitPrompt \/ Fill \/ Exit
             \/ Ends \/ UNCHANGED vars
      PROVE  UNCHANGED <<stream, taken, answered>> /\ sent' \in {sent, sent + 1}
    BY <1>5 DEF Command, ResumeCollectingEvents, Send, WaitPrompt, Fill, Exit, Ends,
                SendFails, Timeout, EndOfFile, vars, emulatorVars, historyVars
<1> QED BY <1>1, <1>2, <1>3, <1>4, <1>5, StepCases

LEMMA DebtStep == ReplyInv /\ [Next]_vars => DebtLaw' /\ ReplyLag'
<1> SUFFICES ASSUME ReplyInv, [Next]_vars PROVE DebtLaw' /\ ReplyLag'
    OBVIOUS
<1> USE DEF ReplyInv, DebtLaw, ReplyLag, Debt, Looping
<1>1. CASE Command \/ ResumeCollectingEvents
    <2>1. PICK control \in Looping, prefixes \in SUBSET EventKind : Send(control, prefixes)
        BY <1>1 DEF Command, ResumeCollectingEvents
    <2> QED BY <2>1 DEF Send, TypeOK, historyVars
<1>2. CASE WaitPrompt \/ Fill \/ Exit
    BY <1>2 DEF WaitPrompt, Fill, Exit, historyVars
<1>3. CASE Answer \/ Announce
    BY <1>3 DEF Answer, Announce, Write, historyVars
<1>4. CASE SkipUnterminated
    BY <1>4 DEF SkipUnterminated, TakeRecord, TypeOK
<1>5. CASE TakeReply
    <2>1. stream # <<>> /\ Terminated(Head(stream))
        BY <1>5, RecordTaken DEF TakeReply, Terminated
    <2>2. Head(stream).answers = taken + 1 /\ taken' = taken + 1
        BY <1>5, <2>1, HeadAnswersNext DEF TakeReply, TakeRecord
    <2> QED BY <1>5, <2>2 DEF TakeReply, TakeRecord, Return, TypeOK
<1>6. CASE TakeError
    <2>1. taken' = taken + 1
        BY <1>6 DEF TakeError, TakeRecord, Terminated
    <2> QED BY <1>6, <2>1 DEF TakeError, TakeRecord, Raise, TypeOK
<1>7. CASE TakeResumeReply
    <2>1. taken' = taken + 1
        BY <1>7 DEF TakeResumeReply, TakeRecord, Terminated
    <2> QED BY <1>7, <2>1 DEF TakeResumeReply, TakeRecord, Return, TypeOK
<1>8. CASE TakePrompt
    <2>1. /\ taken' - taken = stray' - stray
          /\ stray' \in {stray, stray + 1} /\ taken' \in {taken, taken + 1}
        BY <1>8 DEF TakePrompt, TakeRecord, TypeOK
    <2>2. taken' <= answered
        <3>1. stream # <<>>
            BY <1>8, RecordTaken DEF TakePrompt
        <3>2. CASE Terminated(Head(stream))
            BY <1>8, <3>1, <3>2, HeadAnswersNext DEF TakePrompt, TakeRecord, TypeOK
        <3>3. CASE ~Terminated(Head(stream))
            BY <1>8, <3>3 DEF TakePrompt, TakeRecord, TypeOK, RepliesInOrder
        <3> QED BY <3>2, <3>3
    <2>3. pc \notin Looping /\ pc' = "idle" /\ outcome'.kind # "reply"
          /\ UNCHANGED <<sent, abandoned>>
        BY <1>8 DEF TakePrompt, TakeRecord, Return, Waiting
    <2>4. sent - taken = abandoned - stray
        BY <2>3
    <2>5. sent' - taken' = abandoned' - stray'
        BY <2>1, <2>3, <2>4 DEF TypeOK
    <2>6. sent \in Nat /\ taken' \in Nat /\ sent' = sent /\ taken' <= sent
        BY <2>1, <2>2, <2>3 DEF TypeOK, RepliesInOrder
    <2>7. abandoned' - stray' \in Nat
        BY <2>5, <2>6
    <2> QED BY <2>3, <2>5, <2>7
<1>9. CASE SendFails
    BY <1>9 DEF SendFails, Raise
<1>10. CASE Timeout
    BY <1>10 DEF Timeout, GiveUp, Return, Raise, TypeOK
<1>11. CASE EndOfFile
    BY <1>11 DEF EndOfFile, GiveUp, Raise, TypeOK
<1>12. CASE UNCHANGED vars
    BY <1>12 DEF vars
<1> QED
    BY <1>1, <1>2, <1>3, <1>4, <1>5, <1>6, <1>7, <1>8, <1>9, <1>10, <1>11, <1>12,
       StepCases DEF Takes, Ends

LEMMA ReplyInvariant == Spec => []ReplyInv
<1>1. ReplyInv /\ [Next]_vars => ReplyInv'
    BY TypeOKStep, OrderStep, DebtStep DEF ReplyInv
<1> QED BY <1>1, ReplyInvInit, PTL DEF Spec

\* No reply is lost, doubled or overtaken between the emulator and the caller.
THEOREM RepliesStayInOrder == Spec => []RepliesInOrder
BY ReplyInvariant, PTL DEF ReplyInv

\* The unmatched commands are those given up on.
THEOREM DebtIsAccounted == Spec => []DebtLaw
BY ReplyInvariant, PTL DEF ReplyInv

\* command() returns the reply to the command sent Debt commands before its own.
THEOREM LagLaw == Spec => []ReplyLag
BY ReplyInvariant, PTL DEF ReplyInv

\* Without timeouts, command() returns the reply to its own command.
THEOREM RepliesAreOwn == Spec => []OwnReply
<1>1. ReplyInv => OwnReply
    BY DEF ReplyInv, OwnReply, ReplyLag, DebtLaw, Debt, TypeOK, Outcome
<1> QED BY <1>1, ReplyInvariant, PTL

-----------------------------------------------------------------------------
(* The events. *)

LEMMA InStreamIs ==
    \A b : b \in InStream <=> \E i \in DOMAIN stream : b \in Numbers(stream[i].events)
BY DEF InStream

LEMMA NumbersUnion ==
    ASSUME NEW S, NEW T
    PROVE  Numbers(S \cup T) = Numbers(S) \cup Numbers(T)
BY DEF Numbers

LEMMA NumbersNone == Numbers({}) = {}
BY DEF Numbers

\* Taking the head splits the events of the stream at the head's events.
LEMMA TakeSplits ==
    ASSUME TypeOK, EventsAccounted, TakeRecord
    PROVE  /\ InStream = Numbers(Head(stream).events) \cup InStream'
           /\ \A a \in Numbers(Head(stream).events), b \in InStream' : a < b
           /\ \A i, j \in DOMAIN stream' : i < j =>
                  \A a \in Numbers(stream'[i].events), b \in Numbers(stream'[j].events) :
                      a < b
           /\ Numbers(Gathered) = Numbers(collected) \cup Numbers(Head(stream).events)
           /\ UNCHANGED emitted
<1>1. stream # <<>> /\ stream' = Tail(stream)
    BY RecordTaken DEF TakeRecord
<1>2. DOMAIN stream' = 1..(Len(stream) - 1)
    BY <1>1, TailOfStream
<1>3. \A i \in DOMAIN stream' : i + 1 \in DOMAIN stream /\ stream'[i] = stream[i + 1]
    BY <1>1, TailOfStream
<1>4. /\ Head(stream) = stream[1] /\ 1 \in DOMAIN stream
      /\ Len(stream) \in Nat /\ DOMAIN stream = 1..Len(stream)
    BY <1>1, TailOfStream, LenProperties DEF TypeOK
<1>5. \A b : b \in InStream' <=> \E i \in DOMAIN stream' : b \in Numbers(stream'[i].events)
    BY DEF InStream
<1>6. ASSUME NEW b \in InStream PROVE b \in Numbers(Head(stream).events) \cup InStream'
    <2>1. PICK i \in DOMAIN stream : b \in Numbers(stream[i].events)
        BY <1>6, InStreamIs
    <2>2. CASE i = 1
        BY <1>4, <2>1, <2>2
    <2>3. CASE i # 1
        <3>1. i - 1 \in DOMAIN stream' /\ (i - 1) + 1 = i
            BY <1>2, <1>4, <2>3
        <3> QED BY <1>3, <1>5, <2>1, <3>1
    <2> QED BY <2>2, <2>3
<1>7. ASSUME NEW b \in InStream'
      PROVE  /\ b \in InStream
             /\ \A a \in Numbers(Head(stream).events) : a < b
    <2>1. PICK i \in DOMAIN stream' : b \in Numbers(stream'[i].events)
        BY <1>5, <1>7
    <2>2. i + 1 \in DOMAIN stream /\ 1 < i + 1 /\ b \in Numbers(stream[i + 1].events)
        BY <1>2, <1>3, <2>1
    <2> QED BY <1>4, <2>2, InStreamIs DEF EventsAccounted
<1>8. Numbers(Head(stream).events) \subseteq InStream
    BY <1>4, InStreamIs
<1>9. ASSUME NEW i \in DOMAIN stream', NEW j \in DOMAIN stream', i < j,
             NEW a \in Numbers(stream'[i].events), NEW b \in Numbers(stream'[j].events)
      PROVE  a < b
    <2>1. /\ i + 1 \in DOMAIN stream /\ stream'[i] = stream[i + 1]
          /\ j + 1 \in DOMAIN stream /\ stream'[j] = stream[j + 1] /\ i + 1 < j + 1
        BY <1>2, <1>3, <1>9
    <2> QED BY <1>9, <2>1 DEF EventsAccounted
<1>10. Numbers(Gathered) = Numbers(collected) \cup Numbers(Head(stream).events)
    BY NumbersUnion DEF Gathered
<1> QED BY <1>6, <1>7, <1>8, <1>9, <1>10 DEF TakeRecord, emulatorVars

\* A call ends having seen what it had gathered and the events "head" of the
\* record it took, if it took one.
LEMMA FinishKeepsEvents ==
    ASSUME TypeOK, EventsAccounted, NEW kind, NEW answers, NEW seen, NEW head,
           Return(kind, answers, seen) \/ Raise(kind, seen),
           Numbers(seen) = Numbers(collected) \cup head,
           InStream = head \cup InStream',
           \A a \in head, b \in InStream' : a < b,
           \A i, j \in DOMAIN stream' : i < j =>
               \A a \in Numbers(stream'[i].events), b \in Numbers(stream'[j].events) : a < b,
           UNCHANGED emitted
    PROVE  EventsAccounted'
<1>1. Over' = Over \cup Numbers(seen) /\ Numbers(collected)' = {}
    BY NumbersNone DEF Return, Raise, Over
<1>2. \A a \in Over, b \in Numbers(seen) : a < b
    BY DEF EventsAccounted
<1>3. \A a \in Numbers(seen), b \in InStream' : a < b
    BY DEF EventsAccounted
<1>4. ASSUME NEW a \in Over, a \in Numbers(seen) PROVE FALSE
    <2>1. a \in Nat
        BY DEF TypeOK, Over
    <2>2. a < a
        BY <1>2, <1>4
    <2> QED BY <2>1, <2>2
<1>5. (delivered \cap dropped)' = {}
    <2>1. delivered \cap dropped = {}
        BY DEF EventsAccounted
    <2>2. \/ delivered' = delivered \cup Numbers(seen) /\ dropped' = dropped
          \/ delivered' = delivered /\ dropped' = dropped \cup Numbers(seen)
        BY DEF Return, Raise
    <2> QED BY <1>4, <2>1, <2>2 DEF Over
<1>6. (1..emitted)' = Over' \cup Numbers(collected)' \cup InStream'
    BY <1>1 DEF EventsAccounted
<1>7. \A a \in Over', b \in Numbers(collected)' \cup InStream' : a < b
    BY <1>1, <1>3 DEF EventsAccounted
<1> QED BY <1>1, <1>5, <1>6, <1>7 DEF EventsAccounted

\* The call goes on with the events of the record it took.
LEMMA GatherKeepsEvents ==
    ASSUME TypeOK, EventsAccounted, TakeRecord, collected' = Gathered,
           UNCHANGED <<delivered, dropped>>
    PROVE  EventsAccounted'
<1>1. Numbers(collected)' = Numbers(collected) \cup Numbers(Head(stream).events)
    BY TakeSplits
<1>2. Over' = Over
    BY DEF Over
<1>3. \A a \in Over', b \in Numbers(collected)' \cup InStream' : a < b
    BY <1>1, <1>2, TakeSplits DEF EventsAccounted
<1>4. \A a \in Numbers(collected)', b \in InStream' : a < b
    BY <1>1, TakeSplits DEF EventsAccounted
<1>5. (1..emitted)' = Over' \cup Numbers(collected)' \cup InStream'
    BY <1>1, <1>2, TakeSplits DEF EventsAccounted
<1> QED BY <1>3, <1>4, <1>5, TakeSplits DEF EventsAccounted

LEMMA WriteKeepsEvents ==
    ASSUME TypeOK, EventsAccounted, Answer \/ Announce
    PROVE  EventsAccounted'
<1>1. PICK terminator \in {"none", "RDY", "ERR"}, answers \in {0, answered + 1},
           m \in 0..(MaxEvents - emitted) :
          /\ \E burst \in [1..m -> EventKind] : Write(terminator, answers, burst)
          /\ emitted' = emitted + m
    BY DEF Answer, Announce
<1> DEFINE new == Len(stream) + 1
<1>2. /\ answers \in Nat /\ m \in Nat
      /\ Len(stream) \in Nat /\ DOMAIN stream = 1..Len(stream)
    BY <1>1, BoundsAssumption, LenProperties DEF TypeOK
<1>3. /\ stream' \in Seq(Record) /\ Len(stream') = new
      /\ Numbers(stream'[new].events) = (emitted + 1)..(emitted + m)
      /\ \A i \in DOMAIN stream : stream'[i] = stream[i]
    BY <1>1, <1>2, RecordWritten
<1>4. DOMAIN stream' = DOMAIN stream \cup {new}
    BY <1>2, <1>3, LenProperties
<1> DEFINE written == (emitted + 1)..(emitted + m)
<1>5. InStream' = InStream \cup written
    <2>1. \A b : b \in InStream' <=> \E i \in DOMAIN stream' : b \in Numbers(stream'[i].events)
        BY DEF InStream
    <2> HIDE DEF new, written
    <2> QED BY <1>3, <1>4, <2>1, InStreamIs DEF written
<1>6. UNCHANGED <<collected, delivered, dropped>>
    BY <1>1 DEF Write, historyVars
<1>7. \A a \in Over \cup Numbers(collected) \cup InStream, b \in written : a < b
    <2>1. Over \cup Numbers(collected) \cup InStream = 1..emitted
        BY DEF EventsAccounted
    <2> QED BY <1>2, <2>1 DEF TypeOK
<1>8. (1..emitted)' = 1..emitted \cup written
    BY <1>1, <1>2 DEF TypeOK
<1>9. ASSUME NEW i \in DOMAIN stream', NEW j \in DOMAIN stream', i < j,
             NEW a \in Numbers(stream'[i].events), NEW b \in Numbers(stream'[j].events)
      PROVE  a < b
    <2>1. i \in DOMAIN stream /\ stream'[i] = stream[i]
        BY <1>2, <1>3, <1>4, <1>9
    <2>2. CASE j = new
        BY <1>3, <1>7, <1>9, <2>1, <2>2, InStreamIs
    <2>3. CASE j \in DOMAIN stream
        BY <1>3, <1>9, <2>1, <2>3 DEF EventsAccounted
    <2> QED BY <1>4, <2>2, <2>3
<1> HIDE DEF written, new
<1>10. Over' = Over /\ Numbers(collected)' = Numbers(collected)
    BY <1>6 DEF Over
<1>11. (1..emitted)' = Over' \cup Numbers(collected)' \cup InStream'
    BY <1>5, <1>8, <1>10 DEF EventsAccounted
<1>12. /\ \A a \in Over', b \in Numbers(collected)' \cup InStream' : a < b
       /\ \A a \in Numbers(collected)', b \in InStream' : a < b
    BY <1>5, <1>7, <1>10 DEF EventsAccounted
<1> QED BY <1>6, <1>9, <1>11, <1>12 DEF EventsAccounted

\* Between calls nothing is gathered: SendFails and Send rely on it.
EventInv ==
    /\ TypeOK
    /\ EventsAccounted
    /\ pc = "idle" => collected = {}

LEMMA EventInvInit == Init => EventInv
BY TypeOKInit DEF Init, EventInv, EventsAccounted, Over, InStream, Numbers

\* How a step that ends a call reads and changes the events.
LEMMA FinishStep ==
    ASSUME EventInv,
           NEW kind, NEW answers, NEW seen, Return(kind, answers, seen) \/ Raise(kind, seen),
           \/ TakeRecord /\ seen = Gathered
           \/ UNCHANGED <<stream, emitted>> /\ seen = collected
    PROVE  EventsAccounted' /\ \A a \in Over, b \in Numbers(seen) : a < b
<1> USE DEF EventInv
<1>1. CASE TakeRecord /\ seen = Gathered
    BY <1>1, TakeSplits, FinishKeepsEvents DEF EventsAccounted
<1>2. CASE UNCHANGED <<stream, emitted>> /\ seen = collected
    <2>1. InStream' = InStream
        BY <1>2 DEF InStream
    <2> QED BY <1>2, <2>1, FinishKeepsEvents DEF EventsAccounted
<1> QED BY <1>1, <1>2

\* The steps that end a call, in the form the lemmas about them use.
EndsCall(kind, answers, seen) ==
    /\ Return(kind, answers, seen) \/ Raise(kind, seen)
    /\ \/ TakeRecord /\ seen = Gathered
       \/ UNCHANGED <<stream, emitted>> /\ seen = collected

LEMMA EventStepCases ==
    ASSUME EventInv, [Next]_vars
    PROVE  \/ \E kind, answers, seen : EndsCall(kind, answers, seen)
           \/ /\ TakeRecord /\ collected' = Gathered /\ pc' # "idle"
              /\ UNCHANGED <<delivered, dropped, outcome>>
           \/ Answer \/ Announce
           \/ /\ UNCHANGED <<emitted, stream, collected, delivered, dropped, outcome>>
              /\ pc' = "idle" => pc = "idle"
<1> USE DEF EventInv
<1>1. CASE Command \/ ResumeCollectingEvents
    BY <1>1 DEF Command, ResumeCollectingEvents, Send, emulatorVars, historyVars
<1>2. CASE WaitPrompt \/ Fill \/ Exit \/ UNCHANGED vars
    BY <1>2 DEF WaitPrompt, Fill, Exit, vars, emulatorVars, historyVars
<1>3. CASE SkipUnterminated
    BY <1>3 DEF SkipUnterminated, Looping
<1>4. CASE TakeReply
    BY <1>4 DEF TakeReply, EndsCall
<1>5. CASE TakeError
    BY <1>5 DEF TakeError, EndsCall
<1>6. CASE TakeResumeReply
    BY <1>6 DEF TakeResumeReply, EndsCall
<1>7. CASE TakePrompt
    BY <1>7 DEF TakePrompt, EndsCall
<1>8. CASE SendFails
    BY <1>8 DEF SendFails, EndsCall, emulatorVars
<1>9. CASE Timeout
    BY <1>9 DEF Timeout, EndsCall, emulatorVars
<1>10. CASE EndOfFile
    BY <1>10 DEF EndOfFile, EndsCall, emulatorVars
<1> QED
    BY <1>1, <1>2, <1>3, <1>4, <1>5, <1>6, <1>7, <1>8, <1>9, <1>10, StepCases
    DEF Takes, Ends

LEMMA EventInvStep == EventInv /\ [Next]_vars => EventInv'
<1> SUFFICES ASSUME EventInv, [Next]_vars
             PROVE  EventsAccounted' /\ (pc' = "idle" => collected' = {})
    BY TypeOKStep DEF EventInv
<1>1. ASSUME NEW kind, NEW answers, NEW seen, EndsCall(kind, answers, seen)
      PROVE  EventsAccounted' /\ (pc' = "idle" => collected' = {})
    BY <1>1, FinishStep DEF EndsCall, Return, Raise
<1>2. CASE /\ TakeRecord /\ collected' = Gathered /\ pc' # "idle"
           /\ UNCHANGED <<delivered, dropped, outcome>>
    BY <1>2, GatherKeepsEvents DEF EventInv
<1>3. CASE Answer \/ Announce
    <2>1. EventsAccounted'
        BY <1>3, WriteKeepsEvents DEF EventInv
    <2> QED BY <1>3, <2>1 DEF EventInv, Answer, Announce, Write
<1>4. CASE /\ UNCHANGED <<emitted, stream, collected, delivered, dropped, outcome>>
           /\ pc' = "idle" => pc = "idle"
    BY <1>4 DEF EventInv, EventsAccounted, Over, InStream
<1> QED BY <1>1, <1>2, <1>3, <1>4, EventStepCases

LEMMA EventInvariant == Spec => []EventInv
BY EventInvInit, EventInvStep, PTL DEF Spec

\* No event line is lost by a call that returns, returned twice, or out of order.
THEOREM EventsAreAccounted == Spec => []EventsAccounted
BY EventInvariant, PTL DEF EventInv

\* What a call returns is newer than everything returned before it.
THEOREM EventsComeInOrder == Spec => EventsNewer
<1> DEFINE Newer == outcome' # outcome =>
                        \A e \in Numbers(outcome'.events), d \in delivered : d < e
<1>1. EventInv /\ [Next]_vars => [Newer]_vars
    <2> SUFFICES ASSUME EventInv, [Next]_vars PROVE Newer
        OBVIOUS
    <2>1. ASSUME NEW kind, NEW answers, NEW seen, EndsCall(kind, answers, seen) PROVE Newer
        <3>1. \A a \in Over, b \in Numbers(seen) : a < b
            BY <2>1, FinishStep DEF EndsCall
        <3>2. outcome'.events = seen \/ outcome'.events = {}
            BY <2>1 DEF EndsCall, Return, Raise
        <3> QED BY <3>1, <3>2, NumbersNone DEF Over
    <2>2. Answer \/ Announce => UNCHANGED outcome
        BY DEF Answer, Announce, Write
    <2> QED BY <2>1, <2>2, EventStepCases
<1> QED BY <1>1, EventInvariant, PTL DEF Spec, EventsNewer

-----------------------------------------------------------------------------
(* The transport implements the command service. *)

LEMMA FinishIsFresh ==
    ASSUME EventInv, NEW kind, NEW answers, NEW seen, EndsCall(kind, answers, seen)
    PROVE  /\ Over' = Over \cup Numbers(seen) /\ Over' \ Over = Numbers(seen)
           /\ \A e \in Over' \ Over, p \in Over : p < e
           /\ seen \in SUBSET Event
<1>1. \A a \in Over, b \in Numbers(seen) : a < b
    BY FinishStep DEF EndsCall
<1>2. Over' = Over \cup Numbers(seen)
    BY DEF EndsCall, Return, Raise, Over
<1>3. ASSUME NEW a \in Over, a \in Numbers(seen) PROVE FALSE
    <2>1. a \in Nat
        BY DEF EventInv, TypeOK, Over
    <2>2. a < a
        BY <1>1, <1>3
    <2> QED BY <2>1, <2>2
<1>4. Over' \ Over = Numbers(seen)
    BY <1>2, <1>3
<1>5. seen \in SUBSET Event
    BY RecordTaken DEF EndsCall, EventInv, TypeOK
<1> QED BY <1>1, <1>2, <1>4, <1>5

LEMMA ReturnRefines ==
    ASSUME EventInv, NEW kind, NEW answers, NEW seen, EndsCall(kind, answers, seen),
           Return(kind, answers, seen), UNCHANGED sent
    PROVE  Service!Returned(kind, answers)
<1>1. Service!Finish
    BY FinishIsFresh DEF Service!Finish, Return
<1>2. outcome' \in [kind : {kind}, command : {sent}, answers : {answers},
                    events : SUBSET Event]
    BY FinishIsFresh DEF Return
<1>3. {e.n : e \in outcome'.events} = Over' \ Over
    BY FinishIsFresh DEF Return, Numbers
<1> QED BY <1>1, <1>2, <1>3 DEF Service!Returned, Service!Event, Event

LEMMA RaiseRefines ==
    ASSUME EventInv, NEW error, NEW seen, EndsCall(error, 0, seen),
           Raise(error, seen), UNCHANGED sent, NEW errors, error \in errors
    PROVE  Service!Raised(errors)
<1>1. Service!Finish
    BY FinishIsFresh DEF Service!Finish, Raise
<1>2. outcome' \in [kind : errors, command : {sent}, answers : {0}, events : {{}}]
    BY DEF Raise
<1> QED BY <1>1, <1>2 DEF Service!Raised

\* A terminated record taken is the next reply handed out.
LEMMA TakeRefines ==
    ASSUME ReplyInv, TakeRecord
    PROVE  /\ UNCHANGED sent
           /\ Terminated(Head(stream)) => /\ Service!HandNext
                                          /\ Head(stream).answers = taken + 1
           /\ ~Terminated(Head(stream)) => /\ UNCHANGED taken
                                           /\ Head(stream).answers = 0
<1> USE DEF ReplyInv
<1>1. stream # <<>> /\ 1 \in DOMAIN stream /\ Head(stream) = stream[1] /\ UNCHANGED sent
    BY RecordTaken, TailOfStream, LenProperties DEF TypeOK, TakeRecord
<1>2. CASE Terminated(Head(stream))
    BY <1>1, <1>2, HeadAnswersNext
    DEF TakeRecord, Service!HandNext, RepliesInOrder, TypeOK
<1>3. CASE ~Terminated(Head(stream))
    BY <1>1, <1>3 DEF TakeRecord, RepliesInOrder, TypeOK
<1> QED BY <1>1, <1>2, <1>3

LEMMA ServiceInit == Init => Service!Init
BY DEF Init, Service!Init, Over, NoOutcome

LEMMA ServiceStep ==
    ReplyInv /\ EventInv /\ [Next]_vars => [Service!Next]_(Service!vars)
<1> SUFFICES ASSUME ReplyInv, EventInv, [Next]_vars
             PROVE  Service!Next \/ UNCHANGED Service!vars
    OBVIOUS
<1>1. CASE Command
    BY <1>1 DEF Command, Send, Service!Next, Service!Call, historyVars, Over, ReplyInv, TypeOK
<1>2. CASE ResumeCollectingEvents
    BY <1>2 DEF ResumeCollectingEvents, Send, Service!Next, Service!Call, historyVars, Over
<1>3. CASE WaitPrompt
    BY <1>3 DEF WaitPrompt, Service!Next, Service!Call, historyVars, Over, ReplyInv, TypeOK
<1>4. CASE Fill \/ Exit \/ Answer \/ Announce \/ SkipUnterminated \/ UNCHANGED vars
    <2>1. UNCHANGED <<sent, taken, delivered, dropped, pc, outcome>>
        BY <1>4, TakeRefines DEF Fill, Exit, Answer, Announce, Write, SkipUnterminated,
                                 vars, historyVars
    <2> QED BY <2>1 DEF Service!vars, Over
<1>5. CASE TakeReply
    <2>1. TakeRecord /\ Terminated(Head(stream))
        BY <1>5 DEF TakeReply, Terminated
    <2>2. Service!Returned("reply", Head(stream).answers)
        BY <1>5, <2>1, TakeRefines, ReturnRefines DEF TakeReply, EndsCall
    <2> QED BY <1>5, <2>1, <2>2, TakeRefines DEF TakeReply, Service!Next, Service!Reply
<1>6. CASE TakeError
    <2>1. TakeRecord /\ Terminated(Head(stream))
        BY <1>6 DEF TakeError, Terminated
    <2>2. Service!Raised({"X16dbgError"})
        BY <1>6, <2>1, TakeRefines, RaiseRefines DEF TakeError, EndsCall
    <2> QED BY <1>6, <2>1, <2>2, TakeRefines
            DEF TakeError, Looping, Service!Next, Service!Refuse
<1>7. CASE TakeResumeReply
    <2>1. TakeRecord /\ Terminated(Head(stream)) /\ pc = "resumeLoop"
        BY <1>7 DEF TakeResumeReply, Terminated
    <2>2. CASE Return("events", Head(stream).answers, Gathered)
        <3>1. Service!Returned("events", Head(stream).answers)
            BY <2>1, <2>2, TakeRefines, ReturnRefines DEF EndsCall
        <3> QED BY <2>1, <3>1, TakeRefines DEF Service!Next, Service!ResumeReply
    <2>3. CASE pc' = "resumeWait" /\ UNCHANGED <<outcome, delivered, dropped>>
        BY <2>1, <2>3, TakeRefines DEF Service!Next, Service!ResumeWaits, Over
    <2> QED BY <1>7, <2>2, <2>3 DEF TakeResumeReply
<1>8. CASE TakePrompt
    <2> DEFINE kind == IF pc = "wait" THEN "prompt" ELSE "events"
    <2>1. TakeRecord /\ pc \in {"wait", "resumeWait"}
        BY <1>8 DEF TakePrompt, Waiting
    <2>2. Service!Returned(kind, Head(stream).answers)
        BY <1>8, <2>1, TakeRefines, ReturnRefines DEF TakePrompt, EndsCall
    <2>3. Service!Observe
        BY <2>1, <2>2, TakeRefines DEF Service!Observe
    <2> QED BY <2>3 DEF Service!Next
<1>9. CASE SendFails
    <2>1. Service!Raised({"BrokenPipeError"})
        BY <1>9, RaiseRefines DEF SendFails, EndsCall, EventInv, emulatorVars
    <2> QED BY <1>9, <2>1 DEF SendFails, Service!Next, Service!GiveUp
<1>10. CASE Timeout
    <2>1. UNCHANGED <<sent, stream, emitted, taken>> /\ pc # "idle"
        BY <1>10 DEF Timeout, emulatorVars
    <2>2. CASE pc = "resumeWait" /\ Return("events", 0, collected)
        <3>1. Service!Returned("events", 0)
            BY <2>1, <2>2, ReturnRefines DEF EndsCall
        <3> QED BY <2>1, <2>2, <3>1 DEF Service!Next, Service!Observe
    <2>3. CASE Raise("TimeoutError", collected)
        <3>1. Service!Raised({"TimeoutError", "EOFError"})
            BY <2>1, <2>3, RaiseRefines DEF EndsCall
        <3> QED BY <2>1, <3>1 DEF Service!Next, Service!GiveUp
    <2> QED BY <1>10, <2>2, <2>3 DEF Timeout
<1>11. CASE EndOfFile
    <2>1. UNCHANGED <<sent, stream, emitted, taken>> /\ pc # "idle"
          /\ Raise("EOFError", collected)
        BY <1>11 DEF EndOfFile, emulatorVars
    <2>2. Service!Raised({"TimeoutError", "EOFError"})
        BY <2>1, RaiseRefines DEF EndsCall
    <2> QED BY <2>1, <2>2 DEF Service!Next, Service!GiveUp
<1> QED
    BY <1>1, <1>2, <1>3, <1>4, <1>5, <1>6, <1>7, <1>8, <1>9, <1>10, <1>11, StepCases
    DEF Takes, Ends

\* Every behaviour of the transport is one the command service allows.
THEOREM TransportImplementsService == Spec => ImplementsService
BY ServiceInit, ServiceStep, ReplyInvariant, EventInvariant, PTL
DEF Spec, ImplementsService, Service!Spec
=============================================================================
