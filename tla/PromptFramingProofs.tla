------------------------ MODULE PromptFramingProofs ------------------------
(***************************************************************************)
(* Proofs about _readUntilPrompt.  Types and the conservation of bytes     *)
(* hold of any bodies.  That the bodies returned are the bodies written    *)
(* rests on one fact about the emulator's output: a body does not contain  *)
(* the prompt, and does not end in a way that makes one with the prompt    *)
(* that follows.  It is a hypothesis of the theorem, not an assumption of  *)
(* the model: the ASCII column of a memory dump can break it.              *)
(***************************************************************************)
EXTENDS PromptFraming, FiniteSetTheorems, SequenceTheorems,
        WellFoundedInduction, TLAPS

\* No body makes a prompt before the one that ends it.
BodiesClean ==
    \A body \in Bodies : \A i \in 1..Len(body) : ~PromptAt(body \o Prompt, i)

\* The prompt does not overlap itself: no end of it is also its beginning.
PromptClean ==
    \A n \in 1..(Len(Prompt) - 1) :
        SubSeq(Prompt, n + 1, Len(Prompt)) # SubSeq(Prompt, 1, Len(Prompt) - n)

-----------------------------------------------------------------------------
(* The operators of partition. *)

LEMMA PromptLen == Prompt \in Seq(Byte) /\ Len(Prompt) \in Nat \ {0}
BY FramingAssumption, EmptySeq

LEMMA SubSeqInside ==
    ASSUME NEW S, NEW s \in Seq(S), NEW m \in Nat \ {0}, NEW n \in 0..Len(s)
    PROVE  /\ SubSeq(s, m, n) \in Seq(S)
           /\ Len(SubSeq(s, m, n)) = IF m <= n THEN n - m + 1 ELSE 0
           /\ \A i \in 1..(n - m + 1) : SubSeq(s, m, n)[i] = s[m + i - 1]
<1>1. Len(s) \in Nat /\ \A i \in m..n : i \in 1..Len(s)
  BY LenProperties
<1>2. \A i \in m..n : s[i] \in S
  BY <1>1, ElementOfSeq
<1> QED
  BY <1>1, <1>2, SubSeqProperties

\* The test of partition, byte by byte.
LEMMA PromptAtBytes ==
    ASSUME NEW s \in Seq(Byte), NEW i \in Nat \ {0}
    PROVE  PromptAt(s, i) <=>
               /\ i + Len(Prompt) - 1 <= Len(s)
               /\ \A q \in 1..Len(Prompt) : s[i + q - 1] = Prompt[q]
<1> DEFINE n == i + Len(Prompt) - 1
           sub == SubSeq(s, i, n)
<1>1. Len(s) \in Nat /\ n \in Nat /\ i <= n
  BY PromptLen, LenProperties
<1>2. CASE n <= Len(s)
  <2>1. /\ sub \in Seq(Byte) /\ Len(sub) = Len(Prompt)
        /\ \A q \in 1..Len(Prompt) : sub[q] = s[i + q - 1]
    <3>1. n \in 0..Len(s) /\ n - i + 1 = Len(Prompt)
      BY <1>1, <1>2, PromptLen
    <3> HIDE DEF n
    <3> QED
      BY <1>1, <3>1, SubSeqInside
  <2>2. sub = Prompt <=> \A q \in 1..Len(Prompt) : sub[q] = Prompt[q]
    <3> HIDE DEF sub
    <3> QED
      BY <2>1, PromptLen, SeqEqual
  <2> QED
    BY <1>2, <2>1, <2>2 DEF PromptAt
<1>3. CASE ~(n <= Len(s))
  BY <1>3 DEF PromptAt
<1> QED
  BY <1>2, <1>3

LEMMA PositionsFinite ==
    ASSUME NEW s \in Seq(Byte)
    PROVE  /\ Positions(s) \subseteq Nat \ {0}
           /\ IsFiniteSet(Positions(s))
           /\ Cardinality(Positions(s)) \in Nat
<1>1. Len(s) \in Nat /\ Positions(s) \subseteq 1..Len(s)
  BY LenProperties DEF Positions
<1>2. IsFiniteSet(1..Len(s))
  BY <1>1, FS_Interval
<1>3. IsFiniteSet(Positions(s))
  BY <1>1, <1>2, FS_Subset
<1> QED
  BY <1>1, <1>3, FS_CardinalityType

\* What may be said of a position: partition would find a prompt there.
LEMMA PositionsDef ==
    ASSUME NEW s \in Seq(Byte), NEW i \in Nat \ {0}
    PROVE  i \in Positions(s) <=>
               /\ i + Len(Prompt) - 1 <= Len(s)
               /\ \A q \in 1..Len(Prompt) : s[i + q - 1] = Prompt[q]
<1>1. i \in Positions(s) <=> i <= Len(s) /\ PromptAt(s, i)
  BY LenProperties DEF Positions
<1>2. i + Len(Prompt) - 1 <= Len(s) => i <= Len(s)
  BY PromptLen, LenProperties
<1> QED
  BY <1>1, <1>2, PromptAtBytes

\* partition splits at a position, and at the first one.
LEMMA FirstPromptIsFirst ==
    ASSUME NEW s \in Seq(Byte), HasPrompt(s)
    PROVE  /\ FirstPrompt(s) \in Positions(s)
           /\ \A j \in Positions(s) : FirstPrompt(s) <= j
<1>1. Positions(s) \subseteq Nat /\ Positions(s) # {}
  BY PositionsFinite DEF HasPrompt
<1> DEFINE Less == {ss \in Nat \X Nat : ss[1] < ss[2]}
<1>2. IsWellFoundedOn(Less, Nat)
  BY NatLessThanWellFounded, Zenon DEF OpToRel
<1>3. \A i, j \in Nat : <<j, i>> \in Less <=> j < i
  OBVIOUS
<1> HIDE DEF Less
<1>4. \E i \in Positions(s) : \A j \in Positions(s) : <<j, i>> \notin Less
  BY <1>1, <1>2, WFMin
<1>5. PICK i \in Positions(s) : \A j \in Positions(s) : <<j, i>> \notin Less
  BY <1>4
<1>6. \A j \in Positions(s) : i <= j
  <2>1. TAKE j \in Positions(s)
  <2>2. i \in Nat /\ j \in Nat /\ ~(j < i)
    BY <1>1, <1>3, <1>5, Zenon
  <2> QED
    BY <2>2
<1> QED
  BY <1>6, Zenon DEF FirstPrompt

\* The three parts of partition make up the whole again.
LEMMA PartitionWhole ==
    ASSUME NEW s \in Seq(Byte), HasPrompt(s)
    PROVE  /\ Before(s) \in Seq(Byte) /\ After(s) \in Seq(Byte)
           /\ Len(Before(s)) = FirstPrompt(s) - 1
           /\ (Before(s) \o Prompt) \o After(s) = s
<1> DEFINE p == FirstPrompt(s)
           n == p + Len(Prompt) - 1
<1>1. /\ p \in Nat \ {0} /\ Len(s) \in Nat /\ n \in Nat
      /\ n <= Len(s) /\ p <= n /\ SubSeq(s, p, n) = Prompt
  <2>1. p \in Positions(s) /\ p \in Nat \ {0}
    BY FirstPromptIsFirst, PositionsFinite
  <2>2. PromptAt(s, p)
    BY <2>1 DEF Positions
  <2> HIDE DEF p
  <2> QED
    BY <2>1, <2>2, PromptLen, LenProperties DEF PromptAt
<1>2. Before(s) = SubSeq(s, 1, p - 1) /\ After(s) = SubSeq(s, n + 1, Len(s))
  <2>1. n + 1 = p + Len(Prompt)
    BY <1>1, PromptLen
  <2> QED
    BY <2>1 DEF Before, After
<1> HIDE DEF p, n
<1>3. /\ Before(s) \in Seq(Byte) /\ After(s) \in Seq(Byte)
      /\ Len(Before(s)) = p - 1
  BY <1>1, <1>2, SubSeqInside
<1>4. Before(s) \o Prompt = SubSeq(s, 1, n)
  <2>1. /\ 1 \in 1..(Len(s) + 1) /\ p - 1 \in (1 - 1)..Len(s)
        /\ n \in (p - 1)..Len(s) /\ (p - 1) + 1 = p
    BY <1>1
  <2>2. SubSeq(s, 1, p - 1) \o SubSeq(s, (p - 1) + 1, n) = SubSeq(s, 1, n)
    BY <2>1, ConcatAdjacentSubSeq, Zenon
  <2> QED
    BY <1>1, <1>2, <2>1, <2>2
<1>5. SubSeq(s, 1, n) \o SubSeq(s, n + 1, Len(s)) = SubSeq(s, 1, Len(s))
  <2>1. 1 \in 1..(Len(s) + 1) /\ n \in (1 - 1)..Len(s) /\ Len(s) \in n..Len(s)
    BY <1>1
  <2> QED
    BY <2>1, ConcatAdjacentSubSeq, Zenon
<1> QED
  BY <1>2, <1>3, <1>4, <1>5, SubSeqFull DEF p

-----------------------------------------------------------------------------
(* Types and bytes, of any bodies. *)

LEMMA ConcatBytes ==
    \A a, b, c \in Seq(Byte) : (a \o b) \o c = a \o (b \o c)
BY ConcatAssociative

\* One read moves a piece from the pipe to self._buf, and changes neither's order.
LEMMA PieceMoved ==
    ASSUME NEW b \in Seq(Byte), NEW p \in Seq(Byte), NEW k \in 1..Len(p)
    PROVE  /\ SubSeq(p, 1, k) \in Seq(Byte)
           /\ SubSeq(p, k + 1, Len(p)) \in Seq(Byte)
           /\ (b \o SubSeq(p, 1, k)) \o SubSeq(p, k + 1, Len(p)) = b \o p
<1> DEFINE first == SubSeq(p, 1, k)
           rest  == SubSeq(p, k + 1, Len(p))
<1>1. Len(p) \in Nat /\ k \in Nat \ {0}
  BY LenProperties
<1>2. first \in Seq(Byte) /\ rest \in Seq(Byte)
  BY <1>1, SubSeqInside
<1>3. first \o rest = p
  <2>1. 1 \in 1..(Len(p) + 1) /\ k \in (1 - 1)..Len(p) /\ Len(p) \in k..Len(p)
    BY <1>1
  <2>2. first \o rest = SubSeq(p, 1, Len(p))
    BY <2>1, ConcatAdjacentSubSeq, Zenon
  <2> QED
    BY <2>2, SubSeqFull
<1>4. (b \o first) \o rest = b \o (first \o rest)
  BY <1>2, ConcatBytes
<1> QED
  BY <1>2, <1>3, <1>4

\* What the emulator writes, whole or cut, is bytes.
LEMMA RecordBytes ==
    ASSUME NEW body \in Bodies
    PROVE  /\ body \in Seq(Byte) /\ body \o Prompt \in Seq(Byte)
           /\ Len(body \o Prompt) = Len(body) + Len(Prompt)
           /\ \A k \in 1..(Len(body \o Prompt) - 1) :
                  SubSeq(body \o Prompt, 1, k) \in Seq(Byte)
<1>1. body \in Seq(Byte)
  BY FramingAssumption
<1>2. /\ body \o Prompt \in Seq(Byte)
      /\ Len(body \o Prompt) = Len(body) + Len(Prompt)
  BY <1>1, PromptLen, ConcatProperties
<1> DEFINE r == body \o Prompt
<1> HIDE DEF r
<1>3. ASSUME r \in Seq(Byte), NEW k \in 1..(Len(r) - 1)
      PROVE  SubSeq(r, 1, k) \in Seq(Byte)
  BY <1>3, SubSeqInside, LenProperties
<1> QED
  BY <1>1, <1>2, <1>3 DEF r

ByteInv == TypeOK /\ BytesConserved

LEMMA EmitConserves ==
    ASSUME ByteInv, NEW bytes \in Seq(Byte), Emit(bytes), UNCHANGED <<buf, consumed>>
    PROVE  /\ pipe' \in Seq(Byte) /\ written' \in Seq(Byte)
           /\ BytesConserved'
<1> USE DEF ByteInv, TypeOK, BytesConserved, Emit
<1>1. pipe' \in Seq(Byte) /\ written' \in Seq(Byte)
  BY ConcatProperties
<1>2. consumed \o buf \in Seq(Byte)
  BY ConcatProperties
<1>3. ((consumed \o buf) \o pipe) \o bytes = (consumed \o buf) \o (pipe \o bytes)
  BY <1>2, ConcatBytes, SMTT(30)
<1> QED
  BY <1>1, <1>3

LEMMA ByteStep == ByteInv /\ [Next]_vars => ByteInv'
<1> SUFFICES ASSUME ByteInv, [Next]_vars
             PROVE  ByteInv'
  OBVIOUS
<1> USE DEF ByteInv, TypeOK, BytesConserved
<1>1. CASE WriteRecord
  <2>1. PICK body \in Bodies : Emit(body \o Prompt) /\ records' = Append(records, body)
    BY <1>1 DEF WriteRecord
  <2>2. UNCHANGED <<buf, process, reader, result, consumed, bodies>>
    BY <1>1 DEF WriteRecord
  <2>3. records' \in Seq(Seq(Byte))
    BY <2>1, RecordBytes, AppendProperties
  <2>4. pipe' \in Seq(Byte) /\ written' \in Seq(Byte) /\ BytesConserved'
    BY <2>1, <2>2, RecordBytes, EmitConserves
  <2> QED
    BY <2>2, <2>3, <2>4
<1>2. CASE Exit
  <2>1. UNCHANGED <<buf, reader, result, consumed, records, bodies>> /\ process' = "exited"
    BY <1>2 DEF Exit
  <2>2. CASE UNCHANGED <<pipe, written>>
    BY <2>1, <2>2
  <2>3. CASE \E body \in Bodies : \E k \in 1..(Len(body \o Prompt) - 1) :
                 Emit(SubSeq(body \o Prompt, 1, k))
    <3>1. PICK bytes \in Seq(Byte) : Emit(bytes)
      BY <2>3, RecordBytes
    <3>2. pipe' \in Seq(Byte) /\ written' \in Seq(Byte) /\ BytesConserved'
      BY <2>1, <3>1, EmitConserves
    <3> QED
      BY <2>1, <3>2
  <2> QED
    BY <1>2, <2>2, <2>3 DEF Exit
<1>3. CASE Begin
  BY <1>3 DEF Begin
<1>4. CASE ReadSome
  <2>1. PICK k \in 1..Len(pipe) :
            /\ buf' = buf \o SubSeq(pipe, 1, k)
            /\ pipe' = SubSeq(pipe, k + 1, Len(pipe))
    BY <1>4 DEF ReadSome
  <2>2. UNCHANGED <<process, reader, result, written, consumed, records, bodies>>
    BY <1>4 DEF ReadSome
  <2>3. /\ SubSeq(pipe, 1, k) \in Seq(Byte) /\ pipe' \in Seq(Byte)
        /\ buf' \o pipe' = buf \o pipe
    BY <2>1, PieceMoved
  <2>4. buf' \in Seq(Byte)
    BY <2>1, <2>3, ConcatProperties
  <2>5. /\ (consumed \o buf) \o pipe = consumed \o (buf \o pipe)
        /\ (consumed \o buf') \o pipe' = consumed \o (buf' \o pipe')
    <3>1. /\ consumed \in Seq(Byte) /\ buf \in Seq(Byte) /\ pipe \in Seq(Byte)
          /\ buf' \in Seq(Byte) /\ pipe' \in Seq(Byte)
      BY <2>3, <2>4
    <3> QED
      BY <3>1, ConcatBytes, ZenonT(30)
  <2> QED
    BY <2>2, <2>3, <2>4, <2>5
<1>5. CASE Split
  <2>1. /\ Before(buf) \in Seq(Byte) /\ After(buf) \in Seq(Byte)
        /\ (Before(buf) \o Prompt) \o After(buf) = buf
    BY <1>5, PartitionWhole DEF Split
  <2>2. /\ reader' = "idle" /\ result' = "body" /\ buf' = After(buf)
        /\ bodies' = Append(bodies, Before(buf))
        /\ consumed' = (consumed \o Before(buf)) \o Prompt
        /\ UNCHANGED <<pipe, process, written, records>>
    BY <1>5 DEF Split
  <2>3. bodies' \in Seq(Seq(Byte))
    BY <2>1, <2>2, AppendProperties
  <2> DEFINE record == Before(buf) \o Prompt
  <2>4. record \in Seq(Byte)
    BY <2>1, PromptLen, ConcatProperties
  <2>5. consumed' = consumed \o record
    BY <2>1, <2>2, PromptLen, ConcatBytes, ZenonT(30)
  <2>6. consumed' \in Seq(Byte)
    <3> HIDE DEF record
    <3> QED
      BY <2>4, <2>5, ConcatProperties
  <2>7. consumed' \o buf' = consumed \o buf
    <3>1. (consumed \o record) \o After(buf) = consumed \o (record \o After(buf))
      <4> HIDE DEF record
      <4> QED
        BY <2>1, <2>4, ConcatBytes, ZenonT(30)
    <3> QED
      BY <2>1, <2>2, <2>5, <3>1
  <2> QED
    BY <2>1, <2>2, <2>3, <2>6, <2>7
<1>6. CASE TimedOut \/ EndOfFile
  BY <1>6 DEF TimedOut, EndOfFile, Fail
<1>7. CASE UNCHANGED vars
  BY <1>7 DEF vars
<1> QED
  BY <1>1, <1>2, <1>3, <1>4, <1>5, <1>6, <1>7 DEF Next, Read

LEMMA ByteInit == Init => ByteInv
BY ConcatEmptySeq, EmptySeq DEF Init, ByteInv, TypeOK, BytesConserved

LEMMA ByteInvariance == Spec => []ByteInv
BY ByteInit, ByteStep, PTL DEF Spec

\* A read ends in a body, a TimeoutError or an EOFError, whatever the emulator
\* writes and however the reads cut it (_readUntilPrompt).
THEOREM TypeCorrect == Spec => []TypeOK
BY ByteInvariance, PTL DEF ByteInv

\* No byte is lost, doubled or reordered on its way to the caller, over any reads,
\* timeouts and retries: self._buf keeps what a failed read had (_readUntilPrompt).
THEOREM NoByteLost == Spec => []BytesConserved
BY ByteInvariance, PTL DEF ByteInv

-----------------------------------------------------------------------------
(* Framing, of clean bodies. *)

\* The bytes of a body with its prompt.
LEMMA RecordByte ==
    ASSUME NEW body \in Bodies
    PROVE  \A i \in 1..(Len(body) + Len(Prompt)) :
               (body \o Prompt)[i] = IF i <= Len(body) THEN body[i]
                                     ELSE Prompt[i - Len(body)]
<1>1. body \in Seq(Byte) /\ Prompt \in Seq(Byte)
  BY RecordBytes, PromptLen
<1> QED
  BY <1>1, ConcatProperties

\* Bytes that begin like a record hold their first prompt where the record ends,
\* and none at all when they are only a part of it.
LEMMA FirstInRecord ==
    ASSUME BodiesClean, NEW body \in Bodies, NEW s \in Seq(Byte), HasPrompt(s),
           \A i \in 1..Len(s) :
               i <= Len(body) + Len(Prompt) => s[i] = (body \o Prompt)[i]
    PROVE  /\ Len(s) >= Len(body) + Len(Prompt)
           /\ FirstPrompt(s) = Len(body) + 1
           /\ Before(s) = body
<1> DEFINE p == FirstPrompt(s)
           r == body \o Prompt
           LB == Len(body)
           LP == Len(Prompt)
<1>1. /\ body \in Seq(Byte) /\ r \in Seq(Byte) /\ Len(r) = LB + LP
      /\ LB \in Nat /\ LP \in Nat \ {0} /\ Len(s) \in Nat
  BY RecordBytes, PromptLen, LenProperties
<1>2. /\ \A q \in 1..LB : r[q] = body[q]
      /\ \A q \in 1..LP : r[LB + q] = Prompt[q]
  <2>1. \A i \in 1..(LB + LP) : r[i] = IF i <= LB THEN body[i] ELSE Prompt[i - LB]
    BY RecordByte
  <2> HIDE DEF r, LB, LP
  <2> QED
    BY <1>1, <2>1
<1>3. /\ p \in Nat \ {0} /\ p \in Positions(s)
      /\ \A j \in Positions(s) : p <= j
  BY FirstPromptIsFirst, PositionsFinite
<1>4. ASSUME NEW i \in Nat \ {0}
      PROVE  /\ i \in Positions(s) <=> /\ i + LP - 1 <= Len(s)
                                       /\ \A q \in 1..LP : s[i + q - 1] = Prompt[q]
             /\ PromptAt(r, i) <=> /\ i + LP - 1 <= LB + LP
                                   /\ \A q \in 1..LP : r[i + q - 1] = Prompt[q]
  BY <1>1, PositionsDef, PromptAtBytes
<1>5. \A i \in 1..Len(s) : i <= LB + LP => s[i] = r[i]
  OBVIOUS
<1>6. \A i \in 1..LB : ~PromptAt(r, i)
  BY DEF BodiesClean
<1> HIDE DEF p, r, LB, LP
<1>7. ~(p <= LB)
  <2> SUFFICES ASSUME p <= LB PROVE FALSE
    OBVIOUS
  <2>1. p + LP - 1 <= Len(s) /\ \A q \in 1..LP : s[p + q - 1] = Prompt[q]
    BY <1>3, <1>4
  <2>2. \A q \in 1..LP : p + q - 1 \in 1..Len(s) /\ p + q - 1 <= LB + LP
    BY <1>1, <1>3, <2>1
  <2>3. \A q \in 1..LP : r[p + q - 1] = Prompt[q]
    BY <1>5, <2>1, <2>2
  <2>4. PromptAt(r, p)
    BY <1>1, <1>3, <1>4, <2>3
  <2> QED
    BY <1>1, <1>3, <1>6, <2>4
<1>8. Len(s) >= LB + LP
  <2>1. p + LP - 1 <= Len(s)
    BY <1>3, <1>4
  <2> QED
    BY <1>1, <1>3, <1>7, <2>1
<1>9. p = LB + 1
  <2>1. \A q \in 1..LP : (LB + 1) + q - 1 = LB + q /\ LB + q \in 1..Len(s) /\ LB + q <= LB + LP
    BY <1>1, <1>8
  <2>2. \A q \in 1..LP : s[(LB + 1) + q - 1] = Prompt[q]
    BY <1>2, <1>5, <2>1
  <2>3. LB + 1 \in Nat \ {0} /\ (LB + 1) + LP - 1 <= Len(s)
    BY <1>1, <1>8
  <2>4. LB + 1 \in Positions(s)
    BY <1>4, <2>2, <2>3
  <2> QED
    BY <1>1, <1>3, <1>7, <2>4
<1>10. Before(s) = body
  <2>1. Before(s) = SubSeq(s, 1, LB)
    BY <1>1, <1>9 DEF Before, p
  <2>2. /\ SubSeq(s, 1, LB) \in Seq(Byte) /\ Len(SubSeq(s, 1, LB)) = LB
        /\ \A i \in 1..LB : SubSeq(s, 1, LB)[i] = s[i]
    BY <1>1, <1>8, SubSeqInside
  <2>3. \A i \in 1..LB : SubSeq(s, 1, LB)[i] = body[i]
    BY <1>1, <1>2, <1>5, <1>8, <2>2
  <2> QED
    BY <1>1, <2>1, <2>2, <2>3, SeqEqual DEF LB
<1> QED
  BY <1>8, <1>9, <1>10 DEF p, LB, LP

-----------------------------------------------------------------------------
(* The inductive invariant: what was written is the records in order, perhaps  *)
(* with a part of one more once the process has exited.  off[j] is where the   *)
(* j-th record ends in the stream, and consuming stops at such an end.         *)

Frames(off) ==
    /\ off[0] = 0
    /\ \A j \in 1..Len(records) :
           /\ off[j] = off[j - 1] + Len(records[j]) + Len(Prompt)
           /\ off[j] <= Len(written)
           /\ \A i \in 1..(Len(records[j]) + Len(Prompt)) :
                  written[off[j - 1] + i] = (records[j] \o Prompt)[i]

CutRecord(end) ==
    /\ end <= Len(written)
    /\ \/ end = Len(written)
       \/ /\ process = "exited"
          /\ \E body \in Bodies :
                 /\ Len(written) - end < Len(body) + Len(Prompt)
                 /\ \A i \in 1..(Len(written) - end) :
                        written[end + i] = (body \o Prompt)[i]

Framed ==
    \E off \in [0..Len(records) -> Nat] :
        /\ Frames(off)
        /\ CutRecord(off[Len(records)])
        /\ off[Len(bodies)] = Len(consumed)

FrameInv ==
    /\ ByteInv
    /\ records \in Seq(Bodies)
    /\ BodiesIntact
    /\ Framed

\* What has been written is what was consumed, then self._buf, then the pipe.
LEMMA Stream ==
    ASSUME ByteInv
    PROVE  /\ Len(written) = Len(consumed) + Len(buf) + Len(pipe)
           /\ \A i \in 1..Len(buf) : written[Len(consumed) + i] = buf[i]
           /\ Len(written) \in Nat /\ Len(consumed) \in Nat
           /\ Len(buf) \in Nat /\ Len(pipe) \in Nat
<1> DEFINE c == consumed \o buf
<1>1. /\ consumed \in Seq(Byte) /\ buf \in Seq(Byte) /\ pipe \in Seq(Byte)
      /\ written = c \o pipe
      /\ Len(consumed) \in Nat /\ Len(buf) \in Nat /\ Len(pipe) \in Nat
  BY LenProperties DEF ByteInv, TypeOK, BytesConserved
<1>2. /\ c \in Seq(Byte) /\ Len(c) = Len(consumed) + Len(buf)
      /\ \A i \in 1..Len(buf) : c[Len(consumed) + i] = buf[i]
  BY <1>1, ConcatProperties
<1> HIDE DEF c
<1>3. /\ Len(written) = Len(c) + Len(pipe)
      /\ \A i \in 1..Len(c) : written[i] = c[i]
  <2>1. /\ Len(c \o pipe) = Len(c) + Len(pipe)
        /\ \A i \in 1..(Len(c) + Len(pipe)) :
               (c \o pipe)[i] = IF i <= Len(c) THEN c[i] ELSE pipe[i - Len(c)]
    <3>1. c \in Seq(Byte) /\ pipe \in Seq(Byte)
      BY <1>1, <1>2
    <3> QED
      BY <3>1, ConcatProperties, Zenon
  <2>2. Len(c) \in Nat /\ \A i \in 1..Len(c) : i \in 1..(Len(c) + Len(pipe)) /\ i <= Len(c)
    BY <1>1, <1>2
  <2> QED
    BY <1>1, <2>1, <2>2
<1> QED
  BY <1>1, <1>2, <1>3

\* Writing adds to the stream and changes nothing that is in it.
LEMMA StreamGrows ==
    ASSUME ByteInv, NEW bytes \in Seq(Byte), Emit(bytes)
    PROVE  /\ Len(written') = Len(written) + Len(bytes)
           /\ \A i \in 1..Len(written) : written'[i] = written[i]
           /\ \A i \in 1..Len(bytes) : written'[Len(written) + i] = bytes[i]
           /\ Len(written) \in Nat /\ Len(bytes) \in Nat
<1>1. written \in Seq(Byte) /\ written' = written \o bytes
  BY DEF ByteInv, TypeOK, Emit
<1>2. Len(written) \in Nat /\ Len(bytes) \in Nat
  BY <1>1, LenProperties
<1> QED
  BY <1>1, <1>2, ConcatProperties

\* The records that are in the stream stay where they are in it.
LEMMA FramesStay ==
    ASSUME NEW n \in Nat, NEW off \in [0..n -> Nat], n <= Len(records),
           records \in Seq(Bodies), Frames(off),
           NEW more \in Nat, Len(written) \in Nat, Len(written') = Len(written) + more,
           \A i \in 1..Len(written) : written'[i] = written[i]
    PROVE  \A j \in 1..n :
               /\ off[j] <= Len(written')
               /\ \A i \in 1..(Len(records[j]) + Len(Prompt)) :
                      written'[off[j - 1] + i] = (records[j] \o Prompt)[i]
<1> SUFFICES ASSUME NEW j \in 1..n
             PROVE  /\ off[j] <= Len(written')
                    /\ \A i \in 1..(Len(records[j]) + Len(Prompt)) :
                           written'[off[j - 1] + i] = (records[j] \o Prompt)[i]
  OBVIOUS
<1>1. j \in 1..Len(records) /\ off[j] \in Nat /\ off[j - 1] \in Nat
  BY LenProperties
<1>2. Len(records[j]) \in Nat /\ Len(Prompt) \in Nat
  BY <1>1, ElementOfSeq, RecordBytes, LenProperties, PromptLen
<1>3. /\ off[j] = off[j - 1] + Len(records[j]) + Len(Prompt)
      /\ off[j] <= Len(written)
      /\ \A i \in 1..(Len(records[j]) + Len(Prompt)) :
             written[off[j - 1] + i] = (records[j] \o Prompt)[i]
  BY <1>1 DEF Frames
<1>4. off[j] <= Len(written')
  BY <1>1, <1>3
<1>5. \A i \in 1..(Len(records[j]) + Len(Prompt)) : off[j - 1] + i \in 1..Len(written)
  <2> DEFINE start == off[j - 1]
             length == Len(records[j]) + Len(Prompt)
  <2>1. /\ start \in Nat /\ length \in Nat /\ Len(written) \in Nat
        /\ start + length <= Len(written)
    BY <1>1, <1>2, <1>3
  <2> HIDE DEF start, length
  <2>2. \A i \in 1..length : start + i \in 1..Len(written)
    BY <2>1
  <2> QED
    BY <2>2 DEF start, length
<1>6. \A i \in 1..(Len(records[j]) + Len(Prompt)) :
          written'[off[j - 1] + i] = written[off[j - 1] + i]
  BY <1>5, Zenon
<1> QED
  BY <1>3, <1>4, <1>6, Zenon

\* A whole record is added at the end of the stream.
LEMMA RecordFramed ==
    ASSUME FrameInv, WriteRecord
    PROVE  records' \in Seq(Bodies) /\ BodiesIntact' /\ Framed'
<1>1. PICK body \in Bodies : Emit(body \o Prompt) /\ records' = Append(records, body)
  BY DEF WriteRecord
<1>2. process = "running" /\ UNCHANGED <<buf, process, consumed, bodies>>
  BY DEF WriteRecord
<1>3. PICK off \in [0..Len(records) -> Nat] :
          /\ Frames(off)
          /\ CutRecord(off[Len(records)])
          /\ off[Len(bodies)] = Len(consumed)
  BY DEF FrameInv, Framed
<1> DEFINE n == Len(records)
           size == Len(body) + Len(Prompt)
<1>4. /\ n \in Nat /\ Len(bodies) \in Nat /\ Len(bodies) <= n
      /\ size \in Nat /\ Len(body) \in Nat /\ Len(Prompt) \in Nat
  BY RecordBytes, PromptLen, LenProperties
     DEF FrameInv, ByteInv, TypeOK, BodiesIntact
<1>5. /\ records' \in Seq(Bodies) /\ Len(records') = n + 1
      /\ \A j \in 1..n : records'[j] = records[j]
      /\ records'[n + 1] = body
  BY <1>1, AppendProperties DEF FrameInv
<1>6. /\ Len(written') = Len(written) + size
      /\ \A i \in 1..Len(written) : written'[i] = written[i]
      /\ \A i \in 1..size : written'[Len(written) + i] = (body \o Prompt)[i]
      /\ Len(written) \in Nat
  BY <1>1, RecordBytes, StreamGrows DEF FrameInv
<1>7. off[n] = Len(written)
  BY <1>2, <1>3 DEF CutRecord
<1>8. \A j \in 1..n :
          /\ off[j] <= Len(written')
          /\ \A i \in 1..(Len(records[j]) + Len(Prompt)) :
                 written'[off[j - 1] + i] = (records[j] \o Prompt)[i]
  <2>1. records \in Seq(Bodies) /\ n <= Len(records)
    BY <1>4 DEF FrameInv
  <2> HIDE DEF size
  <2> QED
    BY <1>3, <1>4, <1>6, <2>1, FramesStay
<1>9. \A j \in 1..n : off[j] = off[j - 1] + Len(records[j]) + Len(Prompt)
  BY <1>3 DEF Frames
<1>10. PICK off2 \in [0..(n + 1) -> Nat] :
           /\ \A j \in 0..n : off2[j] = off[j]
           /\ off2[n + 1] = off[n] + size
  <2> DEFINE longer == [j \in 0..(n + 1) |->
                           IF j = n + 1 THEN off[n] + size ELSE off[j]]
  <2>1. /\ longer \in [0..(n + 1) -> Nat]
        /\ \A j \in 0..n : longer[j] = off[j]
        /\ longer[n + 1] = off[n] + size
    BY <1>4
  <2> HIDE DEF longer
  <2> QED
    BY <2>1
<1>11. off[0] = 0
  BY <1>3 DEF Frames
<1> HIDE DEF n
<1>12. Frames(off2)'
  <2>1. off2[0] = 0
    BY <1>4, <1>10, <1>11
  <2>2. ASSUME NEW j \in 1..(n + 1)
        PROVE  /\ off2[j] = off2[j - 1] + Len(records'[j]) + Len(Prompt)
               /\ off2[j] <= Len(written')
               /\ \A i \in 1..(Len(records'[j]) + Len(Prompt)) :
                      written'[off2[j - 1] + i] = (records'[j] \o Prompt)[i]
    <3>1. CASE j \in 1..n
      <4>1. off2[j] = off[j] /\ off2[j - 1] = off[j - 1] /\ records'[j] = records[j]
        <5>1. j \in 0..n /\ j - 1 \in 0..n
          BY <1>4, <3>1
        <5> QED
          BY <1>5, <1>10, <3>1, <5>1, Zenon
      <4> QED
        BY <1>8, <1>9, <3>1, <4>1
    <3>2. CASE j = n + 1
      <4>1. /\ off2[j] = Len(written) + size /\ off2[j - 1] = Len(written)
            /\ records'[j] = body
        <5>1. n \in 0..n /\ j - 1 = n
          BY <1>4, <3>2
        <5> QED
          BY <1>5, <1>7, <1>10, <3>2, <5>1
      <4>2. Len(written) + size <= Len(written')
        BY <1>4, <1>6
      <4>3. Len(written) + size = Len(written) + Len(body) + Len(Prompt)
        BY <1>4, <1>6
      <4> QED
        BY <1>6, <4>1, <4>2, <4>3, Zenon
    <3>3. j \in 1..n \/ j = n + 1
      BY <1>4
    <3> QED
      BY <3>1, <3>2, <3>3, Zenon
  <2> QED
    BY <1>5, <2>1, <2>2 DEF Frames
<1>13. CutRecord(off2[Len(records)])'
  BY <1>4, <1>5, <1>6, <1>7, <1>10 DEF CutRecord
<1>14. off2[Len(bodies)] = Len(consumed)
  BY <1>3, <1>4, <1>10
<1>15. Framed'
  BY <1>2, <1>5, <1>10, <1>12, <1>13, <1>14 DEF Framed
<1>16. BodiesIntact'
  <2>1. DOMAIN bodies = 1..Len(bodies)
    BY LenProperties DEF FrameInv, ByteInv, TypeOK
  <2>2. \A i \in 1..Len(bodies) : i \in 1..n
    BY <1>4
  <2>3. \A i \in 1..Len(bodies) : bodies[i] = records[i]
    BY <2>1, Zenon DEF FrameInv, BodiesIntact
  <2>4. Len(bodies) <= Len(records')
    BY <1>4, <1>5
  <2> QED
    BY <1>2, <1>5, <2>1, <2>2, <2>3, <2>4 DEF BodiesIntact
<1> QED
  BY <1>5, <1>15, <1>16

\* The process exits: at most a part of one more record is added.
LEMMA CutFramed ==
    ASSUME FrameInv, Exit
    PROVE  records' \in Seq(Bodies) /\ BodiesIntact' /\ Framed'
<1>1. /\ process = "running" /\ process' = "exited"
      /\ UNCHANGED <<buf, consumed, records, bodies>>
  BY DEF Exit
<1>2. PICK off \in [0..Len(records) -> Nat] :
          /\ Frames(off)
          /\ CutRecord(off[Len(records)])
          /\ off[Len(bodies)] = Len(consumed)
  BY DEF FrameInv, Framed
<1>3. off[Len(records)] = Len(written)
  BY <1>1, <1>2 DEF CutRecord
<1>4. BodiesIntact' /\ records' \in Seq(Bodies)
  BY <1>1 DEF FrameInv, BodiesIntact
<1>5. CASE UNCHANGED <<pipe, written>>
  <2>1. Frames(off)' /\ CutRecord(off[Len(records)])'
    BY <1>1, <1>2, <1>3, <1>5 DEF Frames, CutRecord
  <2> QED
    BY <1>1, <1>2, <1>4, <2>1 DEF Framed
<1>6. CASE \E body \in Bodies : \E k \in 1..(Len(body \o Prompt) - 1) :
               Emit(SubSeq(body \o Prompt, 1, k))
  <2> PICK body \in Bodies : \E k \in 1..(Len(body \o Prompt) - 1) :
               Emit(SubSeq(body \o Prompt, 1, k))
    BY <1>6
  <2>1. PICK k \in 1..(Len(body \o Prompt) - 1) : Emit(SubSeq(body \o Prompt, 1, k))
    OBVIOUS
  <2> DEFINE r == body \o Prompt
             part == SubSeq(r, 1, k)
  <2>2. /\ r \in Seq(Byte) /\ Len(r) = Len(body) + Len(Prompt) /\ Len(r) \in Nat
        /\ k \in 1..(Len(r) - 1)
    BY <2>1, RecordBytes, LenProperties
  <2> HIDE DEF r
  <2>3. part \in Seq(Byte) /\ Len(part) = k /\ \A i \in 1..k : part[i] = r[i]
    BY <2>2, SubSeqInside
  <2>4. Emit(part)
    BY <2>1 DEF r
  <2> HIDE DEF part
  <2>5. /\ Len(written') = Len(written) + k
        /\ \A i \in 1..Len(written) : written'[i] = written[i]
        /\ \A i \in 1..k : written'[Len(written) + i] = r[i]
        /\ Len(written) \in Nat
    BY <2>3, <2>4, StreamGrows DEF FrameInv
  <2>6. Frames(off)'
    <3>1. /\ Len(records) \in Nat /\ records \in Seq(Bodies) /\ k \in Nat
          /\ Len(records) <= Len(records)
      BY LenProperties DEF FrameInv
    <3>2. \A j \in 1..Len(records) :
              /\ off[j] <= Len(written')
              /\ \A i \in 1..(Len(records[j]) + Len(Prompt)) :
                     written'[off[j - 1] + i] = (records[j] \o Prompt)[i]
      BY <1>2, <2>5, <3>1, FramesStay
    <3> QED
      BY <1>1, <1>2, <3>2 DEF Frames
  <2>7. CutRecord(off[Len(records)])'
    <3>1. /\ Len(written') - Len(written) = k /\ k < Len(r)
          /\ Len(written) <= Len(written')
      BY <2>2, <2>5
    <3> QED
      BY <1>1, <1>3, <2>2, <2>5, <3>1 DEF CutRecord, r
  <2> QED
    BY <1>1, <1>2, <1>4, <2>6, <2>7 DEF Framed
<1> QED
  BY <1>4, <1>5, <1>6 DEF Exit

\* What partition takes from self._buf is the next record, whole, and no part of
\* a cut one.
LEMMA NextRecord ==
    ASSUME BodiesClean, FrameInv, HasPrompt(buf)
    PROVE  /\ Len(bodies) < Len(records)
           /\ Before(buf) = records[Len(bodies) + 1]
<1> DEFINE k == Len(bodies)
           n == Len(records)
<1>1. PICK off \in [0..n -> Nat] :
          /\ Frames(off)
          /\ CutRecord(off[n])
          /\ off[k] = Len(consumed)
  BY DEF FrameInv, Framed
<1>2. /\ k \in Nat /\ n \in Nat /\ k <= n /\ buf \in Seq(Byte)
      /\ records \in Seq(Bodies) /\ Len(Prompt) \in Nat
  BY LenProperties, PromptLen DEF FrameInv, ByteInv, TypeOK, BodiesIntact
<1>3. /\ Len(written) = off[k] + Len(buf) + Len(pipe)
      /\ \A i \in 1..Len(buf) : written[off[k] + i] = buf[i]
      /\ Len(written) \in Nat /\ Len(buf) \in Nat /\ Len(pipe) \in Nat
      /\ off[k] \in Nat
  BY <1>1, <1>2, Stream DEF FrameInv
<1> HIDE DEF k, n
<1>4. ~(k = n)
  <2> SUFFICES ASSUME k = n PROVE FALSE
    OBVIOUS
  <2>1. CASE off[n] = Len(written)
    <3>1. Len(buf) = 0
      BY <1>3, <2>1
    <3>2. Positions(buf) = {}
      BY <3>1 DEF Positions
    <3> QED
      BY <3>2 DEF HasPrompt
  <2>2. CASE \E body \in Bodies :
                 /\ Len(written) - off[n] < Len(body) + Len(Prompt)
                 /\ \A i \in 1..(Len(written) - off[n]) :
                        written[off[n] + i] = (body \o Prompt)[i]
    <3>1. PICK body \in Bodies :
              /\ Len(written) - off[n] < Len(body) + Len(Prompt)
              /\ \A i \in 1..(Len(written) - off[n]) :
                     written[off[n] + i] = (body \o Prompt)[i]
      BY <2>2
    <3>2. Len(buf) <= Len(written) - off[n] /\ Len(buf) < Len(body) + Len(Prompt)
      <4>1. Len(body) \in Nat
        BY RecordBytes, LenProperties
      <4> QED
        BY <1>2, <1>3, <3>1, <4>1
    <3>3. \A i \in 1..Len(buf) : i \in 1..(Len(written) - off[n])
      BY <1>3, <3>2
    <3>4. \A i \in 1..Len(buf) : buf[i] = (body \o Prompt)[i]
      BY <1>3, <3>1, <3>3
    <3>5. Len(buf) >= Len(body) + Len(Prompt)
      BY <1>2, <3>4, FirstInRecord
    <3>6. Len(body) \in Nat
      BY RecordBytes, LenProperties
    <3> QED
      BY <1>2, <1>3, <3>2, <3>5, <3>6
  <2> QED
    BY <1>1, <2>1, <2>2 DEF CutRecord
<1>5. k < n /\ k + 1 \in 1..n
  BY <1>2, <1>4
<1> DEFINE body == records[k + 1]
<1>6. body \in Bodies
  BY <1>2, <1>5, ElementOfSeq DEF n
<1>7. \A i \in 1..(Len(body) + Len(Prompt)) : written[off[k] + i] = (body \o Prompt)[i]
  <2>1. (k + 1) - 1 = k
    BY <1>2
  <2> QED
    BY <1>1, <1>5, <2>1 DEF Frames, n
<1>8. ASSUME NEW i \in 1..Len(buf), i <= Len(body) + Len(Prompt)
      PROVE  buf[i] = (body \o Prompt)[i]
  <2>1. i \in 1..(Len(body) + Len(Prompt))
    <3>1. Len(body) \in Nat
      BY <1>6, RecordBytes, LenProperties
    <3> QED
      BY <1>2, <1>3, <1>8, <3>1
  <2> QED
    BY <1>3, <1>7, <1>8, <2>1
<1> HIDE DEF body
<1>9. Before(buf) = body
  BY <1>2, <1>6, <1>8, FirstInRecord
<1> QED
  BY <1>5, <1>9 DEF k, n, body

LEMMA SplitFramed ==
    ASSUME BodiesClean, FrameInv, Split
    PROVE  records' \in Seq(Bodies) /\ BodiesIntact' /\ Framed'
<1> DEFINE k == Len(bodies)
           body == records[k + 1]
<1>1. /\ HasPrompt(buf) /\ bodies' = Append(bodies, Before(buf))
      /\ consumed' = (consumed \o Before(buf)) \o Prompt
      /\ UNCHANGED <<process, written, records>>
  BY DEF Split
<1>2. /\ k \in Nat /\ Len(records) \in Nat /\ Len(consumed) \in Nat
      /\ consumed \in Seq(Byte) /\ bodies \in Seq(Seq(Byte))
      /\ records \in Seq(Bodies) /\ Len(Prompt) \in Nat
  BY LenProperties, PromptLen DEF FrameInv, ByteInv, TypeOK
<1>3. k < Len(records) /\ Before(buf) = body
  BY <1>1, NextRecord
<1>4. body \in Bodies /\ body \in Seq(Byte) /\ Len(body) \in Nat
  <2>1. k + 1 \in 1..Len(records)
    BY <1>2, <1>3
  <2> QED
    BY <1>2, <2>1, ElementOfSeq, RecordBytes, LenProperties
<1> HIDE DEF body
<1>5. /\ Len(bodies') = k + 1 /\ \A i \in 1..k : bodies'[i] = bodies[i]
      /\ bodies'[k + 1] = body /\ bodies' \in Seq(Seq(Byte))
  BY <1>1, <1>2, <1>3, <1>4, AppendProperties
<1>6. Len(consumed') = Len(consumed) + Len(body) + Len(Prompt)
  <2>1. consumed \o body \in Seq(Byte) /\ Len(consumed \o body) = Len(consumed) + Len(body)
    BY <1>2, <1>4, ConcatProperties
  <2>2. Len((consumed \o body) \o Prompt) = Len(consumed \o body) + Len(Prompt)
    BY <2>1, PromptLen, ConcatProperties
  <2> QED
    BY <1>1, <1>3, <2>1, <2>2
<1>7. PICK off \in [0..Len(records) -> Nat] :
          /\ Frames(off)
          /\ CutRecord(off[Len(records)])
          /\ off[k] = Len(consumed)
  BY DEF FrameInv, Framed
<1>8. off[k + 1] = Len(consumed')
  <2>1. k + 1 \in 1..Len(records) /\ (k + 1) - 1 = k
    BY <1>2, <1>3
  <2>2. off[k + 1] = off[k] + Len(body) + Len(Prompt)
    BY <1>7, <2>1 DEF Frames, body
  <2> QED
    BY <1>6, <1>7, <2>2
<1>9. Frames(off)' /\ CutRecord(off[Len(records)])'
  BY <1>1, <1>7 DEF Frames, CutRecord
<1>10. Framed'
  BY <1>1, <1>5, <1>7, <1>8, <1>9 DEF Framed
<1>11. BodiesIntact'
  <2>1. DOMAIN bodies' = 1..(k + 1) /\ DOMAIN bodies = 1..k
    BY <1>2, <1>5, LenProperties
  <2>2. \A i \in 1..k : bodies[i] = records[i]
    BY <2>1 DEF FrameInv, BodiesIntact
  <2>3. \A i \in 1..(k + 1) : i \in 1..k \/ i = k + 1
    BY <1>2
  <2>4. \A i \in 1..(k + 1) : bodies'[i] = records[i]
    BY <1>5, <2>2, <2>3 DEF body
  <2>5. Len(bodies') <= Len(records)
    BY <1>2, <1>3, <1>5
  <2> QED
    BY <1>1, <2>1, <2>4, <2>5 DEF BodiesIntact
<1> QED
  BY <1>1, <1>2, <1>10, <1>11

LEMMA FrameInit == Init => FrameInv
<1> SUFFICES ASSUME Init PROVE FrameInv
  OBVIOUS
<1>1. ByteInv
  BY ByteInit
<1>2. records \in Seq(Bodies) /\ Len(records) = 0 /\ Len(bodies) = 0 /\ BodiesIntact
  BY EmptySeq DEF Init, BodiesIntact
<1> DEFINE off == [j \in 0..0 |-> 0]
<1>3. off \in [0..0 -> Nat] /\ off[0] = 0
  OBVIOUS
<1> HIDE DEF off
<1>4. Len(written) = 0 /\ Len(consumed) = 0
  BY DEF Init
<1>5. Frames(off)
  BY <1>2, <1>3 DEF Frames
<1>6. CutRecord(off[0])
  BY <1>3, <1>4 DEF CutRecord
<1>7. Framed
  BY <1>2, <1>3, <1>4, <1>5, <1>6 DEF Framed
<1> QED
  BY <1>1, <1>2, <1>7 DEF FrameInv

LEMMA FrameStep == BodiesClean /\ FrameInv /\ [Next]_vars => FrameInv'
<1> SUFFICES ASSUME BodiesClean, FrameInv, [Next]_vars
             PROVE  FrameInv'
  OBVIOUS
<1>1. ByteInv'
  BY ByteStep DEF FrameInv
<1>2. CASE UNCHANGED <<process, written, consumed, records, bodies>>
  <2>1. PICK off \in [0..Len(records) -> Nat] :
            /\ Frames(off)
            /\ CutRecord(off[Len(records)])
            /\ off[Len(bodies)] = Len(consumed)
    BY DEF FrameInv, Framed
  <2>2. Frames(off)' /\ CutRecord(off[Len(records)])'
    BY <1>2, <2>1 DEF Frames, CutRecord
  <2>3. Framed'
    BY <1>2, <2>1, <2>2 DEF Framed
  <2> QED
    BY <1>1, <1>2, <2>3 DEF FrameInv, BodiesIntact
<1>3. CASE WriteRecord
  BY <1>1, <1>3, RecordFramed DEF FrameInv
<1>4. CASE Exit
  BY <1>1, <1>4, CutFramed DEF FrameInv
<1>5. CASE Split
  BY <1>1, <1>5, SplitFramed DEF FrameInv
<1>6. CASE Begin \/ ReadSome \/ TimedOut \/ EndOfFile \/ UNCHANGED vars
  BY <1>2, <1>6 DEF Begin, ReadSome, TimedOut, EndOfFile, Fail, vars
<1> QED
  BY <1>3, <1>4, <1>5, <1>6 DEF Next, Read

\* The bodies returned are the bodies written, in order, none cut and none merged
\* with its neighbour, wherever the reads fell and whatever timed out between
\* them: as long as no body makes a prompt of its own (_readUntilPrompt).
THEOREM BodiesReturnedWhole ==
    ASSUME BodiesClean
    PROVE  Spec => []BodiesIntact
<1>1. Init => FrameInv
  BY FrameInit
<1>2. FrameInv /\ [Next]_vars => FrameInv'
  BY FrameStep
<1>3. FrameInv => BodiesIntact
  BY DEF FrameInv
<1> QED
  BY <1>1, <1>2, <1>3, PTL DEF Spec

-----------------------------------------------------------------------------
(* Counting prompts.  The refinement of RecordQueue says how many whole        *)
(* records have arrived: as many as there are prompts in self._buf.            *)

\* Positions in a part are positions in the whole.
LEMMA PositionsOfPrefix ==
    ASSUME NEW s \in Seq(Byte), NEW u \in Seq(Byte), Len(s) <= Len(u),
           \A i \in 1..Len(s) : u[i] = s[i]
    PROVE  \A i \in Nat \ {0} :
               i \in Positions(s) <=> i \in Positions(u) /\ i + Len(Prompt) - 1 <= Len(s)
<1> TAKE i \in Nat \ {0}
<1>1. Len(s) \in Nat /\ Len(u) \in Nat /\ Len(Prompt) \in Nat \ {0}
  BY PromptLen, LenProperties
<1>2. CASE i + Len(Prompt) - 1 <= Len(s)
  <2>1. \A q \in 1..Len(Prompt) : i + q - 1 \in 1..Len(s)
    BY <1>1, <1>2
  <2>2. \A q \in 1..Len(Prompt) : u[i + q - 1] = s[i + q - 1]
    BY <2>1, Zenon
  <2>3. i + Len(Prompt) - 1 <= Len(u)
    BY <1>1, <1>2
  <2>4. i \in Positions(s) <=> \A q \in 1..Len(Prompt) : s[i + q - 1] = Prompt[q]
    BY <1>2, PositionsDef
  <2>5. i \in Positions(u) <=> \A q \in 1..Len(Prompt) : u[i + q - 1] = Prompt[q]
    BY <2>3, PositionsDef
  <2> QED
    BY <1>2, <2>2, <2>4, <2>5, Zenon
<1>3. CASE ~(i + Len(Prompt) - 1 <= Len(s))
  BY <1>3, PositionsDef
<1> QED
  BY <1>2, <1>3

\* Two prompts that overlap are the same one.
LEMMA PromptsApart ==
    ASSUME PromptClean, NEW s \in Seq(Byte),
           NEW i \in Positions(s), NEW j \in Positions(s), i < j
    PROVE  i + Len(Prompt) <= j
<1> DEFINE LP == Len(Prompt)
           d == j - i
<1> SUFFICES ASSUME ~(i + LP <= j) PROVE FALSE
  OBVIOUS
<1>1. i \in Nat \ {0} /\ j \in Nat \ {0} /\ LP \in Nat \ {0} /\ Prompt \in Seq(Byte)
  BY PromptLen, PositionsFinite
<1>2. /\ \A q \in 1..LP : s[i + q - 1] = Prompt[q]
      /\ \A q \in 1..LP : s[j + q - 1] = Prompt[q]
  BY <1>1, PositionsDef
<1>3. d \in 1..(LP - 1) /\ LP - d \in 1..LP /\ d + 1 \in 1..LP
  BY <1>1
<1>4. \A q \in 1..(LP - d) : Prompt[d + q] = Prompt[q]
  <2> TAKE q \in 1..(LP - d)
  <2>1. q \in 1..LP /\ d + q \in 1..LP /\ j + q - 1 = i + (d + q) - 1
    BY <1>1, <1>3
  <2> HIDE DEF d
  <2> QED
    BY <1>2, <2>1
<1> HIDE DEF d
<1> DEFINE suffix == SubSeq(Prompt, d + 1, LP)
           prefix == SubSeq(Prompt, 1, LP - d)
<1>5. /\ suffix \in Seq(Byte) /\ Len(suffix) = LP - d
      /\ \A q \in 1..(LP - d) : suffix[q] = Prompt[d + q]
  <2>1. /\ d + 1 \in Nat \ {0} /\ LP \in 0..Len(Prompt) /\ d + 1 <= LP
        /\ LP - (d + 1) + 1 = LP - d /\ \A q \in 1..(LP - d) : (d + 1) + q - 1 = d + q
    BY <1>1, <1>3
  <2> QED
    BY <1>1, <2>1, SubSeqInside
<1>6. /\ prefix \in Seq(Byte) /\ Len(prefix) = LP - d
      /\ \A q \in 1..(LP - d) : prefix[q] = Prompt[q]
  <2>1. /\ 1 \in Nat \ {0} /\ LP - d \in 0..Len(Prompt) /\ 1 <= LP - d
        /\ (LP - d) - 1 + 1 = LP - d /\ \A q \in 1..(LP - d) : 1 + q - 1 = q
    BY <1>1, <1>3
  <2> QED
    BY <1>1, <2>1, SubSeqInside
<1>7. suffix = prefix
  <2> HIDE DEF suffix, prefix
  <2> QED
    BY <1>4, <1>5, <1>6, SeqEqual
<1> QED
  BY <1>3, <1>7 DEF PromptClean

\* Dropping the first prompt, and what is before it, drops one prompt.
LEMMA OneFewer ==
    ASSUME PromptClean, NEW s \in Seq(Byte), NEW p \in Positions(s),
           \A j \in Positions(s) : p <= j,
           NEW u \in Seq(Byte), Len(s) = p + Len(Prompt) - 1 + Len(u),
           \A i \in 1..Len(u) : u[i] = s[p + Len(Prompt) - 1 + i]
    PROVE  Cardinality(Positions(u)) = Cardinality(Positions(s)) - 1
<1> DEFINE d == p + Len(Prompt) - 1
           others == Positions(s) \ {p}
<1>1. /\ p \in Nat \ {0} /\ Len(Prompt) \in Nat \ {0} /\ Len(u) \in Nat
      /\ Len(s) \in Nat /\ d \in Nat
  BY PromptLen, PositionsFinite, LenProperties
<1>2. ASSUME NEW i \in Nat \ {0}
      PROVE  i \in Positions(u) <=> d + i \in Positions(s)
  <2>1. d + i \in Nat \ {0} /\ (i + Len(Prompt) - 1 <= Len(u)
                                  <=> (d + i) + Len(Prompt) - 1 <= Len(s))
    BY <1>1
  <2>2. CASE ~(i + Len(Prompt) - 1 <= Len(u))
    BY <2>1, <2>2, PositionsDef
  <2>3. CASE i + Len(Prompt) - 1 <= Len(u)
    <3>1. \A q \in 1..Len(Prompt) :
              i + q - 1 \in 1..Len(u) /\ d + (i + q - 1) = (d + i) + q - 1
      BY <1>1, <2>3
    <3>2. \A q \in 1..Len(Prompt) : u[i + q - 1] = s[(d + i) + q - 1]
      BY <3>1
    <3>3. i \in Positions(u) <=> \A q \in 1..Len(Prompt) : u[i + q - 1] = Prompt[q]
      BY <2>3, PositionsDef
    <3>4. d + i \in Positions(s) <=>
              \A q \in 1..Len(Prompt) : s[(d + i) + q - 1] = Prompt[q]
      BY <2>1, <2>3, PositionsDef
    <3> QED
      BY <3>2, <3>3, <3>4, Zenon
  <2> QED
    BY <2>2, <2>3
<1>3. \A j \in others : j - d \in Nat \ {0} /\ d + (j - d) = j
  <2> TAKE j \in others
  <2>1. j \in Nat \ {0} /\ p < j
    BY <1>1, PositionsFinite
  <2>2. p + Len(Prompt) <= j
    BY <2>1, PromptsApart
  <2> QED
    BY <1>1, <2>1, <2>2
<1>4. Positions(u) \subseteq Nat \ {0}
  BY PositionsFinite
<1>5. \A i \in Positions(u) : d + i \in others
  <2> TAKE i \in Positions(u)
  <2>1. i \in Nat \ {0}
    BY <1>4
  <2>2. d + i # p
    BY <1>1, <2>1
  <2>3. d + i \in Positions(s)
    BY <1>2, <2>1
  <2> QED
    BY <2>2, <2>3
<1> DEFINE shift == [i \in Positions(u) |-> d + i]
<1>6. shift \in Bijection(Positions(u), others)
  <2>1. shift \in [Positions(u) -> others]
    BY <1>5
  <2>2. IsInjective(shift)
    <3>1. \A a, b \in Positions(u) : d + a = d + b => a = b
      BY <1>1, <1>4
    <3> HIDE DEF d
    <3> QED
      BY <3>1 DEF IsInjective
  <2>3. \A j \in others : \E i \in Positions(u) : shift[i] = j
    <3> TAKE j \in others
    <3>1. j - d \in Positions(u) /\ d + (j - d) = j
      BY <1>2, <1>3
    <3> QED
      BY <3>1
  <2> HIDE DEF shift, others
  <2> QED
    BY <2>1, <2>2, <2>3 DEF Bijection, Injection, Surjection
<1>7. Cardinality(others) = Cardinality(Positions(u))
  <2>1. ExistsBijection(Positions(u), others)
    BY <1>6 DEF ExistsBijection
  <2> QED
    BY <2>1, PositionsFinite, FS_Bijection
<1>8. Cardinality(others) = Cardinality(Positions(s)) - 1
  BY PositionsFinite, FS_RemoveElement
<1> QED
  BY <1>7, <1>8

\* Bytes that end at a record's end, where the next record may begin.
Ended(s) == s = <<>> \/ Len(s) - Len(Prompt) + 1 \in Positions(s)

\* A record that is added there adds its own prompt and no other, and only when it
\* is added whole.
LEMMA PromptsAdded ==
    ASSUME PromptClean, BodiesClean, NEW R \in Seq(Byte), Ended(R),
           NEW body \in Bodies, NEW k \in 0..(Len(body) + Len(Prompt)),
           NEW s \in Seq(Byte), Len(s) = Len(R) + k,
           \A i \in 1..Len(R) : s[i] = R[i],
           \A i \in 1..k : s[Len(R) + i] = (body \o Prompt)[i]
    PROVE  /\ k < Len(body) + Len(Prompt) => Positions(s) = Positions(R)
           /\ k = Len(body) + Len(Prompt) =>
                  /\ Positions(s) = Positions(R) \cup {Len(R) + Len(body) + 1}
                  /\ Len(R) + Len(body) + 1 \notin Positions(R)
                  /\ Ended(s)
<1> DEFINE n == Len(R)
           LB == Len(body)
           LP == Len(Prompt)
           r == body \o Prompt
           new == n + LB + 1
<1>1. /\ n \in Nat /\ LB \in Nat /\ LP \in Nat \ {0} /\ k \in Nat /\ Len(s) = n + k
      /\ Len(s) \in Nat /\ n <= Len(s) /\ k <= LB + LP
      /\ r \in Seq(Byte) /\ Len(r) = LB + LP
  BY RecordBytes, PromptLen, LenProperties
<1>2. \A q \in 1..LP : r[LB + q] = Prompt[q]
  <2>1. \A i \in 1..(LB + LP) : r[i] = IF i <= LB THEN body[i] ELSE Prompt[i - LB]
    BY RecordByte
  <2> HIDE DEF r, LB, LP
  <2> QED
    BY <1>1, <2>1
<1>3. \A i \in Nat \ {0} : i \in Positions(R) <=> i \in Positions(s) /\ i + LP - 1 <= n
  <2>1. /\ Len(R) <= Len(s)
        /\ \A i \in 1..Len(R) : s[i] = R[i]
    BY <1>1
  <2> QED
    BY <2>1, PositionsOfPrefix
<1>4. Positions(s) \subseteq Nat \ {0} /\ Positions(R) \subseteq Nat \ {0}
  BY PositionsFinite
<1>5. ASSUME NEW i \in Positions(s), ~(i + LP - 1 <= n)
      PROVE  i > n
  <2> SUFFICES ASSUME i <= n PROVE FALSE
    BY <1>1, <1>4
  <2> DEFINE e == n - LP + 1
  <2>1. R # <<>>
    BY <1>1, <1>4
  <2>2. e \in Positions(R) /\ e \in Nat \ {0}
    BY <1>4, <2>1 DEF Ended
  <2>3. e \in Positions(s)
    BY <1>3, <2>2
  <2>4. e < i
    BY <1>1, <1>4, <1>5
  <2>5. e + LP <= i
    <3> HIDE DEF e
    <3> QED
      BY <2>3, <2>4, PromptsApart
  <2> QED
    BY <1>1, <1>4, <2>5
<1>6. ASSUME NEW i \in Positions(s), i > n
      PROVE  i = new /\ k = LB + LP
  <2> DEFINE m == i - n
  <2>1. m \in Nat \ {0} /\ i = n + m /\ i \in Nat \ {0}
    BY <1>1, <1>4, <1>6
  <2> HIDE DEF m
  <2>2. i + LP - 1 <= Len(s) /\ \A q \in 1..LP : s[i + q - 1] = Prompt[q]
    BY <2>1, PositionsDef
  <2>3. m + LP - 1 <= k
    BY <1>1, <2>1, <2>2
  <2>4. \A q \in 1..LP : m + q - 1 \in 1..k /\ i + q - 1 = n + (m + q - 1)
    BY <1>1, <2>1, <2>3
  <2>5. \A q \in 1..LP : r[m + q - 1] = Prompt[q]
    BY <2>2, <2>4
  <2>6. PromptAt(r, m)
    <3>1. m + LP - 1 <= Len(r) /\ r \in Seq(Byte) /\ m \in Nat \ {0}
      BY <1>1, <2>1, <2>3
    <3> HIDE DEF r
    <3> QED
      BY <2>5, <3>1, PromptAtBytes
  <2>7. ~(m \in 1..LB)
    BY <2>6 DEF BodiesClean
  <2>8. m = LB + 1
    <3> HIDE DEF LB, LP, r
    <3> QED
      BY <1>1, <2>1, <2>3, <2>7
  <2>9. k = LB + LP
    <3> HIDE DEF LB, LP, r
    <3> QED
      BY <1>1, <2>1, <2>3, <2>8
  <2>10. i = new
    BY <1>1, <2>1, <2>8
  <2> QED
    BY <2>9, <2>10
<1>7. ASSUME k = LB + LP
      PROVE  new \in Positions(s) /\ new \notin Positions(R) /\ Ended(s)
  <2>1. new \in Nat \ {0} /\ new + LP - 1 <= Len(s) /\ ~(new + LP - 1 <= n)
    BY <1>1, <1>7
  <2>2. \A q \in 1..LP : LB + q \in 1..k /\ new + q - 1 = n + (LB + q)
    BY <1>1, <1>7
  <2>3. \A q \in 1..LP : s[new + q - 1] = r[LB + q]
    BY <2>2
  <2>4. new \in Positions(s)
    BY <1>2, <2>1, <2>3, PositionsDef, ZenonT(30)
  <2>5. new \notin Positions(R)
    BY <1>3, <2>1
  <2>6. Len(s) - Len(Prompt) + 1 = new
    BY <1>1, <1>7
  <2> QED
    BY <2>4, <2>5, <2>6 DEF Ended
<1> HIDE DEF new, n, LB, LP
<1>8. Positions(R) \subseteq Positions(s)
  BY <1>3, <1>4
<1>9. ASSUME NEW i \in Positions(s)
      PROVE  i \in Positions(R) \/ (i = new /\ k = LB + LP)
  <2>1. CASE i + LP - 1 <= n
    BY <1>3, <1>4, <2>1
  <2>2. CASE ~(i + LP - 1 <= n)
    BY <1>5, <1>6, <2>2
  <2> QED
    BY <2>1, <2>2
<1>10. k < LB + LP => Positions(s) = Positions(R)
  <2> SUFFICES ASSUME k < LB + LP PROVE Positions(s) = Positions(R)
    OBVIOUS
  <2>1. ~(k = LB + LP)
    BY <1>1
  <2> QED
    BY <1>8, <1>9, <2>1
<1>11. k = LB + LP => /\ Positions(s) = Positions(R) \cup {new}
                      /\ new \notin Positions(R)
                      /\ Ended(s)
  BY <1>7, <1>8, <1>9
<1> QED
  BY <1>10, <1>11 DEF new, n, LB, LP

-----------------------------------------------------------------------------
(* The refinement.  What is between the caller and the emulator holds as many  *)
(* prompts as there are records outstanding, and while the process runs it     *)
(* ends with one.                                                              *)

Rest == buf \o pipe

CountInv ==
    /\ FrameInv
    /\ Cardinality(Positions(Rest)) = Len(records) - Len(bodies)
    /\ process = "running" => Ended(Rest)

LEMMA RestBytes ==
    ASSUME ByteInv
    PROVE  /\ Rest \in Seq(Byte) /\ buf \in Seq(Byte) /\ pipe \in Seq(Byte)
           /\ Len(Rest) = Len(buf) + Len(pipe)
           /\ \A i \in 1..Len(buf) : Rest[i] = buf[i]
           /\ \A i \in 1..Len(pipe) : Rest[Len(buf) + i] = pipe[i]
           /\ Len(buf) \in Nat /\ Len(pipe) \in Nat
<1>1. buf \in Seq(Byte) /\ pipe \in Seq(Byte) /\ Len(buf) \in Nat /\ Len(pipe) \in Nat
  BY LenProperties DEF ByteInv, TypeOK
<1> QED
  BY <1>1, ConcatProperties DEF Rest

LEMMA RestGrows ==
    ASSUME ByteInv, NEW bytes \in Seq(Byte), Emit(bytes), UNCHANGED buf
    PROVE  /\ Rest' \in Seq(Byte)
           /\ Len(Rest') = Len(Rest) + Len(bytes)
           /\ \A i \in 1..Len(Rest) : Rest'[i] = Rest[i]
           /\ \A i \in 1..Len(bytes) : Rest'[Len(Rest) + i] = bytes[i]
<1>1. /\ buf \in Seq(Byte) /\ pipe \in Seq(Byte) /\ Rest \in Seq(Byte)
      /\ Len(Rest) \in Nat /\ Len(bytes) \in Nat
  BY RestBytes, LenProperties
<1>2. Rest' = Rest \o bytes
  BY <1>1, ConcatBytes DEF Rest, Emit
<1> HIDE DEF Rest
<1> QED
  BY <1>1, <1>2, ConcatProperties

\* The first prompt in self._buf is the first of all that is left.
LEMMA FirstOfRest ==
    ASSUME ByteInv, HasPrompt(buf)
    PROVE  /\ FirstPrompt(buf) \in Positions(Rest)
           /\ \A j \in Positions(Rest) : FirstPrompt(buf) <= j
<1> DEFINE p == FirstPrompt(buf)
<1>1. /\ Rest \in Seq(Byte) /\ buf \in Seq(Byte) /\ Len(buf) <= Len(Rest)
      /\ \A i \in 1..Len(buf) : Rest[i] = buf[i]
      /\ Len(buf) \in Nat /\ Len(Prompt) \in Nat \ {0}
  BY RestBytes, PromptLen
<1>2. \A i \in Nat \ {0} : i \in Positions(buf) <=>
          i \in Positions(Rest) /\ i + Len(Prompt) - 1 <= Len(buf)
  BY <1>1, PositionsOfPrefix
<1>3. p \in Positions(buf) /\ \A j \in Positions(buf) : p <= j
  BY <1>1, FirstPromptIsFirst
<1>4. p \in Nat \ {0} /\ Positions(Rest) \subseteq Nat \ {0}
  BY <1>1, <1>3, PositionsFinite
<1> HIDE DEF p, Rest
<1>5. p \in Positions(Rest) /\ p + Len(Prompt) - 1 <= Len(buf)
  BY <1>2, <1>3, <1>4
<1>6. ASSUME NEW j \in Positions(Rest) PROVE p <= j
  <2> SUFFICES ASSUME j < p PROVE FALSE
    BY <1>4
  <2>1. j \in Nat \ {0} /\ j + Len(Prompt) - 1 <= Len(buf)
    BY <1>1, <1>4, <1>5
  <2>2. j \in Positions(buf)
    BY <1>2, <2>1
  <2> QED
    BY <1>3, <1>4, <2>1, <2>2
<1> QED
  BY <1>5, <1>6 DEF p

\* What is left after the split is what was left, without its first record.
LEMMA RestAfterSplit ==
    ASSUME ByteInv, Split
    PROVE  /\ Len(Rest) = FirstPrompt(buf) + Len(Prompt) - 1 + Len(Rest')
           /\ \A i \in 1..Len(Rest') :
                  Rest'[i] = Rest[FirstPrompt(buf) + Len(Prompt) - 1 + i]
           /\ Rest' \in Seq(Byte)
<1> DEFINE d == FirstPrompt(buf) + Len(Prompt) - 1
           record == Before(buf) \o Prompt
<1>1. HasPrompt(buf) /\ buf' = After(buf) /\ pipe' = pipe
  BY DEF Split
<1>2. /\ buf \in Seq(Byte) /\ pipe \in Seq(Byte) /\ Prompt \in Seq(Byte)
      /\ Len(Prompt) \in Nat
  BY RestBytes, PromptLen
<1>3. /\ Before(buf) \in Seq(Byte) /\ After(buf) \in Seq(Byte)
      /\ Len(Before(buf)) = FirstPrompt(buf) - 1
      /\ record \o After(buf) = buf
  BY <1>1, <1>2, PartitionWhole
<1>4. FirstPrompt(buf) \in Nat
  BY <1>1, <1>2, FirstPromptIsFirst, PositionsFinite
<1>5. record \in Seq(Byte) /\ Len(record) = d /\ d \in Nat
  <2>1. record \in Seq(Byte) /\ Len(record) = Len(Before(buf)) + Len(Prompt)
    BY <1>2, <1>3, ConcatProperties
  <2>2. Len(record) \in Nat
    BY <2>1, LenProperties
  <2> QED
    BY <1>2, <1>3, <1>4, <2>1, <2>2
<1> HIDE DEF d, record
<1>6. Rest' = After(buf) \o pipe /\ Rest' \in Seq(Byte)
  BY <1>1, <1>2, <1>3, ConcatProperties DEF Rest
<1>7. Rest = record \o Rest'
  <2>1. (record \o After(buf)) \o pipe = record \o (After(buf) \o pipe)
    BY <1>2, <1>3, <1>5, ConcatBytes, ZenonT(30)
  <2> QED
    BY <1>3, <1>6, <2>1 DEF Rest
<1> DEFINE after == Rest'
<1>8. after \in Seq(Byte) /\ Rest = record \o after
  BY <1>6, <1>7
<1> HIDE DEF after, Rest
<1>9. /\ Len(Rest) = d + Len(after)
      /\ \A i \in 1..Len(after) : after[i] = Rest[d + i]
  <2>1. /\ Len(record \o after) = Len(record) + Len(after)
        /\ \A i \in 1..(Len(record) + Len(after)) :
               (record \o after)[i] = IF i <= Len(record) THEN record[i]
                                      ELSE after[i - Len(record)]
    BY <1>5, <1>8, ConcatProperties, Zenon
  <2>2. Len(after) \in Nat
    BY <1>8, LenProperties
  <2>3. \A i \in 1..Len(after) :
            d + i \in 1..(d + Len(after)) /\ ~(d + i <= d) /\ (d + i) - d = i
    BY <1>5, <2>2
  <2> QED
    BY <1>5, <1>8, <2>1, <2>3
<1> QED
  BY <1>6, <1>9 DEF d, after

LEMMA EndedAfterSplit ==
    ASSUME PromptClean, ByteInv, Split, Ended(Rest)
    PROVE  Ended(Rest')
<1> DEFINE p == FirstPrompt(buf)
           d == p + Len(Prompt) - 1
           s == Rest
           u == Rest'
           e == Len(s) - Len(Prompt) + 1
<1>1. /\ s \in Seq(Byte) /\ u \in Seq(Byte) /\ Len(s) = d + Len(u)
      /\ \A i \in 1..Len(u) : u[i] = s[d + i]
  BY RestBytes, RestAfterSplit
<1>2. HasPrompt(buf)
  BY DEF Split
<1>3. p \in Positions(s) /\ \A j \in Positions(s) : p <= j
  BY <1>2, FirstOfRest
<1>4. e \in Positions(s)
  <2>1. s # <<>>
    BY <1>3 DEF Positions
  <2> QED
    BY <2>1 DEF Ended
<1> HIDE DEF s, u
<1>5. /\ p \in Nat \ {0} /\ e \in Nat \ {0} /\ Len(Prompt) \in Nat \ {0}
      /\ Len(u) \in Nat /\ Len(s) \in Nat /\ Prompt \in Seq(Byte) /\ d \in Nat
  BY <1>1, <1>3, <1>4, PositionsFinite, PromptLen, LenProperties
<1> HIDE DEF p
<1>6. CASE Len(u) = 0
  <2>1. u = <<>>
    BY <1>1, <1>6, EmptySeq
  <2> QED
    BY <2>1 DEF Ended, u
<1>7. CASE Len(u) # 0
  <2>1. p < e
    BY <1>1, <1>3, <1>4, <1>5, <1>7
  <2>2. p + Len(Prompt) <= e
    <3> HIDE DEF e
    <3> QED
      BY <1>1, <1>3, <1>4, <2>1, PromptsApart
  <2> DEFINE f == Len(u) - Len(Prompt) + 1
  <2>3. f \in Nat \ {0} /\ e = d + f /\ f + Len(Prompt) - 1 = Len(u)
    BY <1>1, <1>5, <2>2
  <2>4. \A q \in 1..Len(Prompt) : s[e + q - 1] = Prompt[q]
    <3> HIDE DEF e
    <3> QED
      BY <1>1, <1>4, <1>5, PositionsDef
  <2>5. \A q \in 1..Len(Prompt) : f + q - 1 \in 1..Len(u) /\ d + (f + q - 1) = e + q - 1
    BY <1>5, <2>3
  <2>6. \A q \in 1..Len(Prompt) : u[f + q - 1] = Prompt[q]
    BY <1>1, <2>4, <2>5
  <2>7. f \in Positions(u)
    <3> HIDE DEF f
    <3> QED
      BY <1>1, <1>5, <2>3, <2>6, PositionsDef
  <2> QED
    BY <2>7 DEF Ended, u
<1> QED
  BY <1>6, <1>7

LEMMA CountInit == Init => CountInv
<1> SUFFICES ASSUME Init PROVE CountInv
  OBVIOUS
<1>1. FrameInv
  BY FrameInit
<1>2. Rest = <<>>
  BY ConcatEmptySeq, EmptySeq DEF Init, Rest
<1>3. Positions(Rest) = {}
  BY <1>2 DEF Positions
<1>4. Len(records) - Len(bodies) = 0
  BY DEF Init
<1> QED
  BY <1>1, <1>2, <1>3, <1>4, FS_EmptySet DEF CountInv, Ended

LEMMA CountStep == PromptClean /\ BodiesClean /\ CountInv /\ [Next]_vars => CountInv'
<1> SUFFICES ASSUME PromptClean, BodiesClean, CountInv, [Next]_vars
             PROVE  CountInv'
  OBVIOUS
<1>1. FrameInv' /\ FrameInv /\ ByteInv /\ ByteInv'
  BY FrameStep DEF CountInv, FrameInv
<1>2. Rest \in Seq(Byte) /\ Rest' \in Seq(Byte)
  BY <1>1, ConcatProperties DEF ByteInv, TypeOK, Rest
<1>3. /\ Len(records) \in Nat /\ Len(bodies) \in Nat
      /\ Cardinality(Positions(Rest)) = Len(records) - Len(bodies)
      /\ IsFiniteSet(Positions(Rest))
  BY <1>1, <1>2, PositionsFinite, LenProperties DEF ByteInv, TypeOK, CountInv
<1>4. CASE UNCHANGED <<process, Rest, records, bodies>>
  BY <1>1, <1>4 DEF CountInv, Ended
<1>5. CASE WriteRecord
  <2>1. PICK body \in Bodies : Emit(body \o Prompt) /\ records' = Append(records, body)
    BY <1>5 DEF WriteRecord
  <2>2. process = "running" /\ UNCHANGED <<buf, process, bodies>>
    BY <1>5 DEF WriteRecord
  <2> DEFINE r == body \o Prompt
             k == Len(body) + Len(Prompt)
  <2>3. r \in Seq(Byte) /\ Len(r) = k /\ k \in Nat
    BY RecordBytes, LenProperties
  <2>4. /\ Len(Rest') = Len(Rest) + k
        /\ \A i \in 1..Len(Rest) : Rest'[i] = Rest[i]
        /\ \A i \in 1..k : Rest'[Len(Rest) + i] = r[i]
    <3>1. Emit(r)
      BY <2>1
    <3> HIDE DEF r, k
    <3> QED
      BY <1>1, <2>2, <2>3, <3>1, RestGrows
  <2>5. Ended(Rest)
    BY <2>2 DEF CountInv
  <2> DEFINE s == Rest'
             R == Rest
             new == Len(R) + Len(body) + 1
  <2>6. /\ Positions(s) = Positions(R) \cup {new}
        /\ new \notin Positions(R)
        /\ Ended(s)
    <3>1. k \in 0..(Len(body) + Len(Prompt)) /\ k = Len(body) + Len(Prompt)
      BY <2>3
    <3>2. /\ R \in Seq(Byte) /\ s \in Seq(Byte) /\ Ended(R) /\ Len(s) = Len(R) + k
          /\ \A i \in 1..Len(R) : s[i] = R[i]
          /\ \A i \in 1..k : s[Len(R) + i] = (body \o Prompt)[i]
      BY <1>2, <2>4, <2>5
    <3> HIDE DEF k, s, R
    <3> QED
      BY <3>1, <3>2, PromptsAdded
  <2>7. Cardinality(Positions(Rest')) = Cardinality(Positions(Rest)) + 1
    <3> HIDE DEF new
    <3> QED
      BY <1>3, <2>6, FS_AddElement
  <2>8. Len(records') = Len(records) + 1
    BY <1>1, <2>1, AppendProperties DEF FrameInv
  <2>9. Cardinality(Positions(Rest'))= Len(records') - Len(bodies')
    BY <1>3, <2>2, <2>7, <2>8
  <2> QED
    BY <1>1, <2>6, <2>9 DEF CountInv, Ended
<1>6. CASE Exit
  <2>1. process = "running" /\ process' = "exited" /\ UNCHANGED <<buf, records, bodies>>
    BY <1>6 DEF Exit
  <2>2. CASE UNCHANGED pipe
    BY <1>1, <2>1, <2>2 DEF CountInv, Rest
  <2>3. CASE \E body \in Bodies : \E k \in 1..(Len(body \o Prompt) - 1) :
                 Emit(SubSeq(body \o Prompt, 1, k))
    <3>1. PICK body \in Bodies : \E k \in 1..(Len(body \o Prompt) - 1) :
                  Emit(SubSeq(body \o Prompt, 1, k))
      BY <2>3
    <3>2. PICK k \in 1..(Len(body \o Prompt) - 1) : Emit(SubSeq(body \o Prompt, 1, k))
      BY <3>1
    <3> DEFINE r == body \o Prompt
               part == SubSeq(r, 1, k)
               s == Rest'
               R == Rest
    <3>3. /\ r \in Seq(Byte) /\ Len(r) = Len(body) + Len(Prompt) /\ Len(r) \in Nat
          /\ k \in 1..(Len(r) - 1) /\ Emit(part)
      BY <3>2, RecordBytes, LenProperties
    <3> HIDE DEF r
    <3>4. part \in Seq(Byte) /\ Len(part) = k /\ \A i \in 1..k : part[i] = r[i]
      BY <3>3, SubSeqInside
    <3> HIDE DEF part
    <3>5. /\ Len(s) = Len(R) + k
          /\ \A i \in 1..Len(R) : s[i] = R[i]
          /\ \A i \in 1..k : s[Len(R) + i] = r[i]
      BY <1>1, <2>1, <3>3, <3>4, RestGrows
    <3>6. R \in Seq(Byte) /\ s \in Seq(Byte) /\ Ended(R)
      BY <1>2, <2>1 DEF CountInv
    <3>7. k \in 0..(Len(body) + Len(Prompt)) /\ k < Len(body) + Len(Prompt)
      BY <3>3
    <3>8. Positions(s) = Positions(R)
      <4> HIDE DEF s, R
      <4>1. \A i \in 1..k : s[Len(R) + i] = (body \o Prompt)[i]
        BY <3>5 DEF r
      <4> QED
        BY <3>5, <3>6, <3>7, <4>1, PromptsAdded
    <3> QED
      BY <1>1, <1>3, <2>1, <3>8 DEF CountInv
  <2> QED
    BY <1>6, <2>2, <2>3 DEF Exit
<1>7. CASE Split
  <2>1. Cardinality(Positions(Rest')) = Cardinality(Positions(Rest)) - 1
    <3>1. HasPrompt(buf)
      BY <1>7 DEF Split
    <3> DEFINE s == Rest
               u == Rest'
               p == FirstPrompt(buf)
    <3>2. /\ s \in Seq(Byte) /\ u \in Seq(Byte)
          /\ p \in Positions(s) /\ \A j \in Positions(s) : p <= j
          /\ Len(s) = p + Len(Prompt) - 1 + Len(u)
          /\ \A i \in 1..Len(u) : u[i] = s[p + Len(Prompt) - 1 + i]
      BY <1>1, <1>2, <1>7, <3>1, FirstOfRest, RestAfterSplit
    <3> HIDE DEF s, u, p
    <3>3. Cardinality(Positions(u)) = Cardinality(Positions(s)) - 1
      BY <3>2, OneFewer
    <3> QED
      BY <3>3 DEF s, u
  <2>2. Len(bodies') = Len(bodies) + 1 /\ UNCHANGED <<process, records>>
    <3>1. Before(buf) \in Seq(Byte) /\ bodies \in Seq(Seq(Byte))
      BY <1>1, <1>7, PartitionWhole, RestBytes DEF Split, ByteInv, TypeOK
    <3> QED
      BY <1>7, <3>1, AppendProperties DEF Split
  <2>3. Cardinality(Positions(Rest')) = Len(records') - Len(bodies')
    BY <1>3, <2>1, <2>2
  <2>4. process' = "running" => Ended(Rest')
    BY <1>1, <1>7, <2>2, EndedAfterSplit DEF CountInv
  <2> QED
    BY <1>1, <2>3, <2>4 DEF CountInv, Ended
<1>8. CASE ReadSome
  <2>1. PICK k \in 1..Len(pipe) :
            /\ buf' = buf \o SubSeq(pipe, 1, k)
            /\ pipe' = SubSeq(pipe, k + 1, Len(pipe))
    BY <1>8 DEF ReadSome
  <2>2. Rest' = Rest
    BY <1>1, <2>1, RestBytes, PieceMoved DEF Rest
  <2> QED
    BY <1>4, <1>8, <2>2 DEF ReadSome
<1>9. CASE Begin \/ TimedOut \/ EndOfFile \/ UNCHANGED vars
  BY <1>4, <1>9 DEF Begin, TimedOut, EndOfFile, Fail, vars, Rest
<1> QED
  BY <1>5, <1>6, <1>7, <1>8, <1>9 DEF Next, Read

\* What has arrived is at most what is outstanding.
LEMMA ArrivedAtMost ==
    ASSUME CountInv
    PROVE  /\ Cardinality(Positions(buf)) \in Nat
           /\ Cardinality(Positions(buf)) <= Len(records) - Len(bodies)
           /\ Len(Outstanding) = Len(records) - Len(bodies)
           /\ records \in Seq(Seq(Byte)) /\ Len(records) \in Nat
           /\ Len(bodies) \in Nat /\ Len(bodies) <= Len(records)
<1>1. ByteInv /\ FrameInv
  BY DEF CountInv, FrameInv
<1>2. /\ Rest \in Seq(Byte) /\ buf \in Seq(Byte) /\ Len(buf) <= Len(Rest)
      /\ \A i \in 1..Len(buf) : Rest[i] = buf[i]
  BY <1>1, RestBytes
<1>3. Positions(buf) \subseteq Positions(Rest)
  <2> HIDE DEF Rest
  <2> QED
    BY <1>2, PositionsOfPrefix, PositionsFinite
<1>4. /\ Cardinality(Positions(buf)) \in Nat
      /\ Cardinality(Positions(buf)) <= Cardinality(Positions(Rest))
  BY <1>2, <1>3, PositionsFinite, FS_Subset
<1>5. /\ records \in Seq(Seq(Byte)) /\ Len(records) \in Nat
      /\ Len(bodies) \in Nat /\ Len(bodies) <= Len(records)
  BY <1>1, LenProperties DEF ByteInv, FrameInv, TypeOK, BodiesIntact
<1>6. Len(Outstanding) = Len(records) - Len(bodies)
  BY <1>5, SubSeqInside DEF Outstanding
<1> QED
  BY <1>4, <1>5, <1>6 DEF CountInv

\* Each step of bytes is a step of the queue, or none of its business.
LEMMA QueueStep ==
    PromptClean /\ BodiesClean /\ CountInv /\ CountInv' /\ [Next]_vars
        => [Queue!Next]_(Queue!vars)
<1> SUFFICES ASSUME PromptClean, BodiesClean, CountInv, CountInv', [Next]_vars
             PROVE  [Queue!Next]_(Queue!vars)
  OBVIOUS
<1> DEFINE k == Len(bodies)
           n == Len(records)
           arrived == Cardinality(Positions(buf))
<1>1. /\ arrived \in Nat /\ arrived <= n - k /\ Len(Outstanding) = n - k
      /\ records \in Seq(Seq(Byte)) /\ n \in Nat /\ k \in Nat /\ k <= n
      /\ buf \in Seq(Byte) /\ ByteInv
  BY ArrivedAtMost DEF CountInv, FrameInv, ByteInv, TypeOK
<1>2. CASE UNCHANGED <<buf, records, bodies>>
  BY <1>2 DEF Queue!vars, Outstanding
<1>3. CASE WriteRecord
  <2>1. PICK body \in Bodies : records' = Append(records, body)
    BY <1>3 DEF WriteRecord
  <2>2. UNCHANGED <<buf, bodies>>
    BY <1>3 DEF WriteRecord
  <2>3. /\ records' \in Seq(Seq(Byte)) /\ Len(records') = n + 1
        /\ \A i \in 1..n : records'[i] = records[i]
        /\ records'[n + 1] = body /\ body \in Seq(Byte)
    BY <1>1, <2>1, RecordBytes, AppendProperties
  <2> DEFINE old == Outstanding
             new == Outstanding'
  <2>4. /\ old \in Seq(Seq(Byte)) /\ Len(old) = n - k
        /\ \A i \in 1..(n - k) : old[i] = records[k + i]
    <3>1. /\ k + 1 \in Nat \ {0} /\ n \in 0..Len(records)
          /\ n - (k + 1) + 1 = n - k /\ \A i \in 1..(n - k) : (k + 1) + i - 1 = k + i
      BY <1>1
    <3> QED
      BY <1>1, <3>1, SubSeqInside DEF Outstanding
  <2>5. /\ new \in Seq(Seq(Byte)) /\ Len(new) = n - k + 1
        /\ \A i \in 1..(n - k + 1) : new[i] = records'[k + i]
    <3>1. /\ k + 1 \in Nat \ {0} /\ n + 1 \in 0..Len(records')
          /\ (n + 1) - (k + 1) + 1 = n - k + 1 /\ k + 1 <= n + 1
          /\ \A i \in 1..(n - k + 1) : (k + 1) + i - 1 = k + i
      BY <1>1, <2>3
    <3>2. new = SubSeq(records', k + 1, n + 1)
      BY <2>2, <2>3 DEF Outstanding
    <3> HIDE DEF k, n, new
    <3> QED
      BY <2>3, <3>1, <3>2, SubSeqInside, SMTT(30)
  <2> HIDE DEF old, new
  <2>6. new[Len(new)] = body
    <3>1. Len(new) \in 1..(n - k + 1) /\ k + Len(new) = n + 1
      BY <1>1, <2>5
    <3> QED
      BY <2>3, <2>5, <3>1
  <2>7. \A i \in 1..(n - k) : new[i] = old[i]
    <3>1. \A i \in 1..(n - k) : i \in 1..(n - k + 1) /\ k + i \in 1..n
      BY <1>1
    <3> QED
      BY <2>3, <2>4, <2>5, <3>1
  <2>8. new = Append(old, body)
    <3> DEFINE longer == Append(old, body)
    <3>1. /\ longer \in Seq(Seq(Byte)) /\ Len(longer) = n - k + 1
          /\ \A i \in 1..(n - k) : longer[i] = old[i]
          /\ longer[n - k + 1] = body
      BY <2>3, <2>4, AppendProperties
    <3>2. \A i \in 1..(n - k + 1) : i \in 1..(n - k) \/ i = n - k + 1
      <4> DEFINE c == n - k
      <4>1. c \in Nat
        BY <1>1
      <4> HIDE DEF c
      <4>2. \A i \in 1..(c + 1) : i \in 1..c \/ i = c + 1
        BY <4>1
      <4> QED
        BY <4>2 DEF c
    <3>3. \A i \in 1..(n - k + 1) : new[i] = longer[i]
      <4> HIDE DEF longer
      <4> QED
        BY <2>5, <2>6, <2>7, <3>1, <3>2
    <3> HIDE DEF longer
    <3>4. new = longer
      BY <2>5, <3>1, <3>3, SeqEqual
    <3> QED
      BY <3>4 DEF longer
  <2>9. new # <<>>
    <3>1. Len(new) # 0
      BY <1>1, <2>5
    <3> QED
      BY <3>1
  <2> QED
    BY <2>2, <2>6, <2>8, <2>9 DEF old, new, Queue!Next, Queue!Put
<1>4. CASE Split
  <2>1. /\ HasPrompt(buf) /\ buf' = After(buf)
        /\ bodies' = Append(bodies, Before(buf)) /\ records' = records
    BY <1>4 DEF Split
  <2>2. Before(buf) \in Seq(Byte) /\ After(buf) \in Seq(Byte) /\ bodies \in Seq(Seq(Byte))
    BY <1>1, <2>1, PartitionWhole DEF ByteInv, TypeOK
  <2>3. Len(bodies') = k + 1
    BY <2>1, <2>2, AppendProperties
  <2>4. k < n
    BY <2>1, NextRecord DEF CountInv
  <2>5. Outstanding' = Tail(Outstanding)
    <3>1. k + 1 \in 1..Len(records) /\ n \in (k + 1)..Len(records)
      BY <1>1, <2>4
    <3>2. Tail(SubSeq(records, k + 1, n)) = SubSeq(records, (k + 1) + 1, n)
      <4> HIDE DEF k, n
      <4> QED
        BY <1>1, <3>1, HeadTailOfSubSeq
    <3> QED
      BY <2>1, <2>3, <3>2 DEF Outstanding
  <2>6. Cardinality(Positions(buf')) = arrived - 1
    <3> DEFINE p == FirstPrompt(buf)
               u == After(buf)
    <3>1. p \in Positions(buf) /\ \A j \in Positions(buf) : p <= j
      BY <1>1, <2>1, FirstPromptIsFirst
    <3>2. /\ u \in Seq(Byte) /\ Len(buf) = p + Len(Prompt) - 1 + Len(u)
          /\ \A i \in 1..Len(u) : u[i] = buf[p + Len(Prompt) - 1 + i]
      <4>1. /\ p \in Nat \ {0} /\ Len(Prompt) \in Nat /\ Len(buf) \in Nat
            /\ p + Len(Prompt) - 1 <= Len(buf)
        BY <1>1, <3>1, PromptLen, PositionsFinite, PositionsDef, LenProperties
      <4> HIDE DEF p
      <4>2. u = SubSeq(buf, p + Len(Prompt), Len(buf))
        BY DEF After, p
      <4> HIDE DEF u
      <4>3. /\ p + Len(Prompt) \in Nat \ {0} /\ Len(buf) \in 0..Len(buf)
        BY <4>1
      <4>4. /\ u \in Seq(Byte)
            /\ Len(u) = IF p + Len(Prompt) <= Len(buf)
                        THEN Len(buf) - (p + Len(Prompt)) + 1 ELSE 0
            /\ \A i \in 1..(Len(buf) - (p + Len(Prompt)) + 1) :
                   u[i] = buf[p + Len(Prompt) + i - 1]
        BY <1>1, <4>2, <4>3, SubSeqInside, SMTT(30)
      <4> DEFINE size == Len(buf)
                 next == p + Len(Prompt)
      <4>5. next \in Nat /\ size \in Nat /\ next <= size + 1 /\ p + Len(Prompt) - 1 = next - 1
        BY <4>1
      <4>6. Len(u) = IF next <= size THEN size - next + 1 ELSE 0
        BY <4>4
      <4> HIDE DEF size, next
      <4>7. Len(u) = size - next + 1 /\ size = next - 1 + Len(u)
        BY <4>5, <4>6
      <4>8. \A i \in 1..Len(u) : next + i - 1 = next - 1 + i
        BY <4>5, <4>7
      <4>9. \A i \in 1..(size - next + 1) : u[i] = buf[next + i - 1]
        BY <4>4 DEF size, next
      <4> QED
        BY <4>4, <4>5, <4>7, <4>8, <4>9 DEF size
    <3> HIDE DEF p, u
    <3>3. Cardinality(Positions(u)) = Cardinality(Positions(buf)) - 1
      BY <1>1, <3>1, <3>2, OneFewer
    <3> QED
      BY <2>1, <3>3 DEF u
  <2>7. arrived > 0
    BY <1>1, <2>1, PositionsFinite, FS_EmptySet DEF HasPrompt
  <2> QED
    BY <2>5, <2>6, <2>7 DEF Queue!Next, Queue!Take
<1>5. CASE ReadSome
  <2>1. PICK m \in 1..Len(pipe) : buf' = buf \o SubSeq(pipe, 1, m)
    BY <1>5 DEF ReadSome
  <2>2. UNCHANGED <<records, bodies>> /\ UNCHANGED Outstanding
    BY <1>5 DEF ReadSome, Outstanding
  <2> DEFINE more == SubSeq(pipe, 1, m)
  <2>3. more \in Seq(Byte)
    BY <1>1, <2>1, PieceMoved, RestBytes
  <2> HIDE DEF more
  <2>4. /\ buf' \in Seq(Byte) /\ Len(buf) <= Len(buf')
        /\ \A i \in 1..Len(buf) : buf'[i] = buf[i]
    <3>1. buf' = buf \o more /\ Len(buf) \in Nat /\ Len(more) \in Nat
      BY <1>1, <2>1, <2>3, LenProperties DEF more
    <3> QED
      BY <1>1, <2>3, <3>1, ConcatProperties
  <2>5. Positions(buf) \subseteq Positions(buf')
    BY <1>1, <2>4, PositionsOfPrefix, PositionsFinite
  <2>6. arrived <= Cardinality(Positions(buf'))
    BY <2>4, <2>5, PositionsFinite, FS_Subset
  <2>7. Cardinality(Positions(buf')) \in Nat
    BY <2>4, PositionsFinite
  <2>8. Cardinality(Positions(buf')) <= n - k
    <3>1. /\ Rest' \in Seq(Byte) /\ Rest' = buf' \o pipe' /\ pipe' \in Seq(Byte)
          /\ Cardinality(Positions(Rest')) = n - k
      BY <2>2, ConcatProperties DEF CountInv, FrameInv, ByteInv, TypeOK, Rest
    <3> DEFINE b == buf'
               q == pipe'
               all == Rest'
    <3>2. /\ b \in Seq(Byte) /\ all \in Seq(Byte) /\ q \in Seq(Byte) /\ all = b \o q
          /\ Len(b) \in Nat /\ Len(q) \in Nat
      BY <2>4, <3>1, LenProperties
    <3> HIDE DEF b, q, all
    <3>3. Len(b) <= Len(all) /\ \A i \in 1..Len(b) : all[i] = b[i]
      BY <3>2, ConcatProperties
    <3>4. Positions(b) \subseteq Positions(all)
      BY <3>2, <3>3, PositionsOfPrefix, PositionsFinite
    <3>5. Cardinality(Positions(b)) <= Cardinality(Positions(all))
      BY <3>2, <3>4, PositionsFinite, FS_Subset
    <3> QED
      BY <3>1, <3>5 DEF b, all
  <2>9. Cardinality(Positions(buf')) \in arrived..Len(Outstanding)
    BY <1>1, <2>6, <2>7, <2>8
  <2> QED
    BY <2>2, <2>9 DEF Queue!Next, Queue!Arrive
<1>6. CASE Begin \/ Exit \/ TimedOut \/ EndOfFile \/ UNCHANGED vars
  BY <1>2, <1>6 DEF Begin, Exit, TimedOut, EndOfFile, Fail, vars
<1> QED
  BY <1>3, <1>4, <1>5, <1>6 DEF Next, Read

\* Reads that cut the stream anywhere, prompts and timeouts together implement a
\* queue of records: a record is put, arrives with others or alone, and is taken
\* once, first in first out (_readUntilPrompt, transport.py).
THEOREM ReadsAreAQueue ==
    ASSUME BodiesClean, PromptClean
    PROVE  Spec => ImplementsQueue
<1>1. Init => CountInv
  BY CountInit
<1>2. CountInv /\ [Next]_vars => CountInv'
  BY CountStep
<1>3. Init => Queue!Init
  <2> SUFFICES ASSUME Init PROVE Queue!Init
    OBVIOUS
  <2>1. Outstanding = <<>>
    BY DEF Init, Outstanding
  <2>2. Positions(buf) = {}
    BY DEF Init, Positions
  <2> QED
    BY <2>1, <2>2, FS_EmptySet DEF Queue!Init
<1>4. CountInv /\ CountInv' /\ [Next]_vars => [Queue!Next]_(Queue!vars)
  BY QueueStep
<1> QED
  BY <1>1, <1>2, <1>3, <1>4, PTL DEF Spec, ImplementsQueue, Queue!Spec
=============================================================================
