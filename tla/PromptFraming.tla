--------------------------- MODULE PromptFraming ---------------------------
(***************************************************************************)
(* Transport._readUntilPrompt: how a byte stream that arrives in arbitrary *)
(* pieces becomes the records the rest of the transport works on.  The     *)
(* emulator writes bodies, each followed by the prompt, which has no       *)
(* newline and may be cut anywhere by a read.  The reader appends what     *)
(* os.read gives it to self._buf, searches the whole of it for the prompt, *)
(* returns the text before the first one and keeps the rest.               *)
(***************************************************************************)
EXTENDS Integers, Sequences, FiniteSets

CONSTANTS
    Byte,        \* the bytes, or the runs of bytes, that matter here
    Prompt,      \* _PROMPT, as a sequence of them
    Bodies,      \* the bodies the emulator may write
    ReadSize,    \* the most one os.read returns
    MaxRecords   \* bound: records written

ASSUME FramingAssumption ==
    /\ Prompt \in Seq(Byte) /\ Prompt # <<>>
    /\ Bodies \subseteq Seq(Byte)
    /\ ReadSize \in Nat \ {0}
    /\ MaxRecords \in Nat

VARIABLES
    pipe,       \* bytes in the stdout pipe
    buf,        \* self._buf
    process,    \* "running" or "exited"
    reader,     \* "idle", or "reading" while in _readUntilPrompt
    result,     \* how the last _readUntilPrompt ended
    written,    \* history: every byte the emulator wrote
    consumed,   \* history: every byte that has left self._buf, prompts included
    records,    \* history: the bodies written, whole
    bodies      \* history: the bodies returned

vars == <<pipe, buf, process, reader, result, written, consumed, records, bodies>>

-----------------------------------------------------------------------------
(* bytes.partition(_PROMPT) and the test _PROMPT in self._buf. *)

PromptAt(s, i) ==
    /\ i + Len(Prompt) - 1 <= Len(s)
    /\ SubSeq(s, i, i + Len(Prompt) - 1) = Prompt

Positions(s) == {i \in 1..Len(s) : PromptAt(s, i)}

HasPrompt(s) == Positions(s) # {}

\* Mutant of FirstPrompt: rpartition for partition.
LastPrompt(s) == CHOOSE i \in Positions(s) : \A j \in Positions(s) : j <= i

FirstPrompt(s) == CHOOSE i \in Positions(s) : \A j \in Positions(s) : i <= j

\* Mutant of After: the bytes past the prompt are not kept for the next read.
NothingAfter(s) == <<>>

Before(s) == SubSeq(s, 1, FirstPrompt(s) - 1)
After(s)  == SubSeq(s, FirstPrompt(s) + Len(Prompt), Len(s))

-----------------------------------------------------------------------------
(* The emulator (external). *)

Emit(bytes) ==
    /\ pipe' = pipe \o bytes
    /\ written' = written \o bytes

WriteRecord ==
    /\ process = "running" /\ Len(records) < MaxRecords
    /\ \E body \in Bodies :
           /\ Emit(body \o Prompt)
           /\ records' = Append(records, body)
    /\ UNCHANGED <<buf, process, reader, result, consumed, bodies>>

\* The process ends, perhaps in the middle of a record.
Exit ==
    /\ process = "running"
    /\ process' = "exited"
    /\ \/ UNCHANGED <<pipe, written>>
       \/ \E body \in Bodies : \E k \in 1..(Len(body \o Prompt) - 1) :
              Emit(SubSeq(body \o Prompt, 1, k))
    /\ UNCHANGED <<buf, reader, result, consumed, records, bodies>>

-----------------------------------------------------------------------------
(* The reader. *)

Begin ==
    /\ reader = "idle"
    /\ reader' = "reading"
    /\ UNCHANGED <<pipe, buf, process, result, written, consumed, records, bodies>>

\* One turn of the loop: some of the pipe is moved to self._buf.
ReadSome ==
    /\ reader = "reading" /\ ~HasPrompt(buf)
    /\ \E k \in 1..Len(pipe) :
           /\ k <= ReadSize
           /\ buf' = buf \o SubSeq(pipe, 1, k)
           /\ pipe' = SubSeq(pipe, k + 1, Len(pipe))
    /\ UNCHANGED <<process, reader, result, written, consumed, records, bodies>>

\* The loop is over: partition at the first prompt and keep the tail.
Split ==
    /\ reader = "reading" /\ HasPrompt(buf)
    /\ reader' = "idle"
    /\ result' = "body"
    /\ bodies' = Append(bodies, Before(buf))
    /\ consumed' = consumed \o Before(buf) \o Prompt
    /\ buf' = After(buf)
    /\ UNCHANGED <<pipe, process, written, records>>

\* Mutant of Fail: a failed read forgets the part of a record it has.
FailForgets(error) ==
    /\ reader = "reading" /\ ~HasPrompt(buf)
    /\ reader' = "idle"
    /\ result' = error
    /\ buf' = <<>>
    /\ UNCHANGED <<pipe, process, written, consumed, records, bodies>>

Fail(error) ==
    /\ reader = "reading" /\ ~HasPrompt(buf)
    /\ reader' = "idle"
    /\ result' = error
    /\ UNCHANGED <<pipe, buf, process, written, consumed, records, bodies>>

\* Mutant of TimedOut: a blocking read, so the deadline is seen only with data there.
TimedOutWithData == pipe # <<>> /\ Fail("TimeoutError")

\* remaining <= 0 is tested before the pipe is looked at.
TimedOut == Fail("TimeoutError")

\* Mutant of EndOfFile: the closed pipe surfaces as the error of the read call.
EndOfFileAsOSError == pipe = <<>> /\ process = "exited" /\ Fail("OSError")

EndOfFile == pipe = <<>> /\ process = "exited" /\ Fail("EOFError")

Read == ReadSome \/ Split \/ TimedOut \/ EndOfFile

Init ==
    /\ pipe = <<>> /\ buf = <<>> /\ process = "running"
    /\ reader = "idle" /\ result = "none"
    /\ written = <<>> /\ consumed = <<>> /\ records = <<>> /\ bodies = <<>>

Next == WriteRecord \/ Exit \/ Begin \/ Read

Spec == Init /\ [][Next]_vars

\* The reader's loop keeps turning until it returns or raises.
FairSpec == Spec /\ WF_vars(Read)

-----------------------------------------------------------------------------
(* Properties. *)

\* Types; the only errors of a read are TimeoutError and EOFError.
TypeOK ==
    /\ pipe \in Seq(Byte) /\ buf \in Seq(Byte)
    /\ process \in {"running", "exited"}
    /\ reader \in {"idle", "reading"}
    /\ result \in {"none", "body", "TimeoutError", "EOFError"}
    /\ written \in Seq(Byte) /\ consumed \in Seq(Byte)
    /\ records \in Seq(Seq(Byte)) /\ bodies \in Seq(Seq(Byte))

\* No byte is lost, doubled or reordered between the emulator and the caller,
\* over any mixture of split reads, timeouts and retries: what was consumed, then
\* self._buf, then the pipe, is what was written (self._buf survives a timeout).
BytesConserved == written = consumed \o buf \o pipe

\* The bodies returned are the bodies written, in order, none cut and none merged
\* with its neighbour, wherever the reads fell (transport.py _readUntilPrompt).
BodiesIntact ==
    /\ Len(bodies) <= Len(records)
    /\ \A i \in DOMAIN bodies : bodies[i] = records[i]

\* The records written and not returned, and how many of them are whole in _buf.
Outstanding == SubSeq(records, Len(bodies) + 1, Len(records))

Queue == INSTANCE RecordQueue
             WITH queue <- Outstanding, buffered <- Cardinality(Positions(buf))

\* Bytes, reads and prompts implement a queue of records.
ImplementsQueue == Queue!Spec

\* A read comes to an end: at worst its deadline passes.
ReadEnds == (reader = "reading") ~> (reader = "idle")
=============================================================================
