------------------------------- MODULE Memory -------------------------------
(***************************************************************************)
(* x16dbg.commands.memory.MemoryCommands on top of the transport.  A write *)
(* is one wmm line per chunk, each with a reply of its own, so it can fail *)
(* between two chunks; a fill and a read are one line each.  The CPU is    *)
(* taken to be stopped: nothing else changes the memory.                   *)
(***************************************************************************)
EXTENDS Integers, Sequences

CONSTANTS
    ChunkSize,    \* _WMM_MAX_BYTES
    LineCap,      \* bytes of a wmm line the emulator stores, silently dropping the rest
    MaxAddr,      \* the last address
    Ranges,       \* bound: the <<address, length>> of the writes and fills
    MaxCommands, MaxStream

ASSUME ChunkAssumption ==
    /\ ChunkSize \in Nat \ {0} /\ LineCap \in Nat /\ ChunkSize <= LineCap
    /\ MaxAddr \in Nat /\ MaxCommands \in Nat /\ MaxStream \in Nat
    /\ \A r \in Ranges : r[1] \in 0..MaxAddr /\ r[2] \in 0..(MaxAddr - r[1] + 1)

VARIABLES
    sent, answered, emitted, stream, buffered, process, pc, until, collected,
    outcome, taken, abandoned, stray, delivered, dropped,   \* Transport
    lines,    \* the command lines sent and not yet executed
    ram,      \* the emulator's memory
    seen,     \* history: the memory as each command found it
    job,      \* the last method called, in progress or over
    before,   \* history: the memory when it was called
    clean     \* history: no command had timed out then

transportVars == <<sent, answered, emitted, stream, buffered, process, pc, until, collected,
                   outcome, taken, abandoned, stray, delivered, dropped>>
vars == <<transportVars, lines, ram, seen, job, before, clean>>

\* No events: the CPU is stopped.  (Bare prompts may still come.)
T == INSTANCE Transport WITH EventKind <- {}, MaxEvents <- 0

-----------------------------------------------------------------------------
Address == 0..MaxAddr

\* Bytes stored from an address on.
Poke(memory, addr, bytes) ==
    [a \in DOMAIN memory |->
        IF a - addr + 1 \in DOMAIN bytes THEN bytes[a - addr + 1] ELSE memory[a]]

Smaller(a, b) == IF a <= b THEN a ELSE b

\* The bytes of a call; those of different calls differ, so that it shows where each
\* byte of the memory comes from.
Bytes(n) == [i \in 1..n |-> 100 * (sent + 1) + i]

NoJob == [op |-> "none", state |-> "over", addr |-> 0, data |-> <<>>, offset |-> 0,
          result |-> "none", read |-> <<>>]

-----------------------------------------------------------------------------
(* The methods. *)

Transmit(line) == T!Send("loop", {}) /\ lines' = Append(lines, line)

Start(op, addr, data) ==
    /\ pc = "idle" /\ job.state = "over"
    /\ job' = [op |-> op, state |-> "open", addr |-> addr, data |-> data, offset |-> 0,
               result |-> "none", read |-> <<>>]
    /\ before' = ram
    /\ clean' = (abandoned = 0)

\* list(values); the loop over range(0, len(data), _WMM_MAX_BYTES) is in NextChunk.
WriteMemory ==
    \E range \in Ranges :
        /\ Start("write", range[1], Bytes(range[2]))
        /\ UNCHANGED <<transportVars, lines, ram, seen>>

Fill ==
    \E range \in Ranges :
        /\ Start("fill", range[1], [i \in 1..range[2] |-> 100 * (sent + 1)])
        /\ UNCHANGED <<transportVars, lines, ram, seen>>

\* readMemory, or find, which looks at the same bytes.
Read ==
    /\ Start("read", 0, <<>>)
    /\ UNCHANGED <<transportVars, lines, ram, seen>>

Ready == pc = "idle" /\ job.state = "open"

\* Mutants of NextChunk: a chunk is one byte longer than a wmm line may be; the
\* offset runs past the end.
NextChunkTooLong ==
    LET to == Smaller(job.offset + ChunkSize + 1, Len(job.data))
    IN  /\ Ready /\ job.op = "write" /\ job.offset < Len(job.data)
        /\ Transmit([op |-> "wmm", addr |-> job.addr + job.offset,
                     bytes |-> SubSeq(job.data, job.offset + 1, to)])
        /\ job' = [job EXCEPT !.offset = to]
        /\ UNCHANGED <<ram, seen, before, clean>>

NextChunkPastEnd ==
    LET to == Smaller(job.offset + ChunkSize, Len(job.data))
    IN  /\ Ready /\ job.op = "write" /\ job.offset < Len(job.data)
        /\ Transmit([op |-> "wmm", addr |-> job.addr + job.offset,
                     bytes |-> SubSeq(job.data, job.offset + 1, to)])
        /\ job' = [job EXCEPT !.offset = @ + ChunkSize]
        /\ UNCHANGED <<ram, seen, before, clean>>

\* The next turn of writeMemory's loop.
NextChunk ==
    LET to == Smaller(job.offset + ChunkSize, Len(job.data))
    IN  /\ Ready /\ job.op = "write" /\ job.offset < Len(job.data)
        /\ Transmit([op |-> "wmm", addr |-> job.addr + job.offset,
                     bytes |-> SubSeq(job.data, job.offset + 1, to)])
        /\ job' = [job EXCEPT !.offset = to]
        /\ UNCHANGED <<ram, seen, before, clean>>

\* The one line of fill, readMemory and find.
OnlyLine ==
    /\ Ready /\ job.op \in {"fill", "read"}
    /\ Transmit([op |-> job.op, addr |-> job.addr, bytes |-> job.data])
    /\ job' = [job EXCEPT !.offset = Len(job.data)]
    /\ UNCHANGED <<ram, seen, before, clean>>

\* The loop is over, or had no turn at all.
LoopEnds ==
    /\ Ready /\ job.op = "write" /\ job.offset = Len(job.data)
    /\ job' = [job EXCEPT !.state = "over", !.result = "done"]
    /\ UNCHANGED <<transportVars, lines, ram, seen, before, clean>>

LineFails ==
    /\ Ready /\ ~(job.op = "write" /\ job.offset = Len(job.data))
    /\ T!SendFails
    /\ job' = [job EXCEPT !.state = "over", !.result = "raised"]
    /\ UNCHANGED <<lines, ram, seen, before, clean>>

\* What the reply to a read holds: the memory as the command it answers found it.
DataOf(command) == IF command \in DOMAIN seen THEN seen[command] ELSE <<>>

\* A call of the transport ends: an error ends the method, a reply ends all but a write.
CallEnds ==
    /\ pc' = "idle"
    /\ job' = IF outcome'.kind \in T!Raises
              THEN [job EXCEPT !.state = "over", !.result = "raised"]
              ELSE IF job.op = "write" THEN job
              ELSE [job EXCEPT !.state = "over", !.result = "done",
                               !.read = IF job.op = "read" THEN DataOf(outcome'.answers)
                                                           ELSE <<>>]

\* Mutant of CallEnds: a refused chunk does not end the write.
CallEndsTolerant ==
    /\ pc' = "idle"
    /\ job' = IF outcome'.kind \in T!Raises /\ job.op # "write"
              THEN [job EXCEPT !.state = "over", !.result = "raised"]
              ELSE IF job.op = "write" THEN job
              ELSE [job EXCEPT !.state = "over", !.result = "done",
                               !.read = IF job.op = "read" THEN DataOf(outcome'.answers)
                                                           ELSE <<>>]

Advance ==
    /\ T!Progress
    /\ CallEnds \/ (pc' # "idle" /\ UNCHANGED job)
    /\ UNCHANGED <<lines, ram, seen, before, clean>>

-----------------------------------------------------------------------------
(* The emulator (external). *)

Stored(line) ==
    CASE line.op = "wmm"  -> SubSeq(line.bytes, 1, Smaller(LineCap, Len(line.bytes)))
      [] line.op = "fill" -> line.bytes
      [] OTHER            -> <<>>

\* A line is obeyed, or refused and then stores nothing.
Execute ==
    /\ answered < sent
    /\ \E terminator \in {"RDY", "ERR"} :
           /\ T!Write(terminator, answered + 1, <<>>)
           /\ ram' = IF terminator = "RDY"
                     THEN Poke(ram, Head(lines).addr, Stored(Head(lines)))
                     ELSE ram
    /\ seen' = Append(seen, ram)
    /\ answered' = answered + 1
    /\ lines' = Tail(lines)
    /\ UNCHANGED <<emitted, job, before, clean>>

BarePrompt == T!Announce /\ UNCHANGED <<lines, ram, seen, job, before, clean>>

Exit == T!Exit /\ UNCHANGED <<lines, ram, seen, job, before, clean>>

-----------------------------------------------------------------------------
Init ==
    /\ T!Init
    /\ lines = <<>> /\ seen = <<>>
    /\ ram = [a \in Address |-> 0]
    /\ job = NoJob /\ before = ram /\ clean = TRUE

Next ==
    \/ WriteMemory \/ Fill \/ Read
    \/ NextChunk \/ OnlyLine \/ LoopEnds \/ LineFails \/ Advance
    \/ Execute \/ BarePrompt \/ Exit

Spec == Init /\ [][Next]_vars

-----------------------------------------------------------------------------
(* Properties. *)

Memories == [Address -> Nat]

\* Types; a line is waiting for every command not answered, and the offset stays
\* within the bytes of the call.
TypeOK ==
    /\ T!TypeOK
    /\ lines \in Seq([op : {"wmm", "fill", "read"}, addr : Address, bytes : Seq(Nat)])
    /\ Len(lines) = sent - answered /\ Len(seen) = answered
    /\ ram \in Memories /\ before \in Memories /\ seen \in Seq(Memories)
    /\ job \in [op : {"none", "write", "fill", "read"}, state : {"open", "over"},
                addr : Address, data : Seq(Nat), offset : Nat,
                result : {"none", "done", "raised"}, read : Memories \cup {<<>>}]
    /\ job.offset <= Len(job.data)
    /\ clean \in BOOLEAN

Boundary(k) == k % ChunkSize = 0 \/ k = Len(job.data)

Holds(k) == ram = Poke(before, job.addr, SubSeq(job.data, 1, k))

\* At every moment of a write that began with no reply outstanding, and after it,
\* returned or raised, the memory holds the first chunks of the bytes, each whole,
\* and is otherwise as it was; all of them once writeMemory has returned.
WholeChunks ==
    job.op = "write" /\ clean =>
        /\ \E k \in 0..Len(job.data) : Boundary(k) /\ Holds(k)
        /\ job.result = "done" => Holds(Len(job.data))

\* What is read is what the memory holds, so every write that returned before is in
\* it, as long as no command has timed out.
ReadsAreCurrent ==
    job.op = "read" /\ job.result = "done" /\ abandoned = 0 => job.read = ram
=============================================================================
