---------------------------- MODULE RecordQueue ----------------------------
(***************************************************************************)
(* What the reading side of x16dbg.transport.Transport sees of the         *)
(* emulator's stdout: a queue of records.  Records are put at the end by   *)
(* the emulator, arrive in the reader's memory in that order, any number   *)
(* at a time, and are taken from the front once they have arrived.         *)
(***************************************************************************)
EXTENDS Naturals, Sequences

VARIABLES
    queue,     \* the records written and not yet taken, oldest first
    buffered   \* how many of them have arrived

vars == <<queue, buffered>>

Init == queue = <<>> /\ buffered = 0

Put ==
    /\ queue' # <<>>
    /\ queue' = Append(queue, queue'[Len(queue')])
    /\ UNCHANGED buffered

Arrive == buffered' \in buffered..Len(queue) /\ UNCHANGED queue

Take == buffered > 0 /\ queue' = Tail(queue) /\ buffered' = buffered - 1

Next == Put \/ Arrive \/ Take

Spec == Init /\ [][Next]_vars
=============================================================================
