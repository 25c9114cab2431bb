--------------------------- MODULE CommandService ---------------------------
(***************************************************************************)
(* What the caller of x16dbg.transport.Transport can rely on, with no      *)
(* pipes, buffers or emulator in sight.  Replies come back in the order    *)
(* the commands went out, each at most once, each to one call; a call      *)
(* either has the oldest reply not yet handed out or it raises; a call     *)
(* that gives up leaves its reply to the next one.  Events come in the     *)
(* order they happened, and one call never sees again what an earlier one  *)
(* saw or lost.  What it does NOT promise is that a reply is the reply to  *)
(* the command just sent: that is so only while no call has given up.      *)
(***************************************************************************)
EXTENDS Integers

CONSTANTS EventKind

VARIABLES
    sent,     \* commands sent
    handed,   \* replies handed out, to whichever call
    past,     \* numbers of the events finished calls have returned or lost
    busy,     \* the call in progress
    outcome   \* what the last finished call returned or raised

vars == <<sent, handed, past, busy, outcome>>

Event == [n : Nat \ {0}, kind : EventKind]

Init ==
    /\ sent = 0 /\ handed = 0 /\ past = {} /\ busy = "idle"
    /\ outcome = [kind |-> "none", command |-> 0, answers |-> 0, events |-> {}]

Call(call) ==
    /\ busy = "idle"
    /\ busy' = call
    /\ sent' = sent + (IF call = "wait" THEN 0 ELSE 1)
    /\ UNCHANGED <<handed, past, outcome>>

\* The call in progress is over; what it saw of the events is now past.
Finish ==
    /\ busy' = "idle"
    /\ past \subseteq past'
    /\ \A e \in past' \ past, p \in past : p < e
    /\ UNCHANGED sent

\* A call that returns, returns every event it saw.
Returned(kind, answers) ==
    /\ Finish
    /\ outcome' \in [kind : {kind}, command : {sent}, answers : {answers},
                     events : SUBSET Event]
    /\ {e.n : e \in outcome'.events} = past' \ past

Raised(errors) ==
    /\ Finish
    /\ outcome' \in [kind : errors, command : {sent}, answers : {0}, events : {{}}]

HandNext == handed < sent /\ handed' = handed + 1

Reply ==
    /\ busy = "loop"
    /\ HandNext
    /\ Returned("reply", handed + 1)

Refuse ==
    /\ busy \in {"loop", "resumeLoop"}
    /\ HandNext
    /\ Raised({"X16dbgError"})

ResumeReply ==
    /\ busy = "resumeLoop"
    /\ HandNext
    /\ Returned("events", handed + 1)

\* A resume whose reply held no awaited event goes on to wait for one.
ResumeWaits ==
    /\ busy = "resumeLoop"
    /\ HandNext
    /\ busy' = "resumeWait"
    /\ UNCHANGED <<sent, past, outcome>>

\* A wait may meet a reply that an earlier call left behind.
Observe ==
    /\ busy \in {"wait", "resumeWait"}
    /\ LET kind == IF busy = "wait" THEN "prompt" ELSE "events"
       IN  \/ HandNext /\ Returned(kind, handed + 1)
           \/ UNCHANGED handed /\ Returned(kind, 0)

GiveUp ==
    /\ UNCHANGED handed
    /\ \/ busy = "idle" /\ Raised({"BrokenPipeError"})
       \/ busy # "idle" /\ Raised({"TimeoutError", "EOFError"})

Next ==
    \/ \E call \in {"loop", "resumeLoop", "wait"} : Call(call)
    \/ Reply \/ Refuse \/ ResumeReply \/ ResumeWaits \/ Observe \/ GiveUp

Spec == Init /\ [][Next]_vars
=============================================================================
