--------------------------- MODULE SessionsProofs ---------------------------
(* Theorems about Sessions, for every set of session ids and any number of
   clients. *)
EXTENDS Sessions, TLAPS

Closing == phase \in {"quit", "wait", "kill"}

\* The client held is one that is started, or has failed to start, for no session yet.
Making == phase = "handshake" \/ (Closing /\ after = "raise")

Reaped(c) == proc[c] = "reaped"

\* Exactly the clients that were launched have had a process, and only these are known;
\* only an id that was given out has one.
LaunchedOnly ==
    /\ \A c \in Client : proc[c] = "unborn" <=> launched < c
    /\ \A id \in SessionId : sessions[id] # None => sessions[id] <= launched
    /\ held # None => held <= launched
    /\ \A id \in SessionId : sessions[id] # None => id \in issued

\* No two sessions have the same client.
Distinct ==
    \A i, j \in SessionId : sessions[i] # None /\ sessions[i] = sessions[j] => i = j

\* What the tool in progress works on: a session whose old emulator is gone while a new
\* one is made, a session's own client while it is closed, or a client of no session.
ToolInv ==
    /\ phase = "idle" => session = None
    /\ (phase = "discover" \/ Making) /\ session # None =>
           sessions[session] # None /\ Reaped(sessions[session])
    /\ Making => held # None /\ held \notin Registered
    /\ phase = "handshake" => after = "none"
    /\ Closing /\ after \in {"forget", "respawn"} =>
           session # None /\ sessions[session] = held

\* How far the end of the server has come, and what it has closed so far.
ServerInv ==
    /\ server = "down" <=> phase = "over"
    /\ server = "stopping" <=> phase = "shutdown" \/ (Closing /\ after = "next")
    /\ Closing /\ after = "next" => held \in pending
    /\ server = "stopping" =>
           /\ pending \subseteq Registered
           /\ \A c \in Registered \ pending : Reaped(c) \/ c \in failed
    /\ interrupted => server = "down"

\* NoOrphan, without its premise: the server that is interrupted keeps its registry.
Owned == \A c \in Client : Unreaped(c) => c \in Registered \cup {held} \cup failed

IInv ==
    /\ TypeOK /\ LaunchedOnly /\ Distinct /\ ToolInv /\ ServerInv /\ Owned
    /\ ShutdownLeavesNone

-----------------------------------------------------------------------------
(* The inductive invariant. *)

LEMMA InvInit == Init => IInv
<1> SUFFICES ASSUME Init PROVE IInv
    OBVIOUS
<1> USE SessionsAssumption DEF Init, Client
<1>1. TypeOK
    <2>1. sessions \in [SessionId -> Client \cup {None}] /\ proc \in [Client -> ProcState]
        BY DEF ProcState
    <2>2. launched \in 0..MaxClients
        OBVIOUS
    <2>3. interrupted \in BOOLEAN
        BY Zenon
    <2> QED BY <2>1, <2>2, <2>3, Zenon DEF TypeOK
<1>2. LaunchedOnly /\ Distinct
    BY DEF LaunchedOnly, Distinct
<1>3. ToolInv /\ ServerInv
    BY DEF ToolInv, ServerInv, Closing, Making
<1>4. Owned /\ ShutdownLeavesNone
    BY DEF Owned, ShutdownLeavesNone, Unreaped
<1> QED BY <1>1, <1>2, <1>3, <1>4 DEF IInv

\* A launch that is over: the new client is of one session only, and the client that
\* it takes the place of has no process any more.
LEMMA RegisterStep == IInv /\ Register => IInv'
<1> SUFFICES ASSUME IInv, Register PROVE IInv'
    OBVIOUS
<1> USE SessionsAssumption DEF Client
<1>1. PICK id \in SessionId :
          /\ IF session = None THEN id \notin issued ELSE id = session
          /\ sessions' = [sessions EXCEPT ![id] = held]
          /\ issued' = issued \cup {id}
    BY DEF Register
<1>2. /\ phase = "handshake" /\ held \in Client /\ held \notin Registered
      /\ phase' = "idle" /\ session' = None /\ held' = None /\ after' = "none"
      /\ UNCHANGED <<launched, proc, pending, server, interrupted, failed>>
    BY DEF Register, End, IInv, TypeOK, ToolInv, Making
<1>3. sessions[id] # None => Reaped(sessions[id])
    BY <1>1, <1>2 DEF IInv, LaunchedOnly, ToolInv, Making
<1>4. /\ sessions' \in [SessionId -> Client \cup {None}] /\ sessions'[id] = held
      /\ \A other \in SessionId \ {id} : sessions'[other] = sessions[other]
    BY <1>1, <1>2 DEF IInv, TypeOK
<1>5. TypeOK' /\ LaunchedOnly'
    BY <1>1, <1>2, <1>4 DEF IInv, TypeOK, LaunchedOnly
<1>6. Distinct'
    BY <1>2, <1>4 DEF IInv, Distinct, Registered
<1>7. ToolInv' /\ ServerInv' /\ ShutdownLeavesNone'
    BY <1>2 DEF IInv, TypeOK, ToolInv, ServerInv, ShutdownLeavesNone, Closing, Making
<1>8. Owned'
    <2> SUFFICES ASSUME NEW c \in Client, Unreaped(c) PROVE c \in Registered' \cup failed
        BY <1>2 DEF Owned, Unreaped
    <2>1. CASE c = held
        BY <1>2, <1>4, <2>1 DEF Registered
    <2>2. CASE c \in failed
        BY <2>2
    <2>3. CASE c # held /\ c \notin failed
        <3>1. PICK other \in SessionId : sessions[other] = c
            BY <2>3 DEF IInv, Owned, Registered
        <3>2. other # id
            BY <1>3, <3>1 DEF Unreaped, Reaped
        <3> QED BY <1>4, <3>1, <3>2 DEF Registered
    <2> QED BY <2>1, <2>2, <2>3
<1> QED BY <1>5, <1>6, <1>7, <1>8 DEF IInv

\* A close that is over, by what comes after it.
LEMMA ClosedStep == IInv /\ phase \in {"wait", "kill"} /\ Closed => IInv'
<1> SUFFICES ASSUME IInv, phase \in {"wait", "kill"}, Closed PROVE IInv'
    OBVIOUS
<1> USE SessionsAssumption DEF Client
<1>1. /\ Closing /\ held \in Client /\ proc' = [proc EXCEPT ![held] = "reaped"]
      /\ proc' \in [Client -> ProcState] /\ proc'[held] = "reaped"
      /\ \A c \in Client \ {held} : proc'[c] = proc[c]
      /\ UNCHANGED <<issued, launched, server, interrupted, failed>>
    BY DEF Closed, Closing, IInv, TypeOK, ProcState
<1>2. proc[held] # "unborn"
    BY <1>1 DEF IInv, TypeOK, LaunchedOnly
<1>3. CASE after = "respawn"
    <2>1. /\ phase' = "discover" /\ held' = None /\ after' = "none"
          /\ UNCHANGED <<sessions, session, pending>>
        BY <1>3 DEF Closed
    <2> QED BY <1>1, <1>2, <1>3, <2>1
            DEF IInv, TypeOK, LaunchedOnly, Distinct, ToolInv, ServerInv, Owned,
                ShutdownLeavesNone, Closing, Making, Reaped, Registered, Unreaped
<1>4. CASE after = "forget"
    <2>1. /\ phase' = "idle" /\ session' = None /\ held' = None /\ after' = "none"
          /\ sessions' = [sessions EXCEPT ![session] = None] /\ UNCHANGED pending
        BY <1>4 DEF Closed, End
    <2>2. session \in SessionId /\ sessions[session] = held
        BY <1>1, <1>4 DEF IInv, ToolInv, TypeOK
    <2> QED BY <1>1, <1>2, <1>4, <2>1, <2>2
            DEF IInv, TypeOK, LaunchedOnly, Distinct, ToolInv, ServerInv, Owned,
                ShutdownLeavesNone, Closing, Making, Reaped, Registered, Unreaped
<1>5. CASE after = "raise"
    <2>1. /\ phase' = "idle" /\ session' = None /\ held' = None /\ after' = "none"
          /\ UNCHANGED <<sessions, pending>>
        BY <1>5 DEF Closed, End
    <2> QED BY <1>1, <1>2, <1>5, <2>1
            DEF IInv, TypeOK, LaunchedOnly, Distinct, ToolInv, ServerInv, Owned,
                ShutdownLeavesNone, Closing, Making, Reaped, Registered, Unreaped
<1>6. CASE after = "next"
    <2>1. /\ phase' = "shutdown" /\ held' = None /\ after' = "none"
          /\ pending' = pending \ {held} /\ UNCHANGED <<sessions, session>>
        BY <1>6 DEF Closed
    <2>2. Registered' = Registered
        BY <2>1 DEF Registered
    <2>3. TypeOK' /\ LaunchedOnly' /\ Distinct' /\ ToolInv'
        BY <1>1, <1>2, <1>6, <2>1
        DEF IInv, TypeOK, LaunchedOnly, Distinct, ToolInv, Closing, Making
    <2>4. ServerInv'
        BY <1>1, <1>6, <2>1, <2>2 DEF IInv, TypeOK, ServerInv, Closing, Reaped
    <2>5. Owned' /\ ShutdownLeavesNone'
        BY <1>1, <1>6, <2>1, <2>2
        DEF IInv, TypeOK, ServerInv, Owned, ShutdownLeavesNone, Closing, Unreaped
    <2> QED BY <2>3, <2>4, <2>5 DEF IInv
<1> QED BY <1>3, <1>4, <1>5, <1>6 DEF Closed

\* A close that raises ends the tool, or goes on to the next client: what it leaves is in
\* failed, and its session keeps it.
LEMMA CloseFailsStep == IInv /\ CloseFails => IInv'
<1> SUFFICES ASSUME IInv, CloseFails PROVE IInv'
    OBVIOUS
<1> USE SessionsAssumption DEF Client
<1>1. /\ Closing /\ held \in Client /\ failed' = failed \cup {held}
      /\ failed' \in SUBSET Client
      /\ UNCHANGED <<sessions, issued, launched, proc, server, interrupted>>
    BY DEF CloseFails, Closing, IInv, TypeOK
<1>2. CASE after = "next"
    <2>1. /\ phase' = "shutdown" /\ held' = None /\ after' = "none"
          /\ pending' = pending \ {held} /\ UNCHANGED session
        BY <1>2 DEF CloseFails
    <2> QED BY <1>1, <1>2, <2>1
            DEF IInv, TypeOK, LaunchedOnly, Distinct, ToolInv, ServerInv, Owned,
                ShutdownLeavesNone, Closing, Making, Reaped, Registered, Unreaped
<1>3. CASE after # "next"
    <2>1. /\ phase' = "idle" /\ session' = None /\ held' = None /\ after' = "none"
          /\ UNCHANGED pending
        BY <1>3 DEF CloseFails, End
    <2> QED BY <1>1, <1>3, <2>1
            DEF IInv, TypeOK, LaunchedOnly, Distinct, ToolInv, ServerInv, Owned,
                ShutdownLeavesNone, Closing, Making, Reaped, Registered, Unreaped
<1> QED BY <1>2, <1>3

\* The quit goes out before the close begins; nothing is forgotten yet.
LEMMA ForceQuitStep == IInv /\ ForceQuit => IInv'
<1> SUFFICES ASSUME IInv, ForceQuit PROVE IInv'
    OBVIOUS
<1> USE SessionsAssumption DEF Client
<1>1. PICK id \in SessionId :
          /\ sessions[id] # None /\ session' = id
          /\ phase' = "quit" /\ held' = sessions[id] /\ after' = "forget"
          /\ failed' = failed \ {sessions[id]}
          /\ proc' = IF Alive(sessions[id])
                     THEN [proc EXCEPT ![sessions[id]] = "told"] ELSE proc
    BY DEF ForceQuit, CloseClient
<1>2. /\ server = "up" /\ phase = "idle"
      /\ UNCHANGED <<sessions, issued, launched, pending, server, interrupted>>
    BY DEF ForceQuit, Idle
<1>3. /\ proc' \in [Client -> ProcState] /\ sessions[id] \in Client
      /\ \A c \in Client : /\ proc'[c] = "unborn" <=> proc[c] = "unborn"
                           /\ proc'[c] = "reaped" <=> proc[c] = "reaped"
    BY <1>1 DEF Alive, IInv, TypeOK, ProcState
<1>4. TypeOK'
    BY <1>1, <1>2, <1>3 DEF IInv, TypeOK
<1>5. LaunchedOnly' /\ Distinct'
    <2>1. Distinct'
        BY <1>2 DEF IInv, Distinct
    <2>2. held' <= launched
        BY <1>1 DEF IInv, LaunchedOnly
    <2> QED BY <1>2, <1>3, <2>1, <2>2 DEF IInv, LaunchedOnly
<1>6. ToolInv' /\ ServerInv'
    BY <1>1, <1>2 DEF IInv, ToolInv, ServerInv, Closing, Making
<1>7. Owned'
    <2> SUFFICES ASSUME NEW c \in Client, Unreaped(c)'
                 PROVE  c \in Registered \cup {held'} \cup failed'
        BY <1>2 DEF Owned, Registered
    <2>1. Unreaped(c)
        BY <1>3 DEF Unreaped
    <2>2. c \in Registered \cup failed
        BY <1>2, <2>1 DEF IInv, TypeOK, Owned
    <2> QED BY <1>1, <2>2
<1>8. ShutdownLeavesNone'
    BY <1>2 DEF ShutdownLeavesNone
<1> QED BY <1>4, <1>5, <1>6, <1>7, <1>8 DEF IInv

LEMMA InvStep == IInv /\ [Next]_vars => IInv'
<1> SUFFICES ASSUME IInv, [Next]_vars PROVE IInv'
    OBVIOUS
<1> USE SessionsAssumption
    DEF Client, IInv, TypeOK, ProcState, LaunchedOnly, Distinct, ToolInv, ServerInv, Owned,
        ShutdownLeavesNone, Closing, Making, Reaped, Registered, Unreaped
<1>1. CASE CreateSession
    BY <1>1 DEF CreateSession, Idle, toolVars
<1>2. CASE CloseOrBoot
    BY <1>2 DEF CloseOrBoot, Idle, CloseClient
<1>3. CASE ForceQuit
    BY <1>3, ForceQuitStep
<1>4. CASE LaunchFails
    BY <1>4 DEF LaunchFails, End
<1>5. CASE Launch
    BY <1>5 DEF Launch
<1>6. CASE Register
    BY <1>6, RegisterStep
<1>7. CASE HandshakeFails
    BY <1>7 DEF HandshakeFails, CloseClient
<1>8. CASE Quit
    BY <1>8 DEF Quit, Polled, Gone, Alive
<1>9. CASE WaitEnds
    BY <1>9, ClosedStep DEF WaitEnds
<1>10. CASE WaitTimesOut
    BY <1>10 DEF WaitTimesOut, Polled, Gone, Alive
<1>11. CASE WaitAfterKill
    BY <1>11, ClosedStep DEF WaitAfterKill
<1>12. CASE CloseNext
    BY <1>12 DEF CloseNext, CloseClient
<1>13. CASE AllClosed
    BY <1>13 DEF AllClosed
<1>14. CASE Shutdown
    BY <1>14 DEF Shutdown, Idle
<1>15. CASE Interrupt
    BY <1>15 DEF Interrupt
<1>16. CASE \E c \in Client : ExitItself(c)
    BY <1>16 DEF ExitItself, Alive, toolVars
<1>17. CASE \E c \in Client : Die(c)
    BY <1>17 DEF Die, toolVars
<1>18. CASE UNCHANGED vars
    BY <1>18 DEF vars
<1>19. CASE CloseFails
    BY <1>19, CloseFailsStep
<1> QED
    BY <1>1, <1>2, <1>3, <1>4, <1>5, <1>6, <1>7, <1>8, <1>9, <1>10, <1>11, <1>12, <1>13,
       <1>14, <1>15, <1>16, <1>17, <1>18, <1>19, Zenon
    DEF Next, StartTool, Work

LEMMA Invariance == Spec => []IInv
BY InvInit, InvStep, PTL DEF Spec

-----------------------------------------------------------------------------
(* What follows. *)

\* Every reachable state is type correct: a client that is closed is known, and so is what
\* the code does next.
THEOREM TypeCorrect == Spec => []TypeOK
BY Invariance, PTL DEF IInv

\* A process that was started and not yet reaped has an owner, whatever failed but its
\* own close.
THEOREM NoneOrphaned == Spec => []NoOrphan
<1>1. IInv => NoOrphan
    BY DEF IInv, Owned, NoOrphan
<1> QED BY <1>1, Invariance, PTL

\* No two sessions have one emulator, and no session has two at once.
THEOREM EmulatorsApart == Spec => []OneEmulatorPerSession
<1>1. IInv => OneEmulatorPerSession
    BY DEF IInv, Distinct, ToolInv, Making, Reaped, Unreaped, OneEmulatorPerSession
<1> QED BY <1>1, Invariance, PTL

\* The server that comes to its end by itself has reaped every emulator it started, but
\* for those whose close raised.
THEOREM NoneLeft == Spec => []ShutdownLeavesNone
BY Invariance, PTL DEF IInv

\* A session loses a client only when the process of that client has been reaped, or to
\* the end of the server when its close raised.
THEOREM LostWhenReaped == Spec => SessionsEndReaped
<1> DEFINE Step ==
        \A id \in SessionId : sessions[id] # None /\ sessions'[id] # sessions[id]
            => \/ proc'[sessions[id]] = "reaped"
               \/ server' = "down" /\ sessions[id] \in failed
<1>1. IInv /\ [Next]_vars => [Step]_vars
    <2> SUFFICES ASSUME IInv, Next, NEW id \in SessionId,
                        sessions[id] # None, sessions'[id] # sessions[id]
                 PROVE  \/ proc'[sessions[id]] = "reaped"
                        \/ server' = "down" /\ sessions[id] \in failed
        OBVIOUS
    <2>1. Register \/ (phase \in {"wait", "kill"} /\ Closed) \/ AllClosed
        BY DEF Next, StartTool, Work, CreateSession, CloseOrBoot, ForceQuit, LaunchFails,
               Launch, HandshakeFails, Quit, WaitEnds, WaitTimesOut, WaitAfterKill,
               CloseNext, CloseFails, Shutdown, Interrupt, ExitItself, Die
    <2>2. CASE Register
        BY <2>2 DEF Register, IInv, TypeOK, LaunchedOnly, ToolInv, Making, Reaped
    <2>3. CASE phase \in {"wait", "kill"} /\ Closed
        BY <2>3 DEF Closed, IInv, TypeOK, ToolInv, Closing
    <2>4. CASE AllClosed
        BY <2>4 DEF AllClosed, IInv, TypeOK, ServerInv, Registered, Reaped
    <2> QED BY <2>1, <2>2, <2>3, <2>4
<1> QED BY <1>1, Invariance, PTL DEF Spec, SessionsEndReaped
=============================================================================
