------------------------------ MODULE Sessions ------------------------------
(***************************************************************************)
(* The sessions of x16mcp.server and the emulator processes behind them:   *)
(* the registry _sessions, the tools that spawn, replace and end an        *)
(* emulator, Transport.__init__ and Transport.close, and the end of the    *)
(* server.  FastMCP runs one tool at a time, so the tools do not overlap;  *)
(* the processes do what they like between any two steps of a tool.        *)
(*                                                                         *)
(* The tools that only send commands leave this state alone (they are the  *)
(* subject of Execution and Transport).                                    *)
(***************************************************************************)
EXTENDS Integers

CONSTANTS
    SessionId,   \* the uuids
    MaxClients,  \* bound: clients launched over the life of the server
    None         \* no session, or no client

Client == 1..MaxClients

ASSUME SessionsAssumption == MaxClients \in Nat /\ None \notin SessionId /\ None \notin Client

VARIABLES
    sessions,     \* _sessions: the client of each id, None for an id that has none
    issued,       \* history: the ids given out
    launched,     \* clients launched so far; they are numbered in that order
    proc,         \* the emulator process of each client
    phase,        \* where the tool in progress is, "idle" between tools
    session,      \* the session the tool in progress works on, None for a new one
    held,         \* the client being launched or closed
    after,        \* what the code does once the close in progress is over
    pending,      \* the clients _closeAllSessions has still to visit
    server,       \* "up", "stopping" (in _closeAllSessions) or "down"
    interrupted,  \* history: KeyboardInterrupt cut _closeAllSessions short
    failed        \* history: the clients whose last close raised

toolVars == <<phase, session, held, after>>
vars == <<sessions, issued, launched, proc, phase, session, held, after, pending,
          server, interrupted, failed>>

Registered == {sessions[id] : id \in SessionId} \ {None}

\* "told": quit was written to it; "killed": SIGKILL sent; "exited": a zombie until
\* poll or wait reaps it.
ProcState == {"unborn", "running", "told", "killed", "exited", "reaped"}

Alive(c) == proc[c] \in {"running", "told"}
Gone(c) == proc[c] \in {"exited", "reaped"}

-----------------------------------------------------------------------------
(* Tools: where they start and how they end. *)

Idle == server = "up" /\ phase = "idle"

End ==
    /\ phase' = "idle"
    /\ session' = None
    /\ held' = None
    /\ after' = "none"

CloseClient(c, next) ==
    /\ phase' = "quit"
    /\ held' = c
    /\ after' = next
    /\ failed' = failed \ {c}

CreateSession ==
    /\ Idle
    /\ phase' = "discover"
    /\ UNCHANGED <<sessions, issued, launched, proc, session, held, after, pending, server,
                   interrupted, failed>>

\* Mutant of CloseOrBoot: boot_program launches the new emulator first.
CloseOrBootFirst ==
    /\ Idle
    /\ \E id \in SessionId :
           /\ sessions[id] # None
           /\ session' = id
           /\ \/ CloseClient(sessions[id], "forget")
              \/ phase' = "discover" /\ UNCHANGED <<held, after, failed>>
    /\ UNCHANGED <<sessions, issued, launched, proc, pending, server, interrupted>>

\* close_session, and boot_program, which closes the old emulator first.
CloseOrBoot ==
    /\ Idle
    /\ \E id \in SessionId, next \in {"forget", "respawn"} :
           /\ sessions[id] # None
           /\ session' = id
           /\ CloseClient(sessions[id], next)
    /\ UNCHANGED <<sessions, issued, launched, proc, pending, server, interrupted>>

\* Mutant of ForceQuit: the emulator is told to quit, the session dropped at once.
ForceQuitOnly ==
    /\ Idle
    /\ \E id \in SessionId :
           /\ sessions[id] # None
           /\ sessions' = [sessions EXCEPT ![id] = None]
           /\ proc' = IF Alive(sessions[id])
                     THEN [proc EXCEPT ![sessions[id]] = "told"] ELSE proc
    /\ UNCHANGED <<issued, launched, toolVars, pending, server, interrupted, failed>>

\* x16db with quit, qit or bail and force: the line goes out before close is called;
\* a broken pipe is ignored.
ForceQuit ==
    /\ Idle
    /\ \E id \in SessionId :
           /\ sessions[id] # None
           /\ session' = id
           /\ CloseClient(sessions[id], "forget")
           /\ proc' = IF Alive(sessions[id])
                     THEN [proc EXCEPT ![sessions[id]] = "told"] ELSE proc
    /\ UNCHANGED <<sessions, issued, launched, pending, server, interrupted>>

-----------------------------------------------------------------------------
(* _launchClient and Transport.__init__. *)

\* No emulator, ROM or filesystem root is found, or Popen cannot run it.
LaunchFails ==
    /\ phase = "discover"
    /\ End
    /\ UNCHANGED <<sessions, issued, launched, proc, pending, server, interrupted, failed>>

Launch ==
    /\ phase = "discover" /\ launched < MaxClients
    /\ launched' = launched + 1
    /\ proc' = [proc EXCEPT ![launched + 1] = "running"]
    /\ held' = launched + 1
    /\ phase' = "handshake"
    /\ UNCHANGED <<sessions, issued, session, after, pending, server, interrupted, failed>>

\* The banner, the prompt and the right version came in (the process may have ended
\* since): the client is registered, under a new id or under the session's own.
Register ==
    /\ phase = "handshake"
    /\ \E id \in SessionId :
           /\ IF session = None THEN id \notin issued ELSE id = session
           /\ sessions' = [sessions EXCEPT ![id] = held]
           /\ issued' = issued \cup {id}
    /\ End
    /\ UNCHANGED <<launched, proc, pending, server, interrupted, failed>>

\* Mutants of HandshakeFails: the error is raised without a close; the close is not
\* followed by a raise.
HandshakeFailsOpen ==
    /\ phase = "handshake"
    /\ End
    /\ UNCHANGED <<sessions, issued, launched, proc, pending, server, interrupted, failed>>

HandshakeFailsSilently ==
    /\ phase = "handshake"
    /\ CloseClient(held, "none")
    /\ UNCHANGED <<sessions, issued, launched, proc, session, pending, server, interrupted>>

\* Timeout, end of file, ERR or another protocol version: close, then raise.
HandshakeFails ==
    /\ phase = "handshake"
    /\ CloseClient(held, "raise")
    /\ UNCHANGED <<sessions, issued, launched, proc, session, pending, server, interrupted>>

-----------------------------------------------------------------------------
(* Transport.close. *)

\* What poll() leaves of a process, which is then sent a signal or a line when it has
\* not exited; one that a close before this one killed has that to come.
Polled(c, then) ==
    IF Gone(c) THEN "reaped" ELSE IF Alive(c) THEN then ELSE "killed"

\* poll() reaps a process that has exited; one that has not is written "quit".
Quit ==
    /\ phase = "quit"
    /\ proc' = [proc EXCEPT ![held] = Polled(held, "told")]
    /\ phase' = "wait"
    /\ UNCHANGED <<sessions, issued, launched, session, held, after, pending, server,
                   interrupted, failed>>

\* The process of the held client is reaped and its close is over.
Closed ==
    /\ proc' = [proc EXCEPT ![held] = "reaped"]
    /\ \/ after = "respawn" /\ phase' = "discover" /\ held' = None /\ after' = "none"
          /\ UNCHANGED <<sessions, session, pending>>
       \/ after = "forget" /\ End /\ sessions' = [sessions EXCEPT ![session] = None]
          /\ UNCHANGED pending
       \/ after = "raise" /\ End /\ UNCHANGED <<sessions, pending>>
       \/ after = "next" /\ phase' = "shutdown" /\ held' = None /\ after' = "none"
          /\ pending' = pending \ {held} /\ UNCHANGED <<sessions, session>>
    /\ UNCHANGED <<issued, launched, server, interrupted, failed>>

WaitEnds ==
    /\ phase = "wait" /\ Gone(held)
    /\ Closed

\* Mutant of WaitTimesOut: wait() without a timeout.
WaitForEver == FALSE

\* Two seconds have passed.  kill() polls first, so a process that exited in the
\* meantime is reaped and not signalled.
WaitTimesOut ==
    /\ phase = "wait" /\ proc[held] # "reaped"
    /\ proc' = [proc EXCEPT ![held] = Polled(held, "killed")]
    /\ phase' = "kill"
    /\ UNCHANGED <<sessions, issued, launched, session, held, after, pending, server,
                   interrupted, failed>>

WaitAfterKill ==
    /\ phase = "kill" /\ Gone(held)
    /\ Closed

\* Mutant of CloseFails: the end of the server does not get past it.
CloseFailsUnguarded ==
    /\ phase \in {"quit", "wait", "kill"}
    /\ failed' = failed \cup {held}
    /\ IF after = "next"
          THEN server' = "down" /\ phase' = "over" /\ UNCHANGED <<session, held, after>>
          ELSE End /\ UNCHANGED server
    /\ UNCHANGED <<sessions, issued, launched, proc, pending, interrupted>>

\* One of the calls of close raises (a kill that is not permitted, a wait that fails).
\* _closeAllSessions ignores it and goes on to the next client; a tool ends with it, and
\* what it would have done after the close is not done.
CloseFails ==
    /\ phase \in {"quit", "wait", "kill"}
    /\ failed' = failed \cup {held}
    /\ IF after = "next"
          THEN /\ phase' = "shutdown" /\ held' = None /\ after' = "none"
               /\ pending' = pending \ {held} /\ UNCHANGED session
          ELSE End /\ UNCHANGED pending
    /\ UNCHANGED <<sessions, issued, launched, proc, server, interrupted>>

-----------------------------------------------------------------------------
(* main: mcp.run returns, _closeAllSessions. *)

Shutdown ==
    /\ Idle
    /\ server' = "stopping"
    /\ phase' = "shutdown"
    /\ pending' = Registered
    /\ UNCHANGED <<sessions, issued, launched, proc, session, held, after, interrupted,
                   failed>>

CloseNext ==
    /\ phase = "shutdown"
    /\ \E c \in pending : CloseClient(c, "next")
    /\ UNCHANGED <<sessions, issued, launched, proc, session, pending, server, interrupted>>

AllClosed ==
    /\ phase = "shutdown" /\ pending = {}
    /\ server' = "down"
    /\ phase' = "over"
    /\ sessions' = [id \in SessionId |-> None]
    /\ UNCHANGED <<issued, launched, proc, session, held, after, pending, interrupted, failed>>

\* "except Exception" does not stop KeyboardInterrupt, and the event loop's handler is
\* no longer there to take the signal: the clients not yet visited stay open.
Interrupt ==
    /\ server = "stopping"
    /\ server' = "down"
    /\ phase' = "over"
    /\ interrupted' = TRUE
    /\ UNCHANGED <<sessions, issued, launched, proc, session, held, after, pending, failed>>

-----------------------------------------------------------------------------
(* The emulator processes (external). *)

\* It obeys quit, or ends of itself.
ExitItself(c) ==
    /\ Alive(c)
    /\ proc' = [proc EXCEPT ![c] = "exited"]
    /\ UNCHANGED <<sessions, issued, launched, toolVars, pending, server, interrupted, failed>>

\* SIGKILL cannot be ignored.
Die(c) ==
    /\ proc[c] = "killed"
    /\ proc' = [proc EXCEPT ![c] = "exited"]
    /\ UNCHANGED <<sessions, issued, launched, toolVars, pending, server, interrupted, failed>>

-----------------------------------------------------------------------------
Init ==
    /\ sessions = [id \in SessionId |-> None] /\ issued = {}
    /\ launched = 0 /\ proc = [c \in Client |-> "unborn"]
    /\ phase = "idle" /\ session = None /\ held = None /\ after = "none"
    /\ pending = {} /\ server = "up" /\ interrupted = FALSE /\ failed = {}

StartTool == CreateSession \/ CloseOrBoot \/ ForceQuit

Work ==
    \/ LaunchFails \/ Launch \/ Register \/ HandshakeFails
    \/ Quit \/ WaitEnds \/ WaitTimesOut \/ WaitAfterKill
    \/ CloseNext \/ AllClosed

Next ==
    \/ StartTool \/ Work \/ CloseFails \/ Shutdown \/ Interrupt
    \/ \E c \in Client : ExitItself(c) \/ Die(c)

Spec == Init /\ [][Next]_vars

\* The server's thread runs on, and a killed process dies.
FairSpec == Spec /\ WF_vars(Work) /\ \A c \in Client : WF_vars(Die(c))

-----------------------------------------------------------------------------
(* Properties. *)

\* Types; a client that is being closed is known, and so is what the code does next;
\* between tools and before a launch none is held.
TypeOK ==
    /\ sessions \in [SessionId -> Client \cup {None}]
    /\ issued \in SUBSET SessionId
    /\ launched \in 0..MaxClients
    /\ proc \in [Client -> ProcState]
    /\ phase \in {"idle", "discover", "handshake", "quit", "wait", "kill", "shutdown", "over"}
    /\ session \in SessionId \cup {None}
    /\ held \in Client \cup {None}
    /\ after \in {"none", "respawn", "forget", "raise", "next"}
    /\ pending \in SUBSET Client
    /\ server \in {"up", "stopping", "down"}
    /\ interrupted \in BOOLEAN
    /\ failed \in SUBSET Client
    /\ phase \in {"quit", "wait", "kill"} => held # None /\ after # "none"
    /\ phase \in {"idle", "discover", "shutdown"} => held = None /\ after = "none"

Unreaped(c) == proc[c] \notin {"unborn", "reaped"}

\* A process that was started and not yet reaped belongs to a session or to the tool
\* in progress, whatever failed on the way (Transport.__init__: "on any failure, do
\* not leak the subprocess"); only a close that itself raised, and an interrupt of the
\* last clean-up, break this.
NoOrphan ==
    ~interrupted => \A c \in Client : Unreaped(c) => c \in Registered \cup {held} \cup failed

\* No two sessions drive the same emulator, and a boot_program in progress never has
\* the session's old emulator and its new one running at once (docs/tools/
\* lifecycle.md: "one subprocess per session").
OneEmulatorPerSession ==
    /\ \A i, j \in SessionId : sessions[i] # None /\ sessions[i] = sessions[j] => i = j
    /\ phase = "handshake" /\ session # None => ~Unreaped(sessions[session])

\* The server ends with every emulator reaped, unless it was interrupted: one whose
\* close raises may be left, and strands none of the others (_closeAllSessions).
ShutdownLeavesNone ==
    server = "down" /\ ~interrupted => \A c \in Client : Unreaped(c) => c \in failed

\* A session loses its client, to close_session, to a new emulator or to the end of
\* the server, only after the process of that client has been reaped; only the end of
\* the server also drops one whose close has raised.
SessionsEndReaped ==
    [][\A id \in SessionId :
           sessions[id] # None /\ sessions'[id] # sessions[id]
               => \/ proc'[sessions[id]] = "reaped"
                  \/ server' = "down" /\ sessions[id] \in failed]_vars

\* Every tool, and the end of the server, comes to its end, though an emulator may
\* never answer and may ignore quit.
ToolsEnd == (phase # "idle") ~> (phase \in {"idle", "over"})

\* docs/tools/lifecycle.md: "A session is one running emulator."  Between tools no
\* session is left with an emulator that the server itself has closed.
SessionHasEmulator ==
    phase = "idle" => \A c \in Registered : proc[c] # "reaped"
=============================================================================
