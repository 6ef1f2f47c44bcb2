--------------------------- MODULE TunnelLiveness ---------------------------
(***************************************************************************)
(* What must eventually happen to the tunnel, and the fairness it rests    *)
(* on.  Faults may go on for ever; in a behaviour that becomes calm they   *)
(* stop: the network, the server, ssh and the user stay as they are.       *)
(***************************************************************************)
EXTENDS Tunnel

VARIABLE calm   \* from now on nothing fails and nobody interferes

allVars == <<vars, calm>>

LInit == Init /\ calm = FALSE

BecomeCalm ==
    /\ ~calm /\ running /\ ~foreign
    /\ calm' = TRUE
    /\ UNCHANGED vars

\* Once calm, an attempt that can be made starts ssh.
LTunnelTimeout ==
    /\ running /\ tunnelTimer # Inactive
    /\ \/ RestartDisabled \/ RestartWithoutNetwork
       \/ RestartWithEncryptedKey \/ RestartStarted
       \/ ~calm /\ MaybeRestartTunnelProcess
    /\ UNCHANGED calm

\* Once calm, what can be connected to is connected to.
LSocketEnds(socket) ==
    /\ \/ ObsoleteSocketEnds(socket)
       \/ ProbeSucceeds(socket)
       \/ CheckSucceeds(socket)
       \/ (calm => ~PortAccepts) /\ SocketEnds(socket)
    /\ UNCHANGED calm

LProbeSucceeds ==
    /\ \E socket \in SocketIds : ProbeSucceeds(socket)
    /\ UNCHANGED calm

\* ssh gives up on its own (ConnectTimeout, ServerAliveInterval).
LSshProceeds ==
    /\ SshListens \/ (~calm /\ (SshIsRefused \/ SshFails))
    /\ UNCHANGED calm

LProcessStarted == ProcessStarted /\ UNCHANGED calm
LProcessFinished == ProcessFinished /\ UNCHANGED calm
LHealthTimeout == HealthTimeout /\ UNCHANGED calm
LWarmupElapses == WarmupElapses /\ UNCHANGED calm

\* "Reconnect Now" is offered while a restart is awaited, and then it does what
\* LTunnelTimeout does; a user who keeps reconnecting in the moment before it
\* disappears from the menu is not considered.
LInterference ==
    /\ ~calm
    /\ \/ Boot \/ Quit
       \/ \E settings \in Settings : ChangePreferences(settings)
       \/ Environment
    /\ UNCHANGED calm

LNext ==
    \/ BecomeCalm
    \/ LInterference
    \/ LTunnelTimeout
    \/ LProcessStarted
    \/ LProcessFinished
    \/ LHealthTimeout
    \/ \E socket \in SocketIds : LSocketEnds(socket)
    \/ LSshProceeds
    \/ LWarmupElapses

(***************************************************************************)
(* A timer fires, a signal is delivered and a socket ends (it is aborted   *)
(* after 3 seconds): all of this is the event loop, which is never blocked *)
(* for ever.  A probe of a port that stays open succeeds sooner or later,  *)
(* since "opened port accepts right away".                                 *)
(***************************************************************************)
Fairness ==
    /\ WF_allVars(LTunnelTimeout)
    /\ WF_allVars(LProcessStarted) /\ WF_allVars(LProcessFinished)
    /\ WF_allVars(LHealthTimeout)
    /\ \A socket \in SocketIds : WF_allVars(LSocketEnds(socket))
    /\ SF_allVars(LProbeSucceeds)
    /\ WF_allVars(LSshProceeds)
    /\ WF_allVars(LWarmupElapses)

LSpec == LInit /\ [][LNext]_allVars /\ Fairness

-----------------------------------------------------------------------------
\* However the faults left the supervisor (timers, counters, sockets of old
\* checks, a process that starts late), once they stop an enabled tunnel
\* opens, and it is not closed again.
TunnelRecovers ==
    (calm /\ MayStart) ~> [](process = "Running" /\ internetReachable)

\* A process that serves nobody does not stay: either it passes a health
\* check, or it ends, or its restart gets scheduled.
WatchdogBarks ==
    (process = "Running" /\ ~internetReachable) ~>
        (internetReachable \/ process # "Running" \/ tunnelTimer # Inactive)
=============================================================================
