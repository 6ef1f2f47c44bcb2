--------------------------- MODULE TunnelHistory ---------------------------
(***************************************************************************)
(* Tunnel with a memory of its past, for the properties that compare what  *)
(* the supervisor does with what happened before.  The variables below     *)
(* observe the steps of Tunnel and restrict none of them.                  *)
(***************************************************************************)
EXTENDS Tunnel

VARIABLES
    stale,      \* live sockets opened while an earlier ssh process ran
    denied,     \* the last attempt was refused; nobody asked for another yet
    fresh       \* the network changed and no attempt was made since

historyVars == <<stale, denied, fresh>>

LiveSockets == probes \cup checks

HInit ==
    /\ Init
    /\ stale = {} /\ denied = FALSE /\ fresh = FALSE

\* Steps of the application and of the user, with what is remembered of them
Attempt ==
    /\ TunnelTimeout \/ ReconnectNow
    /\ stale' = LiveSockets'
    /\ denied' = FALSE /\ fresh' = FALSE

Exit ==
    /\ ProcessFinished
    /\ stale' = LiveSockets
    /\ denied' = (ssh = "refused")
    /\ UNCHANGED fresh

NetworkChanges ==
    /\ Wake \/ \E status \in BOOLEAN : NetworkEvent(status)
    /\ fresh' = TRUE
    /\ UNCHANGED <<stale, denied>>

SettingsChange ==
    /\ \E settings \in Settings : ChangePreferences(settings)
    /\ denied' = FALSE
    /\ UNCHANGED <<stale, fresh>>

ApplicationEnds ==
    /\ Quit \/ Crash
    /\ stale' = {} /\ denied' = FALSE /\ fresh' = FALSE

CheckEnds(socket) ==
    /\ stale' = stale \ {socket}
    /\ SocketEnds(socket)
    /\ UNCHANGED <<denied, fresh>>

Unremarkable ==
    /\ \/ Boot \/ HealthTimeout \/ ProcessStarted \/ ProcessFailsToStart
       \/ SshListens \/ SshIsRefused \/ SshFails \/ SshIsLost
       \/ ForeignListens \/ ForeignEnds \/ WarmupElapses
    /\ UNCHANGED historyVars

HNext ==
    \/ Attempt
    \/ Exit
    \/ NetworkChanges
    \/ SettingsChange
    \/ ApplicationEnds
    \/ \E socket \in SocketIds : CheckEnds(socket)
    \/ Unremarkable

HSpec == HInit /\ [][HNext]_<<vars, historyVars>>

-----------------------------------------------------------------------------
\* The outcome of a check that was started for an earlier ssh process is never
\* taken for an outcome of the current one ("Obsolete socket" in
\* handleHealthCheckSocketStateChange): no stop forgets to drop the socket.
ResultsAreCurrent == healthSocket \notin stale

\* On the same network, and unless the user acts, a refused authentication is
\* not retried before the long delay, however the exit of ssh interleaves with
\* health checks, late starts and pending timers.
AuthBackoffKept ==
    (denied /\ ~fresh /\ tunnelTimer # Inactive) => tunnelTimer >= DelayAuthBase

\* README: "authentication failures are retried no more than once a minute".
\* Here without the exception for a changed network.
AuthRetryRare ==
    (denied /\ tunnelTimer # Inactive) => tunnelTimer >= DelayAuthBase
=============================================================================
