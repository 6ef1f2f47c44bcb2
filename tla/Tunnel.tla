------------------------------- MODULE Tunnel -------------------------------
(***************************************************************************)
(* The tunnel supervisor: class Shprot runs ssh as a child process, finds  *)
(* out whether websites are reachable through it, and restarts it.         *)
(*                                                                         *)
(* Shprot lives in one Qt event loop, so a handler of a timer, of a signal *)
(* of the child process or of a socket is one step.  Between two steps the *)
(* environment moves: ssh opens its port or exits, the network changes,    *)
(* the user edits the settings.  A timer is what it will run (active or    *)
(* not); delays are kept where the code tells them apart.                  *)
(***************************************************************************)
EXTENDS RestartDelay

CONSTANTS
    Settings,           \* "sshProxyTunnel" preferences that may be saved
    SocketIds,          \* health check sockets alive at a time
    NoSocket,           \* nullptr
    HealthFailsLimit,   \* HealthCheckFailsLimit
    LazyDelay,          \* TunnelProcessRestartDelayLazy
    SshMissingDelay,    \* TunnelProcessRestartDelaySshMissing
    Faults              \* what else may happen: "crash", "foreignListener"

ASSUME TunnelAssumption ==
    /\ Settings \subseteq [enabled : BOOLEAN, http : BOOLEAN, keyEncrypted : BOOLEAN]
    /\ NoSocket \notin SocketIds
    /\ HealthFailsLimit \in Nat \ {0}
    /\ LazyDelay \in Nat /\ SshMissingDelay \in Nat
    /\ Faults \subseteq {"crash", "foreignListener"}

VARIABLES
    running,            \* the application runs
    prefs,              \* the saved "sshProxyTunnel" preferences
    applied,            \* the preferences the ssh process was started with
    reachable,          \* QNetworkInformation::reachability() # Disconnected
    process,            \* m_tunnelProcess->state()
    ssh,                \* what the ssh child really does
    foreign,            \* another program listens on the SOCKS port
    stoppedIntentionally, \* m_tunnelStoppedIntentionally
    identityFile,       \* the private key is on disk
    portOpened,         \* m_tunnelPortOpened
    warmingUp,          \* m_tunnelWarmupTimer.elapsed() < TunnelProcessWarmupTime
    tunnelTimer,        \* interval of m_tunnelTimer, Inactive if it is stopped
    failedRestarts,     \* m_failedRestartsCount
    healthTimer,        \* m_healthCheckTimer->isActive()
    healthSocket,       \* m_healthCheckSocket
    probes, checks,     \* live sockets, by their "portProbe" property
    healthFails,        \* m_healthCheckFailsCount
    internetReachable,  \* m_internetReachable
    httpListening       \* m_httpProxyServer listens

processVars == <<applied, process, ssh, stoppedIntentionally, identityFile>>
healthVars == <<portOpened, warmingUp, healthTimer, healthSocket, probes, checks,
                healthFails>>
restartVars == <<tunnelTimer, failedRestarts>>
statusVars == <<internetReachable, httpListening>>
userVars == <<running, prefs>>
envVars == <<reachable, foreign>>
vars == <<processVars, healthVars, restartVars, statusVars, userVars, envVars>>

Inactive == -1
Delays == {Inactive, 0, LazyDelay, SshMissingDelay}
            \cup {RestartDelayAfter(auth, count) : auth \in BOOLEAN, count \in 0..ShiftMax}

Exited == {"lost", "refused", "failed"}  \* how ssh ended, not handled yet
SshStates == {"none", "connecting", "listening"} \cup Exited

TypeOK ==
    /\ running \in BOOLEAN
    /\ prefs \in Settings /\ applied \in Settings
    /\ reachable \in BOOLEAN /\ foreign \in BOOLEAN
    /\ process \in {"NotRunning", "Starting", "Running"}
    /\ ssh \in SshStates
    /\ stoppedIntentionally \in BOOLEAN /\ identityFile \in BOOLEAN
    /\ portOpened \in BOOLEAN /\ warmingUp \in BOOLEAN
    /\ tunnelTimer \in Delays
    /\ failedRestarts \in 0..ShiftMax
    /\ healthTimer \in BOOLEAN
    /\ healthSocket \in SocketIds \cup {NoSocket}
    /\ probes \subseteq SocketIds /\ checks \subseteq SocketIds
    /\ healthFails \in 0..HealthFailsLimit
    /\ internetReachable \in BOOLEAN /\ httpListening \in BOOLEAN

-----------------------------------------------------------------------------
(***************************************************************************)
(* What handlers have in common.  stopTunnelProcess waits for the process  *)
(* in place, and a restart waits for its start, so that the handlers of    *)
(* started() and finished() run inside, one after the other, on members    *)
(* that the handler around them has set already.  Those handlers map the   *)
(* values of the members they find to the values they leave.               *)
(***************************************************************************)
Members == [stoppedIntentionally |-> stoppedIntentionally,
            portOpened           |-> portOpened,
            healthTimer          |-> healthTimer,
            healthSocket         |-> healthSocket,
            healthFails          |-> healthFails,
            internetReachable    |-> internetReachable,
            httpListening        |-> httpListening,
            tunnelTimer          |-> tunnelTimer,
            failedRestarts       |-> failedRestarts]

SetMembers(members) ==
    /\ stoppedIntentionally' = members.stoppedIntentionally
    /\ portOpened' = members.portOpened
    /\ healthTimer' = members.healthTimer
    /\ healthSocket' = members.healthSocket
    /\ healthFails' = members.healthFails
    /\ internetReachable' = members.internetReachable
    /\ httpListening' = members.httpListening
    /\ tunnelTimer' = members.tunnelTimer
    /\ failedRestarts' = members.failedRestarts

StopHealthTimerOnly(members) == [members EXCEPT !.healthTimer = FALSE]   \* mutant
StopHealthCheck(members) == [members EXCEPT !.healthTimer = FALSE, !.healthSocket = NoSocket]

ScheduleForgotten(members, authenticationFailed) ==   \* mutant
    [members EXCEPT !.failedRestarts = CountFailure(@)]

ScheduleRestart(members, authenticationFailed) ==
    [members EXCEPT
        !.tunnelTimer = RestartDelayAfter(authenticationFailed, members.failedRestarts),
        !.failedRestarts = CountFailure(@)]

\* HealthCheckFailsLimit
LimitPassed(fails) == fails > HealthFailsLimit   \* mutant
LimitReached(fails) == fails >= HealthFailsLimit

\* QFile::remove(m_identityFilePath), whether or not there was a process
RemoveKeyOfProcess == identityFile' = (identityFile /\ process = "NotRunning")   \* mutant
RemoveKeyFile == identityFile' = FALSE

\* A start that failed is retried when ssh may have been installed.
RetryInAMinute(members) == [members EXCEPT !.tunnelTimer = SshMissingDelay]

\* m_tunnelStoppedIntentionally = false of a new process
StopStillIntended(members) == members   \* mutant
StopIsNotIntended(members) == [members EXCEPT !.stoppedIntentionally = FALSE]

\* maybeStartHttpProxyServer of a Running process: its port may be occupied.
HttpProxyMayListen == IF prefs.enabled /\ prefs.http THEN BOOLEAN ELSE {FALSE}

HandleStartOnSamePort(members) ==   \* mutant
    {[members EXCEPT !.healthTimer = TRUE, !.healthFails = 0, !.httpListening = listens] :
        listens \in HttpProxyMayListen}

\* handleTunnelProcessStart
HandleStart(members) ==
    {[members EXCEPT !.portOpened = FALSE, !.healthTimer = TRUE, !.healthFails = 0,
                     !.httpListening = listens] : listens \in HttpProxyMayListen}

Cleaned(members) ==
    [StopHealthCheck(members) EXCEPT !.httpListening = FALSE, !.internetReachable = FALSE]

FinishQuietly(members, exit) ==   \* mutant
    IF members.stoppedIntentionally THEN members
    ELSE ScheduleRestart(Cleaned(members), exit = "refused")

\* handleTunnelProcessFinish
HandleFinish(members, exit) ==
    IF members.stoppedIntentionally THEN Cleaned(members)
    ELSE ScheduleRestart(Cleaned(members), exit = "refused")

(***************************************************************************)
(* What stopTunnelProcess may leave.  A process that was Starting either   *)
(* failed to start, which no signal tells, or starts and ends while it is  *)
(* waited for.  A killed ssh is assumed to end in that time.               *)
(***************************************************************************)
StopTunnelProcess(members) ==
    LET marked == [members EXCEPT !.stoppedIntentionally = TRUE] IN
    CASE process = "NotRunning" -> {members}
      [] process = "Running"    -> {HandleFinish(marked, ssh)}
      [] process = "Starting"   -> {marked} \cup {HandleFinish(m, ssh) : m \in HandleStart(marked)}

\* How every attempt begins
Stopped == StopTunnelProcess([StopHealthCheck(Members) EXCEPT !.tunnelTimer = Inactive])

\* The attempt ends with the process stopped, and these members.
GiveUpAttempt(members) ==
    /\ SetMembers(members)
    /\ process' = "NotRunning" /\ ssh' = "none"
    /\ UNCHANGED <<applied, warmingUp, probes, checks, userVars, envVars>>

-----------------------------------------------------------------------------
(* maybeRestartTunnelProcess, by the way it returns *)

RestartDisabled ==
    /\ ~prefs.enabled
    /\ \E members \in Stopped : GiveUpAttempt(members)
    /\ RemoveKeyFile

RestartWithoutNetwork ==
    /\ prefs.enabled /\ ~reachable
    /\ \E members \in Stopped : GiveUpAttempt(members)
    /\ RemoveKeyFile

RestartWithoutSsh ==
    /\ prefs.enabled /\ reachable
    /\ \E members \in Stopped : GiveUpAttempt(RetryInAMinute(members))
    /\ RemoveKeyFile

\* Retrying is useless until the settings are changed.
RestartWithEncryptedKey ==
    /\ prefs.enabled /\ reachable /\ prefs.keyEncrypted
    /\ \E members \in Stopped : GiveUpAttempt(members)
    /\ RemoveKeyFile

MayStart == prefs.enabled /\ reachable /\ ~prefs.keyEncrypted

\* A full disk may leave a part of the key behind.
RestartWriteFailed ==
    /\ MayStart
    /\ \E members \in Stopped : GiveUpAttempt(ScheduleRestart(members, FALSE))
    /\ identityFile' \in BOOLEAN

\* QProcess::start failed: the process is not running.
RestartStartFailed ==
    /\ MayStart
    /\ \E members \in Stopped : GiveUpAttempt(RetryInAMinute(StopIsNotIntended(members)))
    /\ identityFile' = TRUE

\* waitForStarted timed out: the process is still Starting.
RestartStartTimeout ==
    /\ MayStart
    /\ \E members \in Stopped : SetMembers(RetryInAMinute(StopIsNotIntended(members)))
    /\ process' = "Starting" /\ ssh' = "none"
    /\ identityFile' = TRUE
    /\ applied' = prefs
    /\ UNCHANGED <<warmingUp, probes, checks, userVars, envVars>>

\* waitForStarted emitted started().
RestartStarted ==
    /\ MayStart
    /\ \E members \in Stopped :
          \E started \in HandleStart(StopIsNotIntended(members)) : SetMembers(started)
    /\ process' = "Running" /\ ssh' = "connecting"
    /\ identityFile' = TRUE
    /\ applied' = prefs
    /\ UNCHANGED <<warmingUp, probes, checks, userVars, envVars>>

MaybeRestartTunnelProcess ==
    \/ RestartDisabled
    \/ RestartWithoutNetwork
    \/ RestartWithoutSsh
    \/ RestartWithEncryptedKey
    \/ RestartWriteFailed
    \/ RestartStartFailed
    \/ RestartStartTimeout
    \/ RestartStarted

-----------------------------------------------------------------------------
(* The application *)

Init ==
    /\ running = FALSE
    /\ prefs \in Settings /\ applied = prefs
    /\ reachable \in BOOLEAN /\ foreign = FALSE
    /\ process = "NotRunning" /\ ssh = "none"
    /\ stoppedIntentionally = FALSE /\ identityFile = FALSE
    /\ portOpened = FALSE /\ warmingUp = FALSE
    /\ tunnelTimer = Inactive /\ failedRestarts = 0
    /\ healthTimer = FALSE /\ healthSocket = NoSocket
    /\ probes = {} /\ checks = {}
    /\ healthFails = 0
    /\ internetReachable = FALSE /\ httpListening = FALSE

\* Shprot::start
Boot ==
    /\ ~running
    /\ running' = TRUE
    /\ tunnelTimer' = 0
    /\ UNCHANGED <<processVars, healthVars, failedRestarts, statusVars, prefs, envVars>>

\* The objects of the application are gone; members start from these values.
Forget ==
    /\ running' = FALSE
    /\ process' = "NotRunning" /\ ssh' = "none"
    /\ stoppedIntentionally' = FALSE
    /\ portOpened' = FALSE /\ warmingUp' = FALSE
    /\ tunnelTimer' = Inactive /\ failedRestarts' = 0
    /\ healthTimer' = FALSE /\ healthSocket' = NoSocket
    /\ probes' = {} /\ checks' = {}
    /\ healthFails' = 0
    /\ internetReachable' = FALSE /\ httpListening' = FALSE
    /\ UNCHANGED <<prefs, applied, reachable>>

\* ~Shprot stops the process and removes the key.
Quit ==
    /\ running
    /\ Forget
    /\ RemoveKeyFile
    /\ UNCHANGED foreign

\* The child outlives the application, and so does the file of the key.
Crash ==
    /\ "crash" \in Faults
    /\ running
    /\ Forget
    /\ foreign' \in {foreign, foreign \/ ssh \in {"connecting", "listening"}}
    /\ UNCHANGED identityFile

TunnelTimeout ==
    /\ running /\ tunnelTimer # Inactive
    /\ MaybeRestartTunnelProcess

\* The menu item; it calls the same function as the timer.
ReconnectNow ==
    /\ running
    /\ MaybeRestartTunnelProcess

\* handleNetworkChange
HandleNetworkChange ==
    /\ running
    /\ failedRestarts' = 0
    /\ tunnelTimer' = LazyDelay
    /\ UNCHANGED <<processVars, healthVars, statusVars, userVars, foreign>>

\* reachabilityChanged, or transportMediumChanged at the same reachability
NetworkEvent(status) ==
    /\ HandleNetworkChange
    /\ reachable' = status

\* checkForWake after a gap in the wall clock
Wake ==
    /\ HandleNetworkChange
    /\ UNCHANGED reachable

\* handlePreferencesChange: saved in the dialog or toggled in the menu
ChangePreferences(settings) ==
    /\ running
    /\ settings # prefs
    /\ prefs' = settings
    /\ failedRestarts' = 0
    /\ tunnelTimer' = 0
    /\ UNCHANGED <<processVars, healthVars, statusVars, running, envVars>>

-----------------------------------------------------------------------------
(* The ssh process *)

\* started() comes after waitForStarted gave up.
ProcessStarted ==
    /\ running /\ process = "Starting"
    /\ \E started \in HandleStart(Members) : SetMembers(started)
    /\ process' = "Running" /\ ssh' = "connecting"
    /\ UNCHANGED <<applied, identityFile, warmingUp, probes, checks, userVars, envVars>>

\* Only errorOccurred() tells about this, and nothing is connected to it.
ProcessFailsToStart ==
    /\ running /\ process = "Starting"
    /\ process' = "NotRunning"
    /\ UNCHANGED <<applied, ssh, stoppedIntentionally, identityFile, healthVars,
                   restartVars, statusVars, userVars, envVars>>

\* What ssh does on its own; the application has not been told yet.
Ssh(state) ==
    /\ ssh' = state
    /\ UNCHANGED <<applied, process, stoppedIntentionally, identityFile, healthVars,
                   restartVars, statusVars, userVars, envVars>>

SshListens == ssh = "connecting" /\ ~foreign /\ Ssh("listening")
SshIsRefused == ssh = "connecting" /\ Ssh("refused")
SshFails == ssh = "connecting" /\ Ssh("failed")
SshIsLost == ssh = "listening" /\ Ssh("lost")

ProcessFinished ==
    /\ running /\ process = "Running" /\ ssh \in Exited
    /\ SetMembers(HandleFinish(Members, ssh))
    /\ process' = "NotRunning" /\ ssh' = "none"
    /\ UNCHANGED <<applied, identityFile, warmingUp, probes, checks, userVars, envVars>>

\* A listener that is not the child of this application: with
\* ExitOnForwardFailure ssh fails while the port is taken.
ForeignListens ==
    /\ Faults # {}
    /\ ~foreign /\ ssh # "listening"
    /\ foreign' = TRUE
    /\ UNCHANGED <<processVars, healthVars, restartVars, statusVars, userVars, reachable>>

ForeignEnds ==
    /\ foreign
    /\ foreign' = FALSE
    /\ UNCHANGED <<processVars, healthVars, restartVars, statusVars, userVars, reachable>>

-----------------------------------------------------------------------------
(* Health checks *)

\* maybeRunHealthCheck.  Until ssh opened its port the check only connects to
\* the port; then it connects to a website through it.
HealthTimeout ==
    /\ running /\ healthTimer
    /\ healthTimer' = FALSE
    /\ IF process # "Running"
       THEN healthSocket' = NoSocket /\ UNCHANGED <<probes, checks>>
       ELSE \E socket \in SocketIds \ (probes \cup checks) :
                /\ healthSocket' = socket
                /\ probes' = IF portOpened THEN probes ELSE probes \cup {socket}
                /\ checks' = IF portOpened THEN checks \cup {socket} ELSE checks
    /\ UNCHANGED <<processVars, portOpened, warmingUp, healthFails, restartVars,
                   statusVars, userVars, envVars>>

\* Somebody accepts connections to the SOCKS port, or did so until now.
PortAccepts == ssh \in {"listening", "lost"} \/ foreign

\* The socket is disconnected, refused or aborted after its 3 seconds.
Dispose(socket) ==
    /\ socket \in probes \cup checks
    /\ probes' = probes \ {socket}
    /\ checks' = checks \ {socket}

Current(socket) ==
    /\ Dispose(socket)
    /\ socket = healthSocket
    /\ healthSocket' = NoSocket

\* handleHealthCheckSocketStateChange: the socket of a stopped check
ObsoleteSocketEnds(socket) ==
    /\ Dispose(socket)
    /\ socket # healthSocket
    /\ UNCHANGED <<processVars, portOpened, warmingUp, healthTimer, healthSocket,
                   healthFails, restartVars, statusVars, userVars, envVars>>

ProbeSucceeds(socket) ==
    /\ socket \in probes /\ PortAccepts
    /\ Current(socket)
    /\ portOpened' = TRUE
    /\ warmingUp' = TRUE
    /\ healthTimer' = TRUE
    /\ UNCHANGED <<processVars, healthFails, restartVars, statusVars, userVars, envVars>>

ProbeFailsForGood(socket) ==   \* mutant
    /\ socket \in probes
    /\ Current(socket)
    /\ UNCHANGED <<processVars, portOpened, warmingUp, healthTimer, healthFails, restartVars,
                   statusVars, userVars, envVars>>

ProbeFails(socket) ==
    /\ socket \in probes
    /\ Current(socket)
    /\ healthTimer' = TRUE
    /\ UNCHANGED <<processVars, portOpened, warmingUp, healthFails, restartVars,
                   statusVars, userVars, envVars>>

CheckSucceeds(socket) ==
    /\ socket \in checks /\ PortAccepts
    /\ Current(socket)
    /\ internetReachable' = TRUE
    /\ healthFails' = 0
    /\ failedRestarts' = 0
    /\ healthTimer' = TRUE
    /\ UNCHANGED <<processVars, portOpened, warmingUp, tunnelTimer, httpListening,
                   userVars, envVars>>

CheckFailsInWarmup(socket) ==
    /\ socket \in checks /\ warmingUp
    /\ Current(socket)
    /\ internetReachable' = FALSE
    /\ healthTimer' = TRUE
    /\ UNCHANGED <<processVars, portOpened, warmingUp, healthFails, restartVars,
                   httpListening, userVars, envVars>>

\* The process is left running when the restart is scheduled.
CheckFails(socket) ==
    /\ socket \in checks /\ ~warmingUp
    /\ socket = healthSocket
    /\ Dispose(socket)
    /\ LET failed == [Members EXCEPT !.healthSocket = NoSocket, !.internetReachable = FALSE,
                                     !.healthFails = @ + 1,
                                     !.healthTimer = ~LimitReached(healthFails + 1)]
       IN  SetMembers(IF LimitReached(failed.healthFails) THEN ScheduleRestart(failed, FALSE)
                      ELSE failed)
    /\ UNCHANGED <<applied, process, ssh, identityFile, warmingUp, userVars, envVars>>

\* 5 seconds passed since the probe succeeded.
WarmupElapses ==
    /\ warmingUp
    /\ warmingUp' = FALSE
    /\ UNCHANGED <<processVars, portOpened, healthTimer, healthSocket, probes, checks,
                   healthFails, restartVars, statusVars, userVars, envVars>>

SocketEnds(socket) ==
    \/ ObsoleteSocketEnds(socket)
    \/ ProbeSucceeds(socket)
    \/ ProbeFails(socket)
    \/ CheckSucceeds(socket)
    \/ CheckFailsInWarmup(socket)
    \/ CheckFails(socket)

-----------------------------------------------------------------------------
Application ==
    \/ TunnelTimeout
    \/ ProcessStarted
    \/ ProcessFinished
    \/ HealthTimeout
    \/ \E socket \in SocketIds : SocketEnds(socket)

User ==
    \/ Boot
    \/ Quit
    \/ ReconnectNow
    \/ \E settings \in Settings : ChangePreferences(settings)

Environment ==
    \/ Crash
    \/ \E status \in BOOLEAN : NetworkEvent(status)
    \/ Wake
    \/ ProcessFailsToStart
    \/ SshListens \/ SshIsRefused \/ SshFails \/ SshIsLost
    \/ ForeignListens \/ ForeignEnds
    \/ WarmupElapses

Next == Application \/ User \/ Environment

Spec == Init /\ [][Next]_vars

-----------------------------------------------------------------------------
(* What the supervisor must never do.  Two of the invariants have parts     *)
(* with a name of their own, which the proofs are about.                   *)

\* A running ssh is always being watched: a health check is awaited or in
\* progress, or a restart is scheduled.  No handler may leave the process
\* without any of them (handleHealthCheckSocketStateChange, stopHealthCheck).
WatchdogArmed ==
    process = "Running" =>
        healthTimer \/ healthSocket # NoSocket \/ tunnelTimer # Inactive

\* An enabled tunnel without a process is always going to be retried, unless
\* there is no network (a network change retries) or the key needs a
\* passphrase (changed settings retry): the early returns of
\* maybeRestartTunnelProcess and the exits nobody is told about lose nothing.
RetryPending ==
    (running /\ prefs.enabled /\ process = "NotRunning" /\ tunnelTimer = Inactive) =>
        ~reachable \/ prefs.keyEncrypted

\* Checks stop at the limit of failures: from then on only a restart can make
\* the tunnel open again, so no check may be awaited or in progress.
ChecksStopAtLimit ==
    healthTimer \/ healthSocket # NoSocket => healthFails < HealthFailsLimit

\* A process whose start was given up is not forgotten: no signal tells that
\* it failed later, so only the timer of 60 seconds can retry.
StartingIsSupervised == process = "Starting" => tunnelTimer # Inactive

\* There is always something that goes on with an enabled tunnel: no handler,
\* and no order of them, leaves one that nothing will ever look at again.
NothingIsForgotten == WatchdogArmed /\ StartingIsSupervised /\ RetryPending

\* Once a tunnel that is switched off has been handled, nothing of it is left:
\* no ssh, no key file, no HTTP proxy, no check in progress.
DisabledIsQuiet ==
    (running /\ ~prefs.enabled /\ tunnelTimer = Inactive) =>
        /\ process = "NotRunning" /\ ssh = "none"
        /\ ~identityFile /\ ~httpListening
        /\ ~healthTimer /\ healthSocket = NoSocket

\* An exit of ssh is taken for an intentional stop (and not retried) only
\* inside stopTunnelProcess, never for a process that is left alive.
UnexpectedExitNoticed == process # "NotRunning" => ~stoppedIntentionally

\* A process that is not about to be restarted runs with the saved settings,
\* and the HTTP proxy listens only if they ask for it.
SettingsApplied ==
    (process # "NotRunning" /\ tunnelTimer = Inactive) =>
        applied = prefs /\ (httpListening => prefs.http)

\* What is taken over from one process to the next: neither the mark of an
\* intentional stop nor the settings of the one before (handlePreferencesChange
\* while ssh starts, runs or exits).
ProcessIsAsWanted == UnexpectedExitNoticed /\ SettingsApplied

\* The HTTP proxy and the indication of an open tunnel live no longer than
\* the ssh process they stand on.
NothingOutlivesProcess ==
    process # "Running" =>
        /\ ~internetReachable /\ ~httpListening
        /\ ~healthTimer /\ healthSocket = NoSocket

\* The tunnel is reported open only after the ssh of this application opened
\* its port ("Local port is opened by ssh only after authentication").
OpenIsOurs ==
    (process = "Running" /\ (portOpened \/ internetReachable)) =>
        ssh \in {"listening", "lost"}

\* Quitting leaves neither ssh nor the private key behind.
QuitLeavesNothing == ~running => ssh = "none" /\ ~identityFile /\ ~httpListening
=============================================================================
