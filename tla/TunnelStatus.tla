---------------------------- MODULE TunnelStatus ----------------------------
(***************************************************************************)
(* What Shprot tells the user about the tunnel: the icon, the reason of a  *)
(* failure, the notifications and the "Reconnect Now" item of the menu.    *)
(* Every step of Tunnel is taken together with what its handler does to    *)
(* these; two timers bring the indication up to date with the tunnel.      *)
(***************************************************************************)
EXTENDS Tunnel

CONSTANT CountdownMin   \* TunnelProcessRestartCountdownDelayMin

ASSUME StatusAssumption == CountdownMin \in Nat \ {0}

VARIABLES
    lastError,          \* m_lastError and m_lastErrorSummary, by the reason
    notifiedError,      \* m_notifiedError
    httpError,          \* m_httpProxyError is not empty
    indicatedOpen,      \* m_tunnelIndicatedAsOpened
    reconnectVisible,   \* m_reconnectAction->isVisible()
    statusTimer,        \* m_statusTimer->isActive()
    countdownTimer      \* m_statusCountdownTimer->isActive()

shownVars == <<indicatedOpen, reconnectVisible>>
errorVars == <<lastError, notifiedError, httpError>>
indicationVars == <<errorVars, shownVars, statusTimer, countdownTimer>>

\* Reasons are "none", "noNetwork", "noSsh", "keyEncrypted", "writeFailed",
\* "startFailed", "sshError" and "noInternet"; the other variables are Boolean.

TunnelIsOpened == process = "Running" /\ internetReachable

RestartIsAwaited ==
    /\ prefs.enabled /\ ~TunnelIsOpened
    /\ tunnelTimer >= CountdownMin

SetFirstError(reason) ==   \* mutant
    /\ lastError' = IF lastError = "none" THEN reason ELSE lastError
    /\ statusTimer' = TRUE
SetLastError(reason) == lastError' = reason /\ statusTimer' = TRUE

\* updateStatusText, in the state the handler leaves
ShowReconnectOnly ==   \* mutant
    /\ reconnectVisible' = (reconnectVisible \/ RestartIsAwaited')
    /\ countdownTimer' = (countdownTimer \/ RestartIsAwaited')
UpdateStatusText ==
    /\ reconnectVisible' = RestartIsAwaited'
    /\ countdownTimer' = (countdownTimer \/ RestartIsAwaited')

\* maybeStartHttpProxyServer of a Running process
UpdateHttpError == httpError' = (prefs.enabled /\ prefs.http /\ ~httpListening')

\* A process that was Starting may have started while it was being stopped.
StopIndicated ==
    /\ httpError' \in IF process = "Starting" THEN {httpError} \cup HttpProxyMayListen
                      ELSE {httpError}
    /\ reconnectVisible' \in IF process = "Starting" THEN {reconnectVisible, FALSE}
                             ELSE {reconnectVisible}
    /\ UNCHANGED <<indicatedOpen, countdownTimer>>

-----------------------------------------------------------------------------
SInit ==
    /\ Init
    /\ lastError = "none" /\ notifiedError = "none" /\ httpError = FALSE
    /\ indicatedOpen = FALSE /\ reconnectVisible = FALSE
    /\ statusTimer = FALSE /\ countdownTimer = FALSE

\* maybeRestartTunnelProcess
SRestart ==
    \/ /\ \/ RestartDisabled /\ SetLastError("none")
          \/ RestartWithoutSsh /\ SetLastError("noSsh")
          \/ RestartWithEncryptedKey /\ SetLastError("keyEncrypted")
          \/ RestartWriteFailed /\ SetLastError("writeFailed")
          \/ RestartStartFailed /\ SetLastError("startFailed")
          \/ RestartStartTimeout /\ SetLastError("startFailed")
       /\ StopIndicated
       /\ UNCHANGED notifiedError
    \/ /\ RestartWithoutNetwork
       /\ SetLastError("noNetwork")
       /\ notifiedError' = "noNetwork"
       /\ StopIndicated
    \/ /\ RestartStarted
       /\ UpdateHttpError /\ UpdateStatusText
       /\ statusTimer' = TRUE
       /\ UNCHANGED <<lastError, notifiedError, indicatedOpen>>

STunnelTimeout ==
    /\ running /\ tunnelTimer # Inactive
    /\ SRestart

SReconnectNow ==
    /\ running /\ reconnectVisible
    /\ SRestart

SNetworkChange ==
    /\ Wake \/ \E status \in BOOLEAN : NetworkEvent(status)
    /\ SetLastError("none")
    /\ UNCHANGED <<notifiedError, httpError, shownVars, countdownTimer>>

\* New settings deserve fresh notifications.
SChangePreferences ==
    /\ \E settings \in Settings : ChangePreferences(settings)
    /\ lastError' = "none" /\ notifiedError' = "none" /\ httpError' = FALSE
    /\ UNCHANGED <<shownVars, statusTimer, countdownTimer>>

SProcessStarted ==
    /\ ProcessStarted
    /\ UpdateHttpError /\ UpdateStatusText
    /\ statusTimer' = TRUE
    /\ UNCHANGED <<lastError, notifiedError, indicatedOpen>>

\* describeSshError finds nothing to tell if ssh was silent.
SProcessFinished ==
    /\ ProcessFinished
    /\ lastError' \in IF stoppedIntentionally THEN {lastError}
                      ELSE IF ssh = "refused" THEN {"sshError"} ELSE {lastError, "sshError"}
    /\ statusTimer' = TRUE
    /\ UNCHANGED <<notifiedError, httpError, shownVars, countdownTimer>>

ReasonIsKept(socket) ==   \* mutant
    /\ CheckSucceeds(socket)
    /\ notifiedError' = "none"
    /\ UNCHANGED <<lastError, statusTimer, httpError, shownVars, countdownTimer>>

SCheckSucceeds(socket) ==
    /\ CheckSucceeds(socket)
    /\ lastError' = "none" /\ notifiedError' = "none"
    /\ statusTimer' = TRUE
    /\ UNCHANGED <<httpError, shownVars, countdownTimer>>

SCheckFails(socket) ==
    /\ \/ CheckFailsInWarmup(socket) /\ UNCHANGED lastError
       \/ /\ CheckFails(socket)
          /\ lastError' = IF healthTimer' THEN lastError ELSE "noInternet"
    /\ statusTimer' = TRUE
    /\ UNCHANGED <<notifiedError, httpError, shownVars, countdownTimer>>

\* maybeUpdateStatus
AnnounceClosing == IF ~TunnelIsOpened /\ indicatedOpen THEN lastError ELSE notifiedError   \* mutant
Announced ==
    IF ~TunnelIsOpened /\ (indicatedOpen \/ lastError # "none") THEN lastError
    ELSE notifiedError

StatusTimeout ==
    /\ running /\ statusTimer
    /\ statusTimer' = FALSE
    /\ UNCHANGED <<vars, lastError, httpError>>
    /\ UpdateStatusText
    /\ indicatedOpen' = TunnelIsOpened
    /\ notifiedError' = Announced

\* The countdown shown in the menu: updateStatusText
CountdownTimeout ==
    /\ running /\ countdownTimer
    /\ reconnectVisible' = RestartIsAwaited
    /\ countdownTimer' = RestartIsAwaited
    /\ UNCHANGED <<vars, errorVars, indicatedOpen, statusTimer>>

SEnd ==
    /\ Quit \/ Crash
    /\ lastError' = "none" /\ notifiedError' = "none" /\ httpError' = FALSE
    /\ indicatedOpen' = FALSE /\ reconnectVisible' = FALSE
    /\ statusTimer' = FALSE /\ countdownTimer' = FALSE

\* Steps the user is told nothing about
SUnseen ==
    /\ \/ Boot \/ HealthTimeout \/ ProcessFailsToStart
       \/ \E socket \in SocketIds :
             ObsoleteSocketEnds(socket) \/ ProbeSucceeds(socket) \/ ProbeFails(socket)
       \/ SshListens \/ SshIsRefused \/ SshFails \/ SshIsLost
       \/ ForeignListens \/ ForeignEnds \/ WarmupElapses
    /\ UNCHANGED indicationVars

SNext ==
    \/ STunnelTimeout \/ SReconnectNow
    \/ SNetworkChange \/ SChangePreferences
    \/ SProcessStarted \/ SProcessFinished
    \/ \E socket \in SocketIds : SCheckSucceeds(socket) \/ SCheckFails(socket)
    \/ StatusTimeout \/ CountdownTimeout
    \/ SEnd
    \/ SUnseen

SSpec == SInit /\ [][SNext]_<<vars, indicationVars>>

-----------------------------------------------------------------------------
\* The icon tells the truth unless a status update is scheduled: no handler
\* that opens or closes the tunnel forgets the status timer.
IconIsFresh == statusTimer \/ (indicatedOpen <=> TunnelIsOpened)

\* Every reason a closed tunnel is left with has been notified about (or is
\* about to be), even if the tunnel closed and failed again between updates.
ReasonIsAnnounced ==
    (~statusTimer /\ ~TunnelIsOpened /\ lastError # "none") => notifiedError = lastError

\* A tunnel that waits for something other than a timer says what it waits
\* for: the network or a key without a passphrase.
BlockedIsExplained ==
    (running /\ prefs.enabled /\ process = "NotRunning" /\ tunnelTimer = Inactive) =>
        lastError \in {"noNetwork", "keyEncrypted"}

\* "Reconnect Now" is offered exactly during a wait that is long enough
\* (README: "shown only during such a wait"), except for the moment before
\* changed settings are applied.
ReconnectIsOffered ==
    (running /\ ~statusTimer /\ tunnelTimer # 0) => (reconnectVisible <=> RestartIsAwaited)

\* The HTTP proxy that was asked for either listens or its failure is shown.
HttpFailureShown ==
    (process = "Running" /\ tunnelTimer = Inactive /\ prefs.http) =>
        (httpListening <=> ~httpError)

\* Nothing that keeps a proxy from working is passed over in silence: the early
\* returns of maybeRestartTunnelProcess and a listener that fails
\* (maybeStartHttpProxyServer) leave a reason, until it is gone.
FailuresAreShown == BlockedIsExplained /\ HttpFailureShown
=============================================================================
