------------------------ MODULE TunnelObserverProofs ------------------------
(***************************************************************************)
(* What TunnelHistory and TunnelStatus say about the tunnel they observe,  *)
(* proved for every value of the constants.  Both take the steps of Tunnel *)
(* and write variables of their own, so the inductive invariant of Tunnel  *)
(* holds in them, and theirs build on it.                                  *)
(***************************************************************************)
EXTENDS TunnelHistory, TunnelStatus, TunnelProofs

-----------------------------------------------------------------------------
(* TunnelHistory *)

\* The observer restricts the steps of the supervisor to no more than Next.
LEMMA HistoryStep == [HNext]_<<vars, historyVars>> => [Next]_vars
  <1>1. Attempt \/ Exit \/ NetworkChanges \/ SettingsChange \/ ApplicationEnds => Next
    BY DEF Attempt, Exit, NetworkChanges, SettingsChange, ApplicationEnds, Next, Application,
           User, Environment
  <1>2. \A socket \in SocketIds : CheckEnds(socket) => Next
    BY DEF CheckEnds, Next, Application
  <1>3. Unremarkable => Next
    BY DEF Unremarkable, Next, Application, User, Environment
  <1>. QED  BY <1>1, <1>2, <1>3 DEF HNext

LEMMA HistoryInvariance == HSpec => []IInv
  BY InitInv, NextInv, HistoryStep, PTL DEF HSpec, HInit

\* A refused ssh has ended, so there is nothing whose checks could schedule
\* an earlier restart, and the application that remembers it still runs.
HistoryInv ==
    /\ stale \subseteq LiveSockets
    /\ ResultsAreCurrent
    /\ denied \in BOOLEAN /\ fresh \in BOOLEAN
    /\ denied => running /\ process = "NotRunning"
    /\ AuthBackoffKept

LEMMA HistoryInit == HInit => HistoryInv
  BY DEF HInit, Init, HistoryInv, ResultsAreCurrent, AuthBackoffKept, LiveSockets

\* Every way an attempt ends drops the socket of the check in progress.
LEMMA AttemptDropsSocket ==
    TypeOK /\ MaybeRestartTunnelProcess => healthSocket' = NoSocket
  BY RestartOutcomes
     DEF MaybeRestartTunnelProcess, OutcomeDisabled, OutcomeWithoutNetwork, OutcomeWithoutSsh,
         OutcomeWithEncryptedKey, OutcomeWriteFailed, OutcomeStartFailed, OutcomeStartTimeout,
         OutcomeStarted, AttemptGivenUp, ChecksStopped

\* A restart after a refused authentication waits for the long delay.
LEMMA AuthDelay ==
    ASSUME TypeOK, RestartScheduled(TRUE)
    PROVE  tunnelTimer' >= DelayAuthBase
  <1>1. failedRestarts \in Nat
    BY DelayAssumption DEF TypeOK
  <1>. QED  BY <1>1, DelayBounded DEF RestartScheduled, BaseDelay

LEMMA HistoryInvStep ==
    ASSUME IInv, IInv', HistoryInv, [HNext]_<<vars, historyVars>>
    PROVE  HistoryInv'
  <1>. USE HandlerOutcomes
  <1>. USE DEF HistoryInv, ResultsAreCurrent, AuthBackoffKept, LiveSockets
  <1>. DEFINE Kept == UNCHANGED <<healthSocket, probes, checks, process, running, tunnelTimer>>
  <1>1. CASE UNCHANGED <<vars, historyVars>>
    BY <1>1 DEF vars, processVars, healthVars, restartVars, userVars, historyVars
  <1>2. /\ NoSocket \notin SocketIds
        /\ probes \subseteq SocketIds /\ checks \subseteq SocketIds
        /\ probes' \subseteq SocketIds /\ checks' \subseteq SocketIds
    BY TunnelAssumption DEF IInv, TypeOK
  <1>3. CASE Attempt
    <2>1. MaybeRestartTunnelProcess
      BY <1>3 DEF Attempt, TunnelTimeout, ReconnectNow
    <2>2. healthSocket' = NoSocket
      BY <2>1, AttemptDropsSocket DEF IInv
    <2>. QED  BY <1>2, <1>3, <2>2 DEF Attempt
  <1>4. CASE Exit
    <2>1. healthSocket' = NoSocket /\ process' = "NotRunning" /\ running /\ running' = running
      BY <1>4 DEF Exit, FinishOutcome, ChecksStopped, userVars
    <2>2. ~stoppedIntentionally
      BY <1>4 DEF Exit, FinishOutcome, IInv, UnexpectedExitNoticed
    <2>3. denied' => tunnelTimer' >= DelayAuthBase
      BY <1>4, <2>2, AuthDelay DEF Exit, FinishOutcome, IInv
    <2>4. UNCHANGED <<probes, checks, fresh>>
      BY <1>4 DEF Exit, FinishOutcome
    <2>. QED  BY <1>2, <1>4, <2>1, <2>3, <2>4 DEF Exit
  <1>5. CASE NetworkChanges
    <2>1. UNCHANGED <<healthSocket, probes, checks, process, running>>
      BY <1>5 DEF NetworkChanges, Wake, NetworkEvent, HandleNetworkChange, healthVars,
                  processVars, userVars
    <2>. QED  BY <1>5, <2>1 DEF NetworkChanges
  <1>6. CASE SettingsChange
    <2>1. UNCHANGED <<healthSocket, probes, checks>>
      BY <1>6 DEF SettingsChange, ChangePreferences, healthVars
    <2>. QED  BY <1>6, <2>1 DEF SettingsChange
  <1>7. CASE ApplicationEnds
    BY <1>7 DEF ApplicationEnds
  <1>8. ASSUME NEW socket \in SocketIds, CheckEnds(socket)
        PROVE  HistoryInv'
    <2>1. /\ probes' = probes \ {socket} /\ checks' = checks \ {socket}
          /\ UNCHANGED <<process, running>>
          /\ stale' = stale \ {socket} /\ UNCHANGED <<denied, fresh>>
      BY <1>8 DEF CheckEnds, SocketEnds, ObsoleteSocketEnds, ProbeSucceeds, ProbeFails,
                  CheckSucceeds, CheckFailsInWarmup, CheckOutcome, Current, Dispose, processVars,
                  userVars
    <2>2. CASE ObsoleteSocketEnds(socket)
      <3>1. UNCHANGED <<healthSocket, tunnelTimer>>
        BY <2>2 DEF ObsoleteSocketEnds, restartVars
      <3>. QED  BY <2>1, <3>1
    <2>3. CASE ~ObsoleteSocketEnds(socket)
      <3>1. Current(socket)
        BY <1>8, <2>3 DEF CheckEnds, SocketEnds, ProbeSucceeds, ProbeFails, CheckSucceeds,
                          CheckFailsInWarmup, CheckOutcome
      <3>2. healthSocket' = NoSocket /\ healthSocket # NoSocket
        BY <1>2, <3>1 DEF Current
      <3>3. process = "Running"
        BY <3>2 DEF IInv, NothingOutlivesProcess
      <3>. QED  BY <1>2, <2>1, <3>2, <3>3
    <2>. QED  BY <2>2, <2>3
  <1>9. CASE Unremarkable
    <2>1. CASE Boot
      BY <1>9, <2>1 DEF Boot, Unremarkable, historyVars, healthVars, processVars
    <2>2. CASE HealthTimeout
      <3>1. UNCHANGED <<process, running, tunnelTimer>>
        BY <2>2 DEF HealthTimeout, processVars, userVars, restartVars
      <3>2. healthSocket' \notin stale /\ stale \subseteq probes' \cup checks'
        BY <1>2, <2>2 DEF HealthTimeout
      <3>. QED  BY <1>9, <3>1, <3>2 DEF Unremarkable, historyVars
    <2>3. CASE ProcessStarted \/ ProcessFailsToStart
      <3>1. process = "Starting" /\ UNCHANGED <<healthSocket, probes, checks, running, tunnelTimer>>
        BY <2>3 DEF StartOutcome, ProcessFailsToStart, healthVars, restartVars, userVars
      <3>. QED  BY <1>9, <3>1 DEF Unremarkable, historyVars
    <2>4. CASE SshListens \/ SshIsRefused \/ SshFails \/ SshIsLost
      <3>1. Kept
        BY <2>4 DEF SshListens, SshIsRefused, SshFails, SshIsLost, Ssh, healthVars, restartVars,
                    userVars
      <3>. QED  BY <1>9, <3>1 DEF Unremarkable, historyVars
    <2>5. CASE ForeignListens \/ ForeignEnds \/ WarmupElapses
      <3>1. Kept
        BY <2>5 DEF ForeignListens, ForeignEnds, WarmupElapses, processVars, healthVars,
                    restartVars, userVars
      <3>. QED  BY <1>9, <3>1 DEF Unremarkable, historyVars
    <2>. QED  BY <1>9, <2>1, <2>2, <2>3, <2>4, <2>5 DEF Unremarkable
  <1>. QED  BY <1>1, <1>3, <1>4, <1>5, <1>6, <1>7, <1>8, <1>9 DEF HNext

LEMMA HistoryHolds == HSpec => []HistoryInv
  <1>1. IInv /\ IInv' /\ HistoryInv /\ [HNext]_<<vars, historyVars>> => HistoryInv'
    BY HistoryInvStep
  <1>. QED  BY HistoryInvariance, HistoryInit, <1>1, PTL DEF HSpec

\* handleHealthCheckSocketStateChange never takes the outcome of a check of an
\* earlier ssh for one of the current ssh: whatever stopped that one dropped
\* the socket, and a new check gets a socket that is not in use.
THEOREM OnlyCurrentResults == HSpec => []ResultsAreCurrent
  <1>1. HistoryInv => ResultsAreCurrent
    BY DEF HistoryInv
  <1>. QED  BY HistoryHolds, <1>1, PTL

\* Between a refused authentication and the next attempt nothing brings the
\* restart forward except the user and a changed network: not a late result of
\* a health check, and not the end of the process itself.
THEOREM RefusalIsRetriedLate == HSpec => []AuthBackoffKept
  <1>1. HistoryInv => AuthBackoffKept
    BY DEF HistoryInv
  <1>. QED  BY HistoryHolds, <1>1, PTL

-----------------------------------------------------------------------------
(* TunnelStatus *)

statusSpecVars == <<vars, indicationVars>>

LEMMA SRestartIsRestart == SRestart => MaybeRestartTunnelProcess
  BY DEF SRestart, MaybeRestartTunnelProcess

\* The indication restricts the steps of the supervisor to no more than Next.
LEMMA StatusStep == [SNext]_statusSpecVars => [Next]_vars
  <1>1. STunnelTimeout \/ SReconnectNow => Next
    BY SRestartIsRestart
       DEF STunnelTimeout, SReconnectNow, TunnelTimeout, ReconnectNow, Next, Application, User
  <1>2. SNetworkChange \/ SChangePreferences \/ SProcessStarted \/ SProcessFinished \/ SEnd => Next
    BY DEF SNetworkChange, SChangePreferences, SProcessStarted, SProcessFinished, SEnd, Next,
           Application, User, Environment
  <1>3. \A socket \in SocketIds : SCheckSucceeds(socket) \/ SCheckFails(socket) => Next
    BY DEF SCheckSucceeds, SCheckFails, SocketEnds, Next, Application
  <1>4. StatusTimeout \/ CountdownTimeout => UNCHANGED vars
    BY DEF StatusTimeout, CountdownTimeout
  <1>5. SUnseen => Next
    BY DEF SUnseen, SocketEnds, Next, Application, User, Environment
  <1>. QED  BY <1>1, <1>2, <1>3, <1>4, <1>5 DEF SNext, statusSpecVars

LEMMA StatusInvariance == SSpec => []IInv
  BY InitInv, NextInv, StatusStep, PTL DEF SSpec, SInit, statusSpecVars

StatusInv ==
    /\ IconIsFresh
    /\ ReasonIsAnnounced
    /\ BlockedIsExplained
    /\ ReconnectIsOffered
    /\ HttpFailureShown

LEMMA StatusInit == SInit => StatusInv
  BY DEF SInit, Init, StatusInv, IconIsFresh, ReasonIsAnnounced, BlockedIsExplained,
         ReconnectIsOffered, HttpFailureShown, TunnelIsOpened

\* An attempt to restart schedules an update of the indication and leaves a
\* reason when it leaves neither a process nor a timer.
LEMMA SRestartStep ==
    ASSUME IInv, IInv', SRestart
    PROVE  StatusInv'
  <1>t. TypeOK
    BY DEF IInv
  <1>. USE <1>t, RestartOutcomes
  <1>. USE FixedDelays
  <1>1. statusTimer' = TRUE
    BY DEF SRestart, SetLastError
  <1>2. IconIsFresh' /\ ReasonIsAnnounced' /\ ReconnectIsOffered'
    BY <1>1 DEF IconIsFresh, ReasonIsAnnounced, ReconnectIsOffered
  <1>3. CASE RestartStarted /\ UpdateHttpError
    <2>1. process' = "Running" /\ UNCHANGED prefs
      BY <1>3 DEF OutcomeStarted, StartHandled, userVars
    <2>2. httpListening' \in BOOLEAN /\ prefs.enabled
      BY <1>3 DEF OutcomeStarted, MayStart, IInv, TypeOK
    <2>3. httpError' = (prefs.enabled /\ prefs.http /\ ~httpListening')
      BY <1>3 DEF UpdateHttpError
    <2>4. HttpFailureShown'
      BY <2>1, <2>2, <2>3 DEF HttpFailureShown
    <2>. QED  BY <1>2, <2>1, <2>4 DEF StatusInv, BlockedIsExplained
  <1>4. CASE \/ RestartDisabled
             \/ RestartWithoutNetwork /\ SetLastError("noNetwork")
             \/ RestartWithEncryptedKey /\ SetLastError("keyEncrypted")
    <2>1. process' = "NotRunning" /\ UNCHANGED prefs
      BY <1>4 DEF OutcomeDisabled, OutcomeWithoutNetwork, OutcomeWithEncryptedKey, AttemptGivenUp,
                  userVars
    <2>2. BlockedIsExplained'
      BY <1>4, <2>1 DEF BlockedIsExplained, OutcomeDisabled, SetLastError
    <2>. QED  BY <1>2, <2>1, <2>2 DEF StatusInv, HttpFailureShown
  <1>5. CASE RestartWithoutSsh \/ RestartWriteFailed \/ RestartStartFailed \/ RestartStartTimeout
    <2>1. process' # "Running"
      BY <1>5 DEF OutcomeWithoutSsh, OutcomeWriteFailed, OutcomeStartFailed, OutcomeStartTimeout,
                  AttemptGivenUp
    <2>2. CASE RestartWriteFailed
      <3>1. tunnelTimer' # Inactive
        BY <2>2, Scheduled DEF OutcomeWriteFailed, IInv
      <3>. QED  BY <1>2, <2>1, <3>1 DEF StatusInv, HttpFailureShown, BlockedIsExplained
    <2>3. CASE RestartWithoutSsh \/ RestartStartFailed \/ RestartStartTimeout
      <3>1. tunnelTimer' # Inactive
        BY <2>3 DEF OutcomeWithoutSsh, OutcomeStartFailed, OutcomeStartTimeout
      <3>. QED  BY <1>2, <2>1, <3>1 DEF StatusInv, HttpFailureShown, BlockedIsExplained
    <2>. QED  BY <1>5, <2>2, <2>3
  <1>. QED  BY <1>3, <1>4, <1>5 DEF SRestart

LEMMA StatusInvStep ==
    ASSUME IInv, IInv', StatusInv, [SNext]_statusSpecVars
    PROVE  StatusInv'
  <1>. USE HandlerOutcomes
  <1>. USE FixedDelays
  <1>. USE DEF IconIsFresh, ReasonIsAnnounced, BlockedIsExplained, ReconnectIsOffered,
               HttpFailureShown
  <1>1. CASE UNCHANGED statusSpecVars
    BY <1>1 DEF statusSpecVars, StatusInv, TunnelIsOpened, RestartIsAwaited, vars, processVars, restartVars,
                statusVars, userVars, indicationVars, errorVars, shownVars
  <1>2. CASE STunnelTimeout \/ SReconnectNow
    BY <1>2, SRestartStep DEF STunnelTimeout, SReconnectNow
  <1>3. CASE SNetworkChange
    <2>1. tunnelTimer' # Inactive
      BY <1>3 DEF SNetworkChange, Wake, NetworkEvent, HandleNetworkChange
    <2>. QED  BY <1>3, <2>1 DEF StatusInv, SNetworkChange, SetLastError
  <1>4. CASE SChangePreferences
    <2>1. tunnelTimer' = 0 /\ UNCHANGED <<process, internetReachable>>
      BY <1>4 DEF SChangePreferences, ChangePreferences, processVars, statusVars
    <2>2. lastError' = "none" /\ UNCHANGED <<indicatedOpen, statusTimer>>
      BY <1>4 DEF SChangePreferences, shownVars
    <2>. QED  BY <2>1, <2>2 DEF StatusInv, TunnelIsOpened
  <1>5. CASE SProcessStarted
    <2>1. tunnelTimer' # Inactive
      BY <1>5 DEF SProcessStarted, StartOutcome, IInv, StartingIsSupervised, restartVars
    <2>. QED  BY <1>5, <2>1 DEF StatusInv, SProcessStarted
  <1>6. CASE SProcessFinished
    <2>1. process' = "NotRunning" /\ statusTimer' = TRUE
      BY <1>6 DEF SProcessFinished, FinishOutcome
    <2>2. ~stoppedIntentionally /\ (ssh = "refused") \in BOOLEAN
      BY <1>6 DEF SProcessFinished, FinishOutcome, IInv, UnexpectedExitNoticed
    <2>3. tunnelTimer' # Inactive
      BY <1>6, <2>2, Scheduled DEF SProcessFinished, FinishOutcome, IInv
    <2>. QED  BY <2>1, <2>3 DEF StatusInv
  <1>7. ASSUME NEW socket \in SocketIds, SCheckSucceeds(socket) \/ SCheckFails(socket)
        PROVE  StatusInv'
    <2>1. statusTimer' = TRUE /\ UNCHANGED <<process, prefs, httpListening, httpError>>
      BY <1>7 DEF SCheckSucceeds, SCheckFails, CheckSucceeds, CheckFailsInWarmup, CheckOutcome,
                  processVars, userVars
    <2>2. healthSocket # NoSocket
      BY <1>7, TunnelAssumption
         DEF SCheckSucceeds, SCheckFails, CheckSucceeds, CheckFailsInWarmup, CheckOutcome, Current
    <2>3. process = "Running"
      BY <2>2 DEF IInv, NothingOutlivesProcess
    <2>4. UNCHANGED tunnelTimer \/ tunnelTimer' # Inactive
      <3>1. CASE CheckFails(socket) /\ RestartScheduled(FALSE)
        BY <3>1, Scheduled DEF IInv
      <3>. QED  BY <1>7, <3>1 DEF SCheckSucceeds, SCheckFails, CheckSucceeds, CheckFailsInWarmup,
                                  CheckOutcome, restartVars
    <2>. QED  BY <2>1, <2>3, <2>4 DEF StatusInv
  <1>8. CASE StatusTimeout
    <2>1. UNCHANGED <<process, internetReachable, prefs, tunnelTimer, running, httpListening,
                      lastError, httpError>>
      BY <1>8 DEF StatusTimeout, vars, processVars, statusVars, userVars, restartVars
    <2>2. indicatedOpen' = TunnelIsOpened' /\ TunnelIsOpened' = TunnelIsOpened
      BY <1>8, <2>1 DEF StatusTimeout, TunnelIsOpened
    <2>3. reconnectVisible' = RestartIsAwaited'
      BY <1>8 DEF StatusTimeout, UpdateStatusText
    <2>4. ReasonIsAnnounced'
      BY <1>8, <2>1, <2>2 DEF StatusTimeout, Announced
    <2>. QED  BY <2>1, <2>2, <2>3, <2>4 DEF StatusInv
  <1>9. CASE CountdownTimeout
    <2>1. UNCHANGED <<process, internetReachable, prefs, tunnelTimer, running, httpListening,
                      lastError, notifiedError, httpError, indicatedOpen, statusTimer>>
      BY <1>9 DEF CountdownTimeout, vars, processVars, statusVars, userVars, restartVars, errorVars
    <2>2. RestartIsAwaited' = RestartIsAwaited /\ TunnelIsOpened' = TunnelIsOpened
      BY <2>1 DEF RestartIsAwaited, TunnelIsOpened
    <2>3. reconnectVisible' = RestartIsAwaited
      BY <1>9 DEF CountdownTimeout
    <2>. QED  BY <2>1, <2>2, <2>3 DEF StatusInv
  <1>10. CASE SEnd
    <2>1. process' = "NotRunning" /\ running' = FALSE
      BY <1>10 DEF SEnd, Quit, Crash, Forget
    <2>. QED  BY <1>10, <2>1 DEF SEnd, StatusInv, TunnelIsOpened
  <1>11. CASE SUnseen
    <2>1. UNCHANGED <<lastError, notifiedError, httpError, indicatedOpen, reconnectVisible,
                      statusTimer>>
      BY <1>11 DEF SUnseen, indicationVars, errorVars, shownVars
    <2>2. CASE Boot
      <3>1. tunnelTimer' = 0 /\ UNCHANGED <<process, internetReachable, httpListening, prefs>>
        BY <2>2 DEF Boot, processVars, statusVars
      <3>. QED  BY <2>1, <3>1 DEF StatusInv, TunnelIsOpened
    <2>3. CASE ProcessFailsToStart
      <3>1. /\ process = "Starting" /\ process' = "NotRunning"
            /\ UNCHANGED <<tunnelTimer, prefs, running>>
        BY <2>3 DEF ProcessFailsToStart, restartVars, userVars
      <3>2. tunnelTimer # Inactive
        BY <3>1 DEF IInv, StartingIsSupervised
      <3>. QED  BY <2>1, <3>1, <3>2 DEF StatusInv, TunnelIsOpened, RestartIsAwaited
    <2>4. ASSUME UNCHANGED <<process, internetReachable, httpListening, prefs, tunnelTimer,
                             running>>
          PROVE  StatusInv'
      BY <2>1, <2>4 DEF StatusInv, TunnelIsOpened, RestartIsAwaited
    <2>5. ASSUME NEW socket \in SocketIds,
                 ObsoleteSocketEnds(socket) \/ ProbeSucceeds(socket) \/ ProbeFails(socket)
          PROVE  StatusInv'
      BY <2>4, <2>5 DEF ObsoleteSocketEnds, ProbeSucceeds, ProbeFails, processVars, statusVars,
                        userVars, restartVars
    <2>6. CASE HealthTimeout \/ ForeignListens \/ ForeignEnds \/ WarmupElapses
      BY <2>4, <2>6 DEF HealthTimeout, ForeignListens, ForeignEnds, WarmupElapses, processVars,
                        statusVars, userVars, restartVars
    <2>7. CASE SshListens \/ SshIsRefused \/ SshFails \/ SshIsLost
      BY <2>4, <2>7 DEF SshListens, SshIsRefused, SshFails, SshIsLost, Ssh, statusVars, userVars,
                        restartVars
    <2>. QED  BY <1>11, <2>2, <2>3, <2>5, <2>6, <2>7 DEF SUnseen
  <1>. QED  BY <1>1, <1>2, <1>3, <1>4, <1>5, <1>6, <1>7, <1>8, <1>9, <1>10, <1>11 DEF SNext

LEMMA StatusHolds == SSpec => []StatusInv
  <1>1. IInv /\ IInv' /\ StatusInv /\ [SNext]_statusSpecVars => StatusInv'
    BY StatusInvStep
  <1>. QED  BY StatusInvariance, StatusInit, <1>1, PTL DEF SSpec, statusSpecVars

\* Every handler that opens or closes the tunnel schedules maybeUpdateStatus:
\* the icon tells the truth, or an update of it is due.
THEOREM IconTellsTruth == SSpec => []IconIsFresh
  <1>1. StatusInv => IconIsFresh
    BY DEF StatusInv
  <1>. QED  BY StatusHolds, <1>1, PTL

\* maybeUpdateStatus lets no reason of a closed tunnel pass without a
\* notification, whatever happened since the last update.
THEOREM ReasonsAreAnnounced == SSpec => []ReasonIsAnnounced
  <1>1. StatusInv => ReasonIsAnnounced
    BY DEF StatusInv
  <1>. QED  BY StatusHolds, <1>1, PTL

\* updateStatusText: "Reconnect Now" is shown exactly while a restart is
\* awaited for long enough.
THEOREM ReconnectWhenAwaited == SSpec => []ReconnectIsOffered
  <1>1. StatusInv => ReconnectIsOffered
    BY DEF StatusInv
  <1>. QED  BY StatusHolds, <1>1, PTL

\* An enabled tunnel without process and timer says what it waits for, and an
\* HTTP proxy that does not listen says so.
THEOREM NothingFailsSilently == SSpec => []FailuresAreShown
  <1>1. StatusInv => FailuresAreShown
    BY DEF StatusInv, FailuresAreShown
  <1>. QED  BY StatusHolds, <1>1, PTL
=============================================================================
