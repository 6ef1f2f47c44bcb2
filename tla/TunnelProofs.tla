---------------------------- MODULE TunnelProofs ----------------------------
(***************************************************************************)
(* The safety invariants of Tunnel, proved for every set of settings and   *)
(* sockets, every limit and every delay.  First, what the restart delays   *)
(* guarantee for every choice of them; last, that Tunnel implements        *)
(* TunnelService.                                                          *)
(***************************************************************************)
EXTENDS TunnelRefinement, TLAPS

-----------------------------------------------------------------------------
(* RestartDelay *)

LEMMA PowersType ==
    \A i \in 1..17 : PowersOfTwo[i] \in Nat /\ PowersOfTwo[i] >= 1
  BY DEF PowersOfTwo

LEMMA PowersGrow ==
    ASSUME NEW i \in 1..17, NEW j \in 1..17, i <= j
    PROVE  PowersOfTwo[i] <= PowersOfTwo[j]
  <1>1. \A k \in 1..16 : PowersOfTwo[k] <= PowersOfTwo[k + 1]
    BY DEF PowersOfTwo
  <1>. QED  BY DEF PowersOfTwo

\* The shift applied to a base delay is a position of PowersOfTwo.
LEMMA ShiftInRange ==
    ASSUME NEW count \in Nat
    PROVE  Least(count, ShiftMax) + 1 \in 1..17
  BY DelayAssumption DEF Least

\* A scaled delay is a natural number not below the delay it is scaled from.
LEMMA ScaledUp ==
    ASSUME NEW base \in Nat, NEW power \in Nat, power >= 1
    PROVE  base * power \in Nat /\ base * power >= base
  OBVIOUS

LEMMA ScaledMonotone ==
    ASSUME NEW base \in Nat, NEW p \in Nat, NEW q \in Nat, p <= q
    PROVE  base * p <= base * q
  OBVIOUS

\* scheduleTunnelProcessRestart never retries earlier than the base delay of
\* the failure and never waits longer than its cap, however many failures
\* were counted.
THEOREM DelayBounded ==
    ASSUME NEW auth \in BOOLEAN, NEW count \in Nat
    PROVE  /\ RestartDelayAfter(auth, count) \in Nat
           /\ BaseDelay(auth) <= RestartDelayAfter(auth, count)
           /\ RestartDelayAfter(auth, count) <= MaxDelay(auth)
  <1>. DEFINE power == PowersOfTwo[Least(count, ShiftMax) + 1]
  <1>1. power \in Nat /\ power >= 1
    BY ShiftInRange, PowersType
  <1>2. BaseDelay(auth) \in Nat /\ MaxDelay(auth) \in Nat /\ BaseDelay(auth) <= MaxDelay(auth)
    BY DelayAssumption DEF BaseDelay, MaxDelay
  <1>3. BaseDelay(auth) * power \in Nat /\ BaseDelay(auth) * power >= BaseDelay(auth)
    BY <1>1, <1>2, ScaledUp
  <1>. HIDE DEF power
  <1>4. RestartDelayAfter(auth, count) = Least(BaseDelay(auth) * power, MaxDelay(auth))
    BY DEF RestartDelayAfter, power
  <1>. QED  BY <1>2, <1>3, <1>4 DEF Least

\* Another counted failure never shortens the delay, and a refused
\* authentication is never retried earlier than a failure of another kind.
THEOREM DelayMonotone ==
    ASSUME NEW m \in Nat, NEW n \in Nat, m <= n
    PROVE  /\ \A auth \in BOOLEAN : RestartDelayAfter(auth, m) <= RestartDelayAfter(auth, n)
           /\ RestartDelayAfter(FALSE, m) <= RestartDelayAfter(TRUE, m)
  <1>. DEFINE p == PowersOfTwo[Least(m, ShiftMax) + 1]
              q == PowersOfTwo[Least(n, ShiftMax) + 1]
  <1>1. Least(m, ShiftMax) + 1 <= Least(n, ShiftMax) + 1
    BY DelayAssumption DEF Least
  <1>2. p \in Nat /\ q \in Nat /\ p <= q
    BY <1>1, ShiftInRange, PowersType, PowersGrow
  <1>3. \A auth \in BOOLEAN :
            /\ RestartDelayAfter(auth, m) = Least(BaseDelay(auth) * p, MaxDelay(auth))
            /\ RestartDelayAfter(auth, n) = Least(BaseDelay(auth) * q, MaxDelay(auth))
    BY DEF RestartDelayAfter
  <1>. HIDE DEF p, q
  <1>4. ASSUME NEW auth \in BOOLEAN
        PROVE  RestartDelayAfter(auth, m) <= RestartDelayAfter(auth, n)
    <2>1. BaseDelay(auth) \in Nat /\ MaxDelay(auth) \in Nat
      BY DelayAssumption DEF BaseDelay, MaxDelay
    <2>2. /\ BaseDelay(auth) * p \in Nat /\ BaseDelay(auth) * q \in Nat
          /\ BaseDelay(auth) * p <= BaseDelay(auth) * q
      BY <1>2, <2>1, ScaledMonotone
    <2>. QED  BY <1>3, <2>1, <2>2 DEF Least
  <1>5. RestartDelayAfter(FALSE, m) <= RestartDelayAfter(TRUE, m)
    <2>1. /\ RestartDelayAfter(FALSE, m) = Least(DelayBase * p, DelayMax)
          /\ RestartDelayAfter(TRUE, m) = Least(DelayAuthBase * p, DelayAuthMax)
      BY <1>3 DEF BaseDelay, MaxDelay
    <2>2. /\ p * DelayBase \in Nat /\ p * DelayAuthBase \in Nat
          /\ p * DelayBase <= p * DelayAuthBase
      BY <1>2, DelayAssumption, ScaledMonotone
    <2>3. DelayBase * p = p * DelayBase /\ DelayAuthBase * p = p * DelayAuthBase
      BY <1>2, DelayAssumption
    <2>4. \A a, b, c, d \in Nat : a <= b /\ c <= d => Least(a, c) <= Least(b, d)
      BY DEF Least
    <2>. QED  BY <2>1, <2>2, <2>3, <2>4, DelayAssumption
  <1>. QED  BY <1>4, <1>5

\* Counting may stop at ShiftMax: the next delay is the same as if the counter
\* of the code kept growing.
THEOREM SaturationIsExact ==
    ASSUME NEW auth \in BOOLEAN, NEW exact \in Nat
    PROVE  /\ CountFailure(Least(exact, ShiftMax)) = Least(exact + 1, ShiftMax)
           /\ RestartDelayAfter(auth, Least(exact, ShiftMax)) = RestartDelayAfter(auth, exact)
  <1>1. Least(Least(exact, ShiftMax), ShiftMax) = Least(exact, ShiftMax)
    BY DelayAssumption DEF Least
  <1>2. CountFailure(Least(exact, ShiftMax)) = Least(exact + 1, ShiftMax)
    BY DelayAssumption DEF Least, CountFailure
  <1>. QED  BY <1>1, <1>2 DEF RestartDelayAfter

-----------------------------------------------------------------------------
(***************************************************************************)
(* What the handlers of the process come to, whatever runs nested in them: *)
(* the same steps with one condition per member.  The proofs below expand  *)
(* these outcomes and never the handlers.                                  *)
(***************************************************************************)
RestartScheduled(authenticationFailed) ==
    /\ tunnelTimer' = RestartDelayAfter(authenticationFailed, failedRestarts)
    /\ failedRestarts' = CountFailure(failedRestarts)

ChecksStopped == healthTimer' = FALSE /\ healthSocket' = NoSocket

StartHandled ==
    /\ process' = "Running" /\ ssh' = "connecting"
    /\ portOpened' = FALSE
    /\ healthTimer' = TRUE
    /\ healthFails' = 0
    /\ httpListening' \in HttpProxyMayListen

\* A stop leaves the indication and the proxy of a process that was not
\* Running as they were, and takes both from a Running one.
ProcessStopped ==
    /\ internetReachable' \in {FALSE, internetReachable /\ process # "Running"}
    /\ httpListening' \in {FALSE, httpListening /\ process # "Running"}
    /\ portOpened' \in {FALSE, portOpened}
    /\ healthFails' \in {0, healthFails}

AttemptGivenUp ==
    /\ ChecksStopped
    /\ ProcessStopped
    /\ process' = "NotRunning" /\ ssh' = "none"
    /\ UNCHANGED <<applied, warmingUp, probes, checks, userVars, envVars>>

OutcomeDisabled ==
    /\ ~prefs.enabled
    /\ AttemptGivenUp /\ stoppedIntentionally' \in {TRUE, stoppedIntentionally}
    /\ tunnelTimer' = Inactive /\ RemoveKeyFile
    /\ UNCHANGED failedRestarts

OutcomeWithoutNetwork ==
    /\ prefs.enabled /\ ~reachable
    /\ AttemptGivenUp /\ stoppedIntentionally' \in {TRUE, stoppedIntentionally}
    /\ tunnelTimer' = Inactive /\ RemoveKeyFile
    /\ UNCHANGED failedRestarts

OutcomeWithoutSsh ==
    /\ prefs.enabled /\ reachable
    /\ AttemptGivenUp /\ stoppedIntentionally' \in {TRUE, stoppedIntentionally}
    /\ tunnelTimer' = SshMissingDelay /\ RemoveKeyFile
    /\ UNCHANGED failedRestarts

OutcomeWithEncryptedKey ==
    /\ prefs.enabled /\ reachable /\ prefs.keyEncrypted
    /\ AttemptGivenUp /\ stoppedIntentionally' \in {TRUE, stoppedIntentionally}
    /\ tunnelTimer' = Inactive /\ RemoveKeyFile
    /\ UNCHANGED failedRestarts

OutcomeWriteFailed ==
    /\ MayStart
    /\ AttemptGivenUp /\ stoppedIntentionally' \in {TRUE, stoppedIntentionally}
    /\ identityFile' \in BOOLEAN
    /\ RestartScheduled(FALSE)

OutcomeStartFailed ==
    /\ MayStart
    /\ AttemptGivenUp /\ stoppedIntentionally' = FALSE
    /\ identityFile' = TRUE
    /\ tunnelTimer' = SshMissingDelay
    /\ UNCHANGED failedRestarts

OutcomeStartTimeout ==
    /\ MayStart
    /\ ChecksStopped /\ ProcessStopped
    /\ process' = "Starting" /\ ssh' = "none"
    /\ stoppedIntentionally' = FALSE
    /\ identityFile' = TRUE
    /\ applied' = prefs
    /\ tunnelTimer' = SshMissingDelay
    /\ UNCHANGED <<warmingUp, probes, checks, failedRestarts, userVars, envVars>>

OutcomeStarted ==
    /\ MayStart
    /\ StartHandled
    /\ healthSocket' = NoSocket
    /\ internetReachable' \in {FALSE, internetReachable /\ process # "Running"}
    /\ stoppedIntentionally' = FALSE
    /\ identityFile' = TRUE
    /\ applied' = prefs
    /\ tunnelTimer' = Inactive
    /\ UNCHANGED <<warmingUp, probes, checks, failedRestarts, userVars, envVars>>

StartOutcome ==
    /\ running /\ process = "Starting"
    /\ StartHandled
    /\ UNCHANGED <<applied, stoppedIntentionally, identityFile, warmingUp, healthSocket,
                   probes, checks, restartVars, internetReachable, userVars, envVars>>

FinishOutcome ==
    /\ running /\ process = "Running" /\ ssh \in Exited
    /\ process' = "NotRunning" /\ ssh' = "none"
    /\ ChecksStopped
    /\ internetReachable' = FALSE /\ httpListening' = FALSE
    /\ IF stoppedIntentionally THEN UNCHANGED restartVars
       ELSE RestartScheduled(ssh = "refused")
    /\ UNCHANGED <<applied, stoppedIntentionally, identityFile, portOpened, warmingUp,
                   probes, checks, healthFails, userVars, envVars>>

CheckOutcome(socket) ==
    /\ socket \in checks /\ ~warmingUp
    /\ Current(socket)
    /\ internetReachable' = FALSE
    /\ healthFails' = healthFails + 1
    /\ healthTimer' = ~LimitReached(healthFails')
    /\ IF LimitReached(healthFails') THEN RestartScheduled(FALSE)
       ELSE UNCHANGED restartVars
    /\ UNCHANGED <<processVars, portOpened, warmingUp, httpListening, userVars, envVars>>

\* Whether the handlers of started() and finished() run inside a stop or not,
\* it ends with no check, no retry and the count of failures as it was: what
\* the former arms, the latter disarms, and the latter arms nothing, since the
\* stop is marked as intentional before.
MemberNames == {"stoppedIntentionally", "portOpened", "healthTimer", "healthSocket",
                "healthFails", "internetReachable", "httpListening", "tunnelTimer",
                "failedRestarts"}

StopLeaves(members) ==
    /\ DOMAIN members = MemberNames
    /\ members.stoppedIntentionally \in {TRUE, stoppedIntentionally}
    /\ members.portOpened \in {FALSE, portOpened}
    /\ members.healthTimer = FALSE /\ members.healthSocket = NoSocket
    /\ members.healthFails \in {0, healthFails}
    /\ members.internetReachable \in {FALSE, internetReachable /\ process # "Running"}
    /\ members.httpListening \in {FALSE, httpListening /\ process # "Running"}
    /\ members.tunnelTimer = Inactive /\ members.failedRestarts = failedRestarts

\* The end of a process that is stopped intentionally only takes things away.
LEMMA IntendedFinish ==
    ASSUME NEW members, DOMAIN members = MemberNames, members.stoppedIntentionally = TRUE
    PROVE  LET left == HandleFinish(members, ssh) IN
           /\ DOMAIN left = MemberNames
           /\ left.stoppedIntentionally = TRUE
           /\ left.portOpened = members.portOpened /\ left.healthFails = members.healthFails
           /\ left.healthTimer = FALSE /\ left.healthSocket = NoSocket
           /\ left.internetReachable = FALSE /\ left.httpListening = FALSE
           /\ left.tunnelTimer = members.tunnelTimer
           /\ left.failedRestarts = members.failedRestarts
  BY DEF HandleFinish, Cleaned, StopHealthCheck, MemberNames

LEMMA StopEnds ==
    ASSUME TypeOK, NEW members \in Stopped
    PROVE  StopLeaves(members)
  <1>. DEFINE begun == [StopHealthCheck(Members) EXCEPT !.tunnelTimer = Inactive]
              marked == [begun EXCEPT !.stoppedIntentionally = TRUE]
  <1>1. /\ DOMAIN begun = MemberNames
        /\ begun.stoppedIntentionally = stoppedIntentionally
        /\ begun.portOpened = portOpened /\ begun.healthFails = healthFails
        /\ begun.healthTimer = FALSE /\ begun.healthSocket = NoSocket
        /\ begun.internetReachable = internetReachable /\ begun.httpListening = httpListening
        /\ begun.tunnelTimer = Inactive /\ begun.failedRestarts = failedRestarts
    BY DEF StopHealthCheck, Members, MemberNames
  <1>2. members \in StopTunnelProcess(begun)
    BY DEF Stopped
  <1>. HIDE DEF begun
  <1>3. /\ DOMAIN marked = MemberNames /\ marked.stoppedIntentionally = TRUE
        /\ marked.portOpened = portOpened /\ marked.healthFails = healthFails
        /\ marked.healthTimer = FALSE /\ marked.healthSocket = NoSocket
        /\ marked.internetReachable = internetReachable
        /\ marked.httpListening = httpListening
        /\ marked.tunnelTimer = Inactive /\ marked.failedRestarts = failedRestarts
    BY <1>1 DEF MemberNames
  <1>4. internetReachable \in BOOLEAN /\ httpListening \in BOOLEAN
    BY DEF TypeOK
  <1>5. CASE process = "NotRunning"
    <2>1. members = begun
      BY <1>2, <1>5 DEF StopTunnelProcess
    <2>. QED  BY <1>1, <1>4, <1>5, <2>1 DEF StopLeaves
  <1>6. CASE process = "Running"
    <2>1. members = HandleFinish(marked, ssh)
      BY <1>2, <1>6 DEF StopTunnelProcess
    <2>. HIDE DEF marked
    <2>. QED  BY <1>3, <2>1, IntendedFinish DEF StopLeaves
  <1>7. CASE process = "Starting"
    <2>1. members = marked \/ \E m \in HandleStart(marked) : members = HandleFinish(m, ssh)
      BY <1>2, <1>7 DEF StopTunnelProcess
    <2>. HIDE DEF marked
    <2>2. CASE members = marked
      BY <1>3, <1>4, <1>7, <2>2 DEF StopLeaves
    <2>3. CASE \E m \in HandleStart(marked) : members = HandleFinish(m, ssh)
      <3>1. PICK m \in HandleStart(marked) : members = HandleFinish(m, ssh)
        BY <2>3
      <3>2. PICK listens \in HttpProxyMayListen :
                m = [marked EXCEPT !.portOpened = FALSE, !.healthTimer = TRUE,
                                   !.healthFails = 0, !.httpListening = listens]
        BY <3>1 DEF HandleStart
      <3>3. /\ DOMAIN m = MemberNames /\ m.stoppedIntentionally = TRUE
            /\ m.portOpened = FALSE /\ m.healthFails = 0
            /\ m.tunnelTimer = Inactive /\ m.failedRestarts = failedRestarts
        BY <1>3, <3>2 DEF MemberNames
      <3>. QED  BY <3>1, <3>3, IntendedFinish DEF StopLeaves
    <2>. QED  BY <2>1, <2>2, <2>3
  <1>. QED  BY <1>5, <1>6, <1>7 DEF TypeOK

LEMMA GivenUp ==
    ASSUME TypeOK, NEW members \in Stopped
    PROVE  /\ GiveUpAttempt(members)
                => /\ AttemptGivenUp /\ stoppedIntentionally' \in {TRUE, stoppedIntentionally}
                   /\ tunnelTimer' = Inactive /\ UNCHANGED failedRestarts
           /\ GiveUpAttempt(RetryInAMinute(members))
                => /\ AttemptGivenUp /\ stoppedIntentionally' \in {TRUE, stoppedIntentionally}
                   /\ tunnelTimer' = SshMissingDelay /\ UNCHANGED failedRestarts
           /\ GiveUpAttempt(RetryInAMinute(StopIsNotIntended(members)))
                => /\ AttemptGivenUp /\ stoppedIntentionally' = FALSE
                   /\ tunnelTimer' = SshMissingDelay /\ UNCHANGED failedRestarts
           /\ GiveUpAttempt(ScheduleRestart(members, FALSE))
                => /\ AttemptGivenUp /\ stoppedIntentionally' \in {TRUE, stoppedIntentionally}
                   /\ RestartScheduled(FALSE)
  <1>. USE DEF GiveUpAttempt, SetMembers, AttemptGivenUp, ChecksStopped, ProcessStopped
  <1>1. StopLeaves(members)
    BY StopEnds
  <1>2. GiveUpAttempt(members)
            => /\ AttemptGivenUp /\ stoppedIntentionally' \in {TRUE, stoppedIntentionally}
               /\ tunnelTimer' = Inactive /\ UNCHANGED failedRestarts
    BY <1>1 DEF StopLeaves
  <1>3. GiveUpAttempt(RetryInAMinute(members))
            => /\ AttemptGivenUp /\ stoppedIntentionally' \in {TRUE, stoppedIntentionally}
               /\ tunnelTimer' = SshMissingDelay /\ UNCHANGED failedRestarts
    BY <1>1 DEF StopLeaves, RetryInAMinute, MemberNames
  <1>4. GiveUpAttempt(RetryInAMinute(StopIsNotIntended(members)))
            => /\ AttemptGivenUp /\ stoppedIntentionally' = FALSE
               /\ tunnelTimer' = SshMissingDelay /\ UNCHANGED failedRestarts
    BY <1>1 DEF StopLeaves, RetryInAMinute, StopIsNotIntended, MemberNames
  <1>5. GiveUpAttempt(ScheduleRestart(members, FALSE))
            => /\ AttemptGivenUp /\ stoppedIntentionally' \in {TRUE, stoppedIntentionally}
               /\ RestartScheduled(FALSE)
    BY <1>1 DEF StopLeaves, ScheduleRestart, RestartScheduled, MemberNames
  <1>. QED  BY <1>2, <1>3, <1>4, <1>5

\* The ways maybeRestartTunnelProcess returns
LEMMA RestartOutcomes ==
    ASSUME TypeOK
    PROVE  /\ RestartDisabled => OutcomeDisabled
           /\ RestartWithoutNetwork => OutcomeWithoutNetwork
           /\ RestartWithoutSsh => OutcomeWithoutSsh
           /\ RestartWithEncryptedKey => OutcomeWithEncryptedKey
           /\ RestartWriteFailed => OutcomeWriteFailed
           /\ RestartStartFailed => OutcomeStartFailed
           /\ RestartStartTimeout => OutcomeStartTimeout
           /\ RestartStarted => OutcomeStarted
  <1>1. RestartDisabled => OutcomeDisabled
    BY GivenUp DEF RestartDisabled, OutcomeDisabled
  <1>2. RestartWithoutNetwork => OutcomeWithoutNetwork
    BY GivenUp DEF RestartWithoutNetwork, OutcomeWithoutNetwork
  <1>3. RestartWithoutSsh => OutcomeWithoutSsh
    BY GivenUp DEF RestartWithoutSsh, OutcomeWithoutSsh
  <1>4. RestartWithEncryptedKey => OutcomeWithEncryptedKey
    BY GivenUp DEF RestartWithEncryptedKey, OutcomeWithEncryptedKey
  <1>5. RestartWriteFailed => OutcomeWriteFailed
    BY GivenUp DEF RestartWriteFailed, OutcomeWriteFailed
  <1>6. RestartStartFailed => OutcomeStartFailed
    BY GivenUp DEF RestartStartFailed, OutcomeStartFailed
  <1>7. RestartStartTimeout => OutcomeStartTimeout
    <2>. SUFFICES ASSUME RestartStartTimeout PROVE OutcomeStartTimeout
      OBVIOUS
    <2>1. PICK members \in Stopped : SetMembers(RetryInAMinute(StopIsNotIntended(members)))
      BY DEF RestartStartTimeout
    <2>2. StopLeaves(members)
      BY StopEnds
    <2>3. /\ ChecksStopped /\ ProcessStopped /\ stoppedIntentionally' = FALSE
          /\ tunnelTimer' = SshMissingDelay /\ UNCHANGED failedRestarts
      BY <2>1, <2>2 DEF StopLeaves, SetMembers, RetryInAMinute, StopIsNotIntended,
                        ChecksStopped, ProcessStopped, MemberNames
    <2>. QED  BY <2>3 DEF RestartStartTimeout, OutcomeStartTimeout
  <1>8. RestartStarted => OutcomeStarted
    <2>. SUFFICES ASSUME RestartStarted PROVE OutcomeStarted
      OBVIOUS
    <2>1. PICK members \in Stopped :
              \E started \in HandleStart(StopIsNotIntended(members)) : SetMembers(started)
      BY DEF RestartStarted
    <2>2. PICK listens \in HttpProxyMayListen :
              SetMembers([StopIsNotIntended(members) EXCEPT
                              !.portOpened = FALSE, !.healthTimer = TRUE, !.healthFails = 0,
                              !.httpListening = listens])
      BY <2>1 DEF HandleStart
    <2>3. StopLeaves(members)
      BY StopEnds
    <2>4. /\ portOpened' = FALSE /\ healthTimer' = TRUE /\ healthFails' = 0
          /\ httpListening' = listens
          /\ healthSocket' = NoSocket /\ stoppedIntentionally' = FALSE
          /\ internetReachable' \in {FALSE, internetReachable /\ process # "Running"}
          /\ tunnelTimer' = Inactive /\ UNCHANGED failedRestarts
      BY <2>2, <2>3 DEF StopLeaves, SetMembers, StopIsNotIntended, MemberNames
    <2>. QED  BY <2>2, <2>4 DEF RestartStarted, OutcomeStarted, StartHandled
  <1>. QED  BY <1>1, <1>2, <1>3, <1>4, <1>5, <1>6, <1>7, <1>8

\* The handlers of the process and of a check that run on their own
LEMMA HandlerOutcomes ==
    /\ ProcessStarted => StartOutcome
    /\ ProcessFinished => FinishOutcome
    /\ \A socket : CheckFails(socket) => CheckOutcome(socket)
  <1>1. ProcessStarted => StartOutcome
    BY DEF ProcessStarted, HandleStart, SetMembers, Members, StartOutcome, StartHandled,
           restartVars
  <1>2. ProcessFinished => FinishOutcome
    <2>. USE DEF HandleFinish, Cleaned, StopHealthCheck, ScheduleRestart, SetMembers, Members,
                 ProcessFinished, FinishOutcome, ChecksStopped, RestartScheduled, restartVars
    <2>1. CASE stoppedIntentionally
      BY <2>1
    <2>2. CASE ~stoppedIntentionally
      BY <2>2
    <2>. QED  BY <2>1, <2>2
  <1>3. ASSUME NEW socket, CheckFails(socket) PROVE CheckOutcome(socket)
    <2>. USE <1>3 DEF CheckFails, CheckOutcome, Current, ScheduleRestart, SetMembers, Members,
                 RestartScheduled, restartVars, processVars
    <2>1. CASE LimitReached(healthFails + 1)
      BY <2>1
    <2>2. CASE ~LimitReached(healthFails + 1)
      BY <2>2
    <2>. QED  BY <2>1, <2>2
  <1>. QED  BY <1>1, <1>2, <1>3

-----------------------------------------------------------------------------
(* Delays *)

\* A scheduled restart is a running timer with a delay of the model.
LEMMA ScheduledDelay ==
    ASSUME NEW auth \in BOOLEAN, NEW count \in 0..ShiftMax
    PROVE  /\ RestartDelayAfter(auth, count) \in Delays
           /\ RestartDelayAfter(auth, count) # Inactive
           /\ CountFailure(count) \in 0..ShiftMax
  <1>1. count \in Nat
    BY DelayAssumption
  <1>2. RestartDelayAfter(auth, count) \in Nat
    BY <1>1, DelayBounded
  <1>3. RestartDelayAfter(auth, count) \in Delays
    BY DEF Delays
  <1>4. CountFailure(count) \in 0..ShiftMax
    BY DelayAssumption DEF CountFailure, Least
  <1>. QED  BY <1>2, <1>3, <1>4 DEF Inactive

LEMMA FixedDelays ==
    /\ Inactive \in Delays /\ 0 \in Delays /\ LazyDelay \in Delays /\ SshMissingDelay \in Delays
    /\ 0 # Inactive /\ LazyDelay # Inactive /\ SshMissingDelay # Inactive
  BY TunnelAssumption DEF Delays, Inactive

\* The same facts about the two kinds of a scheduled restart.
LEMMA Scheduled ==
    ASSUME TypeOK, NEW auth \in BOOLEAN, RestartScheduled(auth)
    PROVE  tunnelTimer' \in Delays /\ tunnelTimer' # Inactive /\ failedRestarts' \in 0..ShiftMax
  BY ScheduledDelay DEF RestartScheduled, TypeOK

-----------------------------------------------------------------------------
(* Type correctness *)

LEMMA InitType == Init => TypeOK
  <1>. SUFFICES ASSUME Init PROVE TypeOK
    OBVIOUS
  <1>. USE DEF Init
  <1>1. failedRestarts \in 0..ShiftMax /\ healthFails \in 0..HealthFailsLimit
    BY TunnelAssumption, DelayAssumption
  <1>2. tunnelTimer \in Delays
    BY FixedDelays
  <1>3. ssh \in SshStates /\ process \in {"NotRunning", "Starting", "Running"}
    BY DEF SshStates
  <1>4. prefs \in Settings /\ applied \in Settings
    OBVIOUS
  <1>5. probes \subseteq SocketIds /\ checks \subseteq SocketIds
    OBVIOUS
  <1>. QED  BY <1>1, <1>2, <1>3, <1>4, <1>5 DEF TypeOK

\* What AttemptGivenUp leaves of the types for its callers to establish.
LEMMA StopType ==
    ASSUME TypeOK, ProcessStopped
    PROVE  /\ internetReachable' \in BOOLEAN /\ httpListening' \in BOOLEAN
           /\ portOpened' \in BOOLEAN /\ healthFails' \in 0..HealthFailsLimit
  <1>1. healthFails' \in 0..HealthFailsLimit
    BY TunnelAssumption DEF TypeOK, ProcessStopped
  <1>2. /\ internetReachable' \in BOOLEAN /\ httpListening' \in BOOLEAN
        /\ portOpened' \in BOOLEAN
    BY Zenon DEF TypeOK, ProcessStopped
  <1>. QED  BY <1>1, <1>2

LEMMA RestartType ==
    ASSUME TypeOK, MaybeRestartTunnelProcess
    PROVE  TypeOK'
  <1>. USE RestartOutcomes
  <1>. USE FixedDelays, TunnelAssumption, StopType
  <1>1. ASSUME AttemptGivenUp, tunnelTimer' \in Delays, failedRestarts' \in 0..ShiftMax,
               identityFile' \in BOOLEAN, stoppedIntentionally' \in BOOLEAN
        PROVE  TypeOK'
    BY <1>1 DEF TypeOK, AttemptGivenUp, ChecksStopped, SshStates, userVars, envVars
  <1>2. CASE RestartDisabled
    BY <1>1, <1>2 DEF OutcomeDisabled, RemoveKeyFile, TypeOK
  <1>3. CASE RestartWithoutNetwork
    BY <1>1, <1>3 DEF OutcomeWithoutNetwork, RemoveKeyFile, TypeOK
  <1>4. CASE RestartWithoutSsh
    BY <1>1, <1>4 DEF OutcomeWithoutSsh, RemoveKeyFile, TypeOK
  <1>5. CASE RestartWithEncryptedKey
    BY <1>1, <1>5 DEF OutcomeWithEncryptedKey, RemoveKeyFile, TypeOK
  <1>6. CASE RestartWriteFailed
    BY <1>1, <1>6, Scheduled DEF OutcomeWriteFailed, TypeOK
  <1>7. CASE RestartStartFailed
    BY <1>1, <1>7 DEF OutcomeStartFailed, TypeOK
  <1>8. CASE RestartStartTimeout
    BY <1>8 DEF OutcomeStartTimeout, TypeOK, ChecksStopped, SshStates, userVars, envVars
  <1>9. CASE RestartStarted
    <2>1. httpListening' \in BOOLEAN
      BY <1>9 DEF OutcomeStarted, StartHandled, HttpProxyMayListen
    <2>2. internetReachable' \in BOOLEAN
      BY <1>9 DEF OutcomeStarted
    <2>3. ssh' \in SshStates /\ process' \in {"NotRunning", "Starting", "Running"}
      BY <1>9 DEF OutcomeStarted, StartHandled, SshStates
    <2>4. tunnelTimer' \in Delays /\ failedRestarts' \in 0..ShiftMax
      BY <1>9 DEF OutcomeStarted, TypeOK
    <2>5. healthTimer' = TRUE /\ portOpened' = FALSE /\ healthFails' = 0
      BY <1>9 DEF OutcomeStarted, StartHandled
    <2>6. healthFails' \in 0..HealthFailsLimit
      BY <2>5
    <2>7. healthSocket' \in SocketIds \cup {NoSocket}
      BY <1>9 DEF OutcomeStarted
    <2>8. /\ stoppedIntentionally' \in BOOLEAN /\ identityFile' \in BOOLEAN
          /\ applied' \in Settings
          /\ UNCHANGED <<running, prefs, reachable, foreign, warmingUp, probes, checks>>
      BY <1>9 DEF OutcomeStarted, TypeOK, userVars, envVars
    <2>. QED  BY <2>1, <2>2, <2>3, <2>4, <2>5, <2>6, <2>7, <2>8 DEF TypeOK
  <1>. QED  BY <1>2, <1>3, <1>4, <1>5, <1>6, <1>7, <1>8, <1>9 DEF MaybeRestartTunnelProcess

LEMMA SocketType ==
    ASSUME TypeOK, ChecksStopAtLimit, NEW socket \in SocketIds, SocketEnds(socket)
    PROVE  TypeOK'
  <1>. USE HandlerOutcomes
  <1>. USE TunnelAssumption, DelayAssumption DEF TypeOK, processVars, restartVars, statusVars,
                                                 userVars, envVars, Dispose, Current
  <1>1. CASE ObsoleteSocketEnds(socket)
    BY <1>1 DEF ObsoleteSocketEnds
  <1>2. CASE ProbeSucceeds(socket)
    BY <1>2 DEF ProbeSucceeds
  <1>3. CASE ProbeFails(socket)
    BY <1>3 DEF ProbeFails
  <1>4. CASE CheckSucceeds(socket)
    BY <1>4 DEF CheckSucceeds
  <1>5. CASE CheckFailsInWarmup(socket)
    BY <1>5 DEF CheckFailsInWarmup
  <1>6. CASE CheckFails(socket)
    <2>1. tunnelTimer' \in Delays /\ failedRestarts' \in 0..ShiftMax
      BY <1>6, Scheduled DEF CheckOutcome
    <2>2. healthFails' \in 0..HealthFailsLimit
      <3>1. healthFails' = healthFails + 1 /\ healthSocket # NoSocket
        BY <1>6 DEF CheckOutcome
      <3>. QED  BY <3>1 DEF ChecksStopAtLimit
    <2>3. healthTimer' \in BOOLEAN
      BY <1>6 DEF CheckOutcome
    <2>4. /\ internetReachable' \in BOOLEAN
          /\ healthSocket' \in SocketIds \cup {NoSocket}
          /\ probes' \subseteq SocketIds /\ checks' \subseteq SocketIds
      BY <1>6 DEF CheckOutcome
    <2>5. UNCHANGED <<processVars, portOpened, warmingUp, httpListening, userVars, envVars>>
      BY <1>6 DEF CheckOutcome
    <2>. QED  BY <2>1, <2>2, <2>3, <2>4, <2>5
  <1>. QED  BY <1>1, <1>2, <1>3, <1>4, <1>5, <1>6 DEF SocketEnds

\* The rest of Next, except for the end of a check.
LEMMA OtherType ==
    ASSUME TypeOK, Next, ~MaybeRestartTunnelProcess,
           \A socket \in SocketIds : ~SocketEnds(socket)
    PROVE  TypeOK'
  <1>. USE HandlerOutcomes
  <1>. USE TunnelAssumption, DelayAssumption, FixedDelays
       DEF TypeOK, processVars, healthVars, restartVars, statusVars, userVars, envVars
  <1>1. CASE Boot
    BY <1>1 DEF Boot
  <1>2. CASE Quit \/ Crash
    <2>1. identityFile' \in BOOLEAN /\ foreign' \in BOOLEAN
      BY <1>2 DEF Quit, Crash, RemoveKeyFile
    <2>2. Forget
      BY <1>2 DEF Quit, Crash
    <2>3. ssh' \in SshStates /\ process' \in {"NotRunning", "Starting", "Running"}
      BY <2>2 DEF Forget, SshStates
    <2>4. /\ healthFails' \in 0..HealthFailsLimit
          /\ failedRestarts' \in 0..ShiftMax /\ tunnelTimer' \in Delays
      BY <2>2 DEF Forget
    <2>5. /\ running' \in BOOLEAN /\ stoppedIntentionally' \in BOOLEAN
          /\ portOpened' \in BOOLEAN /\ warmingUp' \in BOOLEAN /\ healthTimer' \in BOOLEAN
          /\ internetReachable' \in BOOLEAN /\ httpListening' \in BOOLEAN
      BY <2>2 DEF Forget
    <2>6. /\ healthSocket' \in SocketIds \cup {NoSocket}
          /\ probes' \subseteq SocketIds /\ checks' \subseteq SocketIds
          /\ UNCHANGED <<prefs, applied, reachable>>
      BY <2>2 DEF Forget
    <2>. QED  BY <2>1, <2>3, <2>4, <2>5, <2>6
  <1>3. ASSUME NEW status \in BOOLEAN, NetworkEvent(status)
        PROVE  TypeOK'
    BY <1>3 DEF NetworkEvent, HandleNetworkChange
  <1>4. CASE Wake
    BY <1>4 DEF Wake, HandleNetworkChange
  <1>5. ASSUME NEW settings \in Settings, ChangePreferences(settings)
        PROVE  TypeOK'
    BY <1>5 DEF ChangePreferences
  <1>6. CASE ProcessStarted
    <2>1. httpListening' \in BOOLEAN
      BY <1>6 DEF StartOutcome, StartHandled, HttpProxyMayListen
    <2>2. ssh' \in SshStates /\ process' \in {"NotRunning", "Starting", "Running"}
      BY <1>6 DEF StartOutcome, StartHandled, SshStates
    <2>3. healthTimer' = TRUE /\ portOpened' = FALSE /\ healthFails' = 0
      BY <1>6 DEF StartOutcome, StartHandled
    <2>4. UNCHANGED <<applied, stoppedIntentionally, identityFile, warmingUp, healthSocket,
                      probes, checks, restartVars, internetReachable, userVars, envVars>>
      BY <1>6 DEF StartOutcome
    <2>5. healthTimer' \in BOOLEAN /\ portOpened' \in BOOLEAN
      BY <2>3
    <2>6. healthFails' \in 0..HealthFailsLimit
      BY <2>3
    <2>. QED  BY <2>1, <2>2, <2>4, <2>5, <2>6
  <1>7. CASE ProcessFailsToStart
    BY <1>7 DEF ProcessFailsToStart
  <1>8. CASE SshListens \/ SshIsRefused \/ SshFails \/ SshIsLost
    BY <1>8 DEF SshListens, SshIsRefused, SshFails, SshIsLost, Ssh, SshStates, Exited
  <1>9. CASE ProcessFinished
    <2>1. tunnelTimer' \in Delays /\ failedRestarts' \in 0..ShiftMax
      <3>1. (ssh = "refused") \in BOOLEAN
        OBVIOUS
      <3>2. CASE stoppedIntentionally
        BY <1>9, <3>2 DEF FinishOutcome
      <3>3. CASE ~stoppedIntentionally
        BY <1>9, <3>1, <3>3, Scheduled DEF FinishOutcome
      <3>. QED  BY <3>2, <3>3
    <2>2. ssh' \in SshStates /\ process' \in {"NotRunning", "Starting", "Running"}
      BY <1>9 DEF FinishOutcome, SshStates
    <2>3. /\ healthTimer' = FALSE /\ healthSocket' = NoSocket
          /\ internetReachable' = FALSE /\ httpListening' = FALSE
      BY <1>9 DEF FinishOutcome, ChecksStopped
    <2>4. UNCHANGED <<applied, stoppedIntentionally, identityFile, portOpened, warmingUp,
                      probes, checks, healthFails, userVars, envVars>>
      BY <1>9 DEF FinishOutcome
    <2>5. /\ healthTimer' \in BOOLEAN /\ healthSocket' \in SocketIds \cup {NoSocket}
          /\ internetReachable' \in BOOLEAN /\ httpListening' \in BOOLEAN
      BY <2>3
    <2>. QED  BY <2>1, <2>2, <2>4, <2>5, ZenonT(60)
  <1>10. CASE ForeignListens \/ ForeignEnds
    BY <1>10, ZenonT(60) DEF ForeignListens, ForeignEnds
  <1>11. CASE WarmupElapses
    BY <1>11 DEF WarmupElapses
  <1>12. CASE HealthTimeout
    BY <1>12 DEF HealthTimeout
  <1>. QED
    BY <1>1, <1>2, <1>3, <1>4, <1>5, <1>6, <1>7, <1>8, <1>9, <1>10, <1>11, <1>12
       DEF Next, Application, User, Environment, TunnelTimeout, ReconnectNow

\* Types are kept by every step that starts with no check in progress beyond
\* the limit of failures.
LEMMA NextType ==
    ASSUME TypeOK, ChecksStopAtLimit, [Next]_vars
    PROVE  TypeOK'
  <1>1. CASE UNCHANGED vars
    BY <1>1 DEF vars, processVars, healthVars, restartVars, statusVars, userVars, envVars, TypeOK
  <1>2. CASE Next
    BY <1>2, RestartType, SocketType, OtherType
  <1>. QED  BY <1>1, <1>2

-----------------------------------------------------------------------------
(***************************************************************************)
(* The inductive invariant.  The properties support each other: a stop is  *)
(* quiet because nothing outlives the process, an exit is retried because  *)
(* it is never mistaken for an intentional one, a start nobody hears of is *)
(* retried because it is supervised, and the failure counter keeps its     *)
(* type because checks stop at the limit.                                  *)
(***************************************************************************)
IInv ==
    /\ TypeOK
    /\ ChecksStopAtLimit
    /\ WatchdogArmed
    /\ RetryPending
    /\ StartingIsSupervised
    /\ DisabledIsQuiet
    /\ UnexpectedExitNoticed
    /\ SettingsApplied
    /\ NothingOutlivesProcess

LEMMA InitInv == Init => IInv
  <1>. SUFFICES ASSUME Init PROVE IInv
    OBVIOUS
  <1>1. TypeOK
    BY InitType
  <1>. QED  BY <1>1 DEF Init, IInv, ChecksStopAtLimit, WatchdogArmed, RetryPending,
                        StartingIsSupervised, DisabledIsQuiet, UnexpectedExitNoticed,
                        SettingsApplied, NothingOutlivesProcess

\* Stopping the process leaves neither an indication nor a proxy behind.
LEMMA StopIsQuiet ==
    ASSUME IInv, ProcessStopped
    PROVE  internetReachable' = FALSE /\ httpListening' = FALSE
  BY DEF IInv, NothingOutlivesProcess, ProcessStopped, TypeOK

\* An attempt that is given up keeps every part of the invariant, if it either
\* left a timer running or has nothing to retry.
LEMMA GiveUpStep ==
    ASSUME IInv, TypeOK', AttemptGivenUp,
           tunnelTimer' # Inactive \/ ~prefs.enabled \/ ~reachable \/ prefs.keyEncrypted,
           tunnelTimer' # Inactive \/ prefs.enabled \/ identityFile' = FALSE
    PROVE  IInv'
  <1>1. internetReachable' = FALSE /\ httpListening' = FALSE
    BY StopIsQuiet DEF AttemptGivenUp
  <1>2. /\ process' = "NotRunning" /\ ssh' = "none"
        /\ healthTimer' = FALSE /\ healthSocket' = NoSocket
    BY DEF AttemptGivenUp, ChecksStopped
  <1>3. UNCHANGED <<running, prefs, reachable>>
    BY DEF AttemptGivenUp, userVars, envVars
  <1>4. RetryPending' /\ DisabledIsQuiet'
    BY <1>1, <1>2, <1>3 DEF RetryPending, DisabledIsQuiet
  <1>5. NothingOutlivesProcess' /\ ChecksStopAtLimit'
    BY <1>1, <1>2 DEF NothingOutlivesProcess, ChecksStopAtLimit
  <1>6. WatchdogArmed' /\ StartingIsSupervised' /\ UnexpectedExitNoticed' /\ SettingsApplied'
    BY <1>2 DEF WatchdogArmed, StartingIsSupervised, UnexpectedExitNoticed, SettingsApplied
  <1>. QED  BY <1>4, <1>5, <1>6 DEF IInv

LEMMA RestartStep ==
    ASSUME IInv, MaybeRestartTunnelProcess
    PROVE  IInv'
  <1>t. TypeOK
    BY DEF IInv
  <1>. USE <1>t, RestartOutcomes
  <1>. USE FixedDelays
  <1>0. TypeOK'
    BY RestartType DEF IInv
  <1>1. CASE RestartDisabled
    BY <1>0, <1>1, GiveUpStep DEF OutcomeDisabled, RemoveKeyFile
  <1>2. CASE RestartWithoutNetwork
    BY <1>0, <1>2, GiveUpStep DEF OutcomeWithoutNetwork
  <1>3. CASE RestartWithoutSsh
    BY <1>0, <1>3, GiveUpStep DEF OutcomeWithoutSsh
  <1>4. CASE RestartWithEncryptedKey
    BY <1>0, <1>4, GiveUpStep DEF OutcomeWithEncryptedKey
  <1>5. CASE RestartWriteFailed
    <2>1. tunnelTimer' # Inactive
      BY <1>5, Scheduled DEF OutcomeWriteFailed, IInv
    <2>. QED  BY <1>0, <1>5, <2>1, GiveUpStep DEF OutcomeWriteFailed
  <1>6. CASE RestartStartFailed
    <2>1. internetReachable' = FALSE /\ httpListening' = FALSE
      BY <1>6, StopIsQuiet DEF OutcomeStartFailed, AttemptGivenUp
    <2>2. /\ process' = "NotRunning" /\ tunnelTimer' # Inactive
          /\ healthTimer' = FALSE /\ healthSocket' = NoSocket
      BY <1>6 DEF OutcomeStartFailed, AttemptGivenUp, ChecksStopped
    <2>. QED  BY <1>0, <2>1, <2>2
              DEF IInv, ChecksStopAtLimit, WatchdogArmed, RetryPending, StartingIsSupervised,
                  DisabledIsQuiet, UnexpectedExitNoticed, SettingsApplied,
                  NothingOutlivesProcess
  <1>7. CASE RestartStartTimeout
    <2>1. internetReachable' = FALSE /\ httpListening' = FALSE
      BY <1>7, StopIsQuiet DEF OutcomeStartTimeout
    <2>2. /\ process' = "Starting" /\ tunnelTimer' # Inactive
          /\ healthTimer' = FALSE /\ healthSocket' = NoSocket
          /\ stoppedIntentionally' = FALSE
      BY <1>7 DEF OutcomeStartTimeout, ChecksStopped
    <2>. QED  BY <1>0, <2>1, <2>2
              DEF IInv, ChecksStopAtLimit, WatchdogArmed, RetryPending, StartingIsSupervised,
                  DisabledIsQuiet, UnexpectedExitNoticed, SettingsApplied,
                  NothingOutlivesProcess
  <1>8. CASE RestartStarted
    <2>1. prefs' = prefs /\ prefs.enabled /\ applied' = prefs
      BY <1>8 DEF OutcomeStarted, MayStart, userVars
    <2>2. httpListening' => prefs.http
      BY <1>8 DEF OutcomeStarted, StartHandled, HttpProxyMayListen
    <2>3. /\ process' = "Running" /\ healthTimer' = TRUE
          /\ stoppedIntentionally' = FALSE
      BY <1>8 DEF OutcomeStarted, StartHandled
    <2>4. ChecksStopAtLimit'
      BY <1>8, TunnelAssumption DEF OutcomeStarted, StartHandled, ChecksStopAtLimit
    <2>. QED  BY <1>0, <2>1, <2>2, <2>3, <2>4
              DEF IInv, WatchdogArmed, RetryPending, StartingIsSupervised, DisabledIsQuiet,
                  UnexpectedExitNoticed, SettingsApplied, NothingOutlivesProcess
  <1>. QED  BY <1>1, <1>2, <1>3, <1>4, <1>5, <1>6, <1>7, <1>8 DEF MaybeRestartTunnelProcess

\* The end of a check only disturbs the timers: it re-arms the health check or
\* schedules a restart.
LEMMA SocketStep ==
    ASSUME IInv, NEW socket \in SocketIds, SocketEnds(socket)
    PROVE  IInv'
  <1>. USE HandlerOutcomes
  <1>. USE TunnelAssumption
       DEF ChecksStopAtLimit, WatchdogArmed, RetryPending, StartingIsSupervised,
           DisabledIsQuiet, UnexpectedExitNoticed, SettingsApplied, NothingOutlivesProcess,
           processVars, restartVars, statusVars, userVars, envVars
  <1>1. TypeOK'
    BY SocketType DEF IInv
  <1>2. CASE ObsoleteSocketEnds(socket)
    BY <1>1, <1>2 DEF IInv, ObsoleteSocketEnds
  <1>3. ASSUME Current(socket)
        PROVE  process = "Running" /\ healthSocket' = NoSocket /\ healthFails < HealthFailsLimit
    BY <1>3 DEF IInv, TypeOK, Current
  <1>4. CASE ProbeSucceeds(socket)
    BY <1>1, <1>3, <1>4 DEF IInv, ProbeSucceeds
  <1>5. CASE ProbeFails(socket)
    BY <1>1, <1>3, <1>5 DEF IInv, ProbeFails
  <1>6. CASE CheckSucceeds(socket)
    BY <1>1, <1>3, <1>6 DEF IInv, CheckSucceeds
  <1>7. CASE CheckFailsInWarmup(socket)
    BY <1>1, <1>3, <1>7 DEF IInv, CheckFailsInWarmup
  <1>8. CASE CheckFails(socket)
    <2>1. /\ UNCHANGED <<running, prefs, applied, process, ssh, stoppedIntentionally,
                         identityFile, httpListening>>
          /\ process = "Running" /\ healthSocket' = NoSocket
      BY <1>3, <1>8 DEF CheckOutcome
    <2>2. CASE ~LimitReached(healthFails')
      <3>0. healthFails' < HealthFailsLimit
        BY <1>1, <2>2 DEF TypeOK, LimitReached
      <3>1. healthTimer' /\ tunnelTimer' = tunnelTimer
        BY <1>8, <2>2 DEF CheckOutcome
      <3>. QED  BY <1>1, <2>1, <3>0, <3>1 DEF IInv
    <2>3. CASE LimitReached(healthFails')
      <3>1. tunnelTimer' # Inactive
        BY <1>8, <2>3, Scheduled DEF IInv, CheckOutcome
      <3>2. ~healthTimer'
        BY <1>8, <2>3 DEF CheckOutcome
      <3>. QED  BY <1>1, <2>1, <3>1, <3>2 DEF IInv
    <2>. QED  BY <2>2, <2>3
  <1>. QED  BY <1>2, <1>4, <1>5, <1>6, <1>7, <1>8 DEF SocketEnds

\* Everything else the environment, the user and the event loop may do.
LEMMA OtherStep ==
    ASSUME IInv, Next, TypeOK', ~MaybeRestartTunnelProcess,
           \A socket \in SocketIds : ~SocketEnds(socket)
    PROVE  IInv'
  <1>. USE HandlerOutcomes
  <1>. USE TunnelAssumption, FixedDelays
       DEF ChecksStopAtLimit, WatchdogArmed, RetryPending, StartingIsSupervised,
           DisabledIsQuiet, UnexpectedExitNoticed, SettingsApplied, NothingOutlivesProcess,
           processVars, healthVars, restartVars, statusVars, userVars, envVars
  <1>1. CASE Boot
    BY <1>1 DEF IInv, Boot
  <1>2. CASE Quit \/ Crash
    <2>1. Forget
      BY <1>2 DEF Quit, Crash
    <2>. QED  BY <2>1 DEF IInv, Forget
  <1>3. ASSUME NEW status \in BOOLEAN, NetworkEvent(status)
        PROVE  IInv'
    BY <1>3 DEF IInv, NetworkEvent, HandleNetworkChange
  <1>4. CASE Wake
    BY <1>4 DEF IInv, Wake, HandleNetworkChange
  <1>5. ASSUME NEW settings \in Settings, ChangePreferences(settings)
        PROVE  IInv'
    BY <1>5 DEF IInv, ChangePreferences
  <1>6. CASE ProcessStarted
    <2>1. /\ process = "Starting" /\ process' = "Running"
          /\ healthTimer' = TRUE
      BY <1>6 DEF StartOutcome, StartHandled
    <2>2. /\ UNCHANGED <<running, prefs, reachable, stoppedIntentionally>>
          /\ UNCHANGED <<tunnelTimer, healthSocket>>
      BY <1>6 DEF StartOutcome
    <2>3. ChecksStopAtLimit'
      BY <1>6 DEF StartOutcome, StartHandled
    <2>. QED  BY <2>1, <2>2, <2>3 DEF IInv
  <1>7. CASE ProcessFailsToStart
    BY <1>7 DEF IInv, ProcessFailsToStart
  <1>8. CASE SshListens \/ SshIsRefused \/ SshFails \/ SshIsLost
    BY <1>8 DEF IInv, SshListens, SshIsRefused, SshFails, SshIsLost, Ssh
  <1>9. CASE ProcessFinished
    <2>1. tunnelTimer' # Inactive
      BY <1>9, Scheduled DEF IInv, FinishOutcome
    <2>2. /\ process' = "NotRunning"
          /\ healthTimer' = FALSE /\ healthSocket' = NoSocket
          /\ internetReachable' = FALSE /\ httpListening' = FALSE
      BY <1>9 DEF FinishOutcome, ChecksStopped
    <2>. QED  BY <2>1, <2>2 DEF IInv
  <1>10. CASE ForeignListens \/ ForeignEnds
    BY <1>10 DEF IInv, ForeignListens, ForeignEnds
  <1>11. CASE WarmupElapses
    BY <1>11 DEF IInv, WarmupElapses
  <1>12. CASE HealthTimeout
    BY <1>12 DEF IInv, HealthTimeout
  <1>. QED
    BY <1>1, <1>2, <1>3, <1>4, <1>5, <1>6, <1>7, <1>8, <1>9, <1>10, <1>11, <1>12
       DEF Next, Application, User, Environment, TunnelTimeout, ReconnectNow

LEMMA NextInv ==
    ASSUME IInv, [Next]_vars
    PROVE  IInv'
  <1>1. TypeOK'
    BY NextType DEF IInv
  <1>2. CASE UNCHANGED vars
    BY <1>1, <1>2 DEF vars, processVars, healthVars, restartVars, statusVars, userVars, envVars,
                      IInv, ChecksStopAtLimit, WatchdogArmed, RetryPending,
                      StartingIsSupervised, DisabledIsQuiet, UnexpectedExitNoticed,
                      SettingsApplied, NothingOutlivesProcess
  <1>3. CASE Next
    BY <1>1, <1>3, RestartStep, SocketStep, OtherStep
  <1>. QED  BY <1>2, <1>3

-----------------------------------------------------------------------------
(* The theorems *)

\* All that the handlers of Shprot rely on holds after each of them.
THEOREM Invariance == Spec => []IInv
  BY InitInv, NextInv, PTL DEF Spec

\* Every variable keeps its type; in particular the number of failed checks
\* never passes its limit.
THEOREM TypeCorrect == Spec => []TypeOK
  <1>1. IInv => TypeOK
    BY DEF IInv
  <1>. QED  BY Invariance, <1>1, PTL

\* maybeRestartTunnelProcess and the handlers of the process and of the health
\* check never leave an enabled tunnel without a process and without a timer,
\* nor a process without a check, a check in progress or a timer.
THEOREM NeverForgotten == Spec => []NothingIsForgotten
  <1>1. IInv => NothingIsForgotten
    BY DEF IInv, NothingIsForgotten
  <1>. QED  BY Invariance, <1>1, PTL

\* A failed check never leads to another one beyond HealthCheckFailsLimit.
THEOREM ChecksAreLimited == Spec => []ChecksStopAtLimit
  <1>1. IInv => ChecksStopAtLimit
    BY DEF IInv
  <1>. QED  BY Invariance, <1>1, PTL

\* A disabled tunnel that was handled leaves no process, key, proxy or check,
\* also after a crash.
THEOREM DisabledLeavesNothing == Spec => []DisabledIsQuiet
  <1>1. IInv => DisabledIsQuiet
    BY DEF IInv
  <1>. QED  BY Invariance, <1>1, PTL

\* No exit of a living process is mistaken for an intentional stop, and the
\* process that is not about to be restarted has the saved settings.
THEOREM ProcessIsWanted == Spec => []ProcessIsAsWanted
  <1>1. IInv => ProcessIsAsWanted
    BY DEF IInv, ProcessIsAsWanted
  <1>. QED  BY Invariance, <1>1, PTL

\* The HTTP proxy, the checks and the open state end with the ssh process.
THEOREM ProcessEndsAll == Spec => []NothingOutlivesProcess
  <1>1. IInv => NothingOutlivesProcess
    BY DEF IInv
  <1>. QED  BY Invariance, <1>1, PTL

\* Whichever handlers run while stopTunnelProcess waits, what they arm does not
\* outlive the stop: it leaves no check, no retry, no HTTP proxy and no
\* indication, and it does not count as a failure.
QuietStop ==
    \A members \in Stopped :
        /\ ~members.healthTimer /\ members.healthSocket = NoSocket
        /\ ~members.internetReachable /\ ~members.httpListening
        /\ members.tunnelTimer = Inactive /\ members.failedRestarts = failedRestarts

THEOREM NestedHandlersLeaveNothing == Spec => []QuietStop
  <1>1. ASSUME IInv, NEW members \in Stopped
        PROVE  /\ ~members.healthTimer /\ members.healthSocket = NoSocket
               /\ ~members.internetReachable /\ ~members.httpListening
               /\ members.tunnelTimer = Inactive /\ members.failedRestarts = failedRestarts
    <2>1. TypeOK
      BY <1>1 DEF IInv
    <2>2. StopLeaves(members)
      BY <1>1, <2>1, StopEnds
    <2>3. process # "Running" => internetReachable = FALSE /\ httpListening = FALSE
      BY <1>1, <2>1 DEF IInv, NothingOutlivesProcess, TypeOK
    <2>. QED  BY <2>2, <2>3 DEF StopLeaves
  <1>2. IInv => QuietStop
    BY <1>1 DEF QuietStop
  <1>. QED  BY Invariance, <1>2, PTL

-----------------------------------------------------------------------------
(* Two properties need an assumption about the environment. *)

NoForeignListener == ~foreign /\ OpenIsOurs

LEMMA OursStep ==
    ASSUME Faults = {}, IInv, NoForeignListener, [Next]_vars
    PROVE  NoForeignListener'
  <1>t. TypeOK
    BY DEF IInv
  <1>. USE <1>t, RestartOutcomes, HandlerOutcomes
  <1>. USE DEF NoForeignListener, OpenIsOurs, processVars, healthVars, restartVars, statusVars,
               userVars, envVars
  <1>1. CASE UNCHANGED vars
    BY <1>1 DEF vars
  <1>2. ASSUME AttemptGivenUp \/ OutcomeStartTimeout
        PROVE  NoForeignListener'
    BY <1>2 DEF AttemptGivenUp, OutcomeStartTimeout
  <1>3. CASE RestartStarted
    <2>1. internetReachable' = FALSE
      BY <1>3 DEF OutcomeStarted, IInv, NothingOutlivesProcess, TypeOK
    <2>. QED  BY <1>3, <2>1 DEF OutcomeStarted, StartHandled
  <1>4. CASE MaybeRestartTunnelProcess
    BY <1>2, <1>3, <1>4
       DEF MaybeRestartTunnelProcess, OutcomeDisabled, OutcomeWithoutNetwork, OutcomeWithoutSsh,
           OutcomeWithEncryptedKey, OutcomeWriteFailed, OutcomeStartFailed
  <1>5. ASSUME NEW socket \in SocketIds, SocketEnds(socket)
        PROVE  NoForeignListener'
    <2>1. CASE ObsoleteSocketEnds(socket) \/ ProbeFails(socket)
      <3>1. UNCHANGED <<foreign, ssh, process, portOpened, internetReachable>>
        BY <2>1 DEF ObsoleteSocketEnds, ProbeFails
      <3>. QED  BY <3>1
    <2>2. CASE ProbeSucceeds(socket) \/ CheckSucceeds(socket)
      BY <2>2 DEF ProbeSucceeds, CheckSucceeds, PortAccepts
    <2>3. CASE CheckFailsInWarmup(socket) \/ CheckFails(socket)
      <3>1. internetReachable' = FALSE
        BY <2>3 DEF CheckFailsInWarmup, CheckOutcome
      <3>2. UNCHANGED <<foreign, ssh, process, portOpened>>
        BY <2>3 DEF CheckFailsInWarmup, CheckOutcome
      <3>. QED  BY <3>1, <3>2
    <2>. QED  BY <1>5, <2>1, <2>2, <2>3 DEF SocketEnds
  <1>6. CASE Boot
    BY <1>6 DEF Boot
  <1>7. CASE Quit \/ Crash
    BY <1>7 DEF Quit, Crash, Forget
  <1>8. ASSUME Wake \/ \E status \in BOOLEAN : NetworkEvent(status)
        PROVE  NoForeignListener'
    BY <1>8 DEF Wake, NetworkEvent, HandleNetworkChange
  <1>9. ASSUME NEW settings \in Settings, ChangePreferences(settings)
        PROVE  NoForeignListener'
    BY <1>9 DEF ChangePreferences
  <1>10. CASE ProcessStarted
    <2>1. internetReachable = FALSE
      BY <1>10 DEF StartOutcome, IInv, NothingOutlivesProcess, TypeOK
    <2>. QED  BY <1>10, <2>1 DEF StartOutcome, StartHandled
  <1>11. CASE ProcessFailsToStart
    BY <1>11 DEF ProcessFailsToStart
  <1>12. CASE SshListens \/ SshIsRefused \/ SshFails \/ SshIsLost
    BY <1>12 DEF SshListens, SshIsRefused, SshFails, SshIsLost, Ssh
  <1>13. CASE ProcessFinished
    BY <1>13 DEF FinishOutcome
  <1>14. CASE ForeignListens \/ ForeignEnds
    BY <1>14 DEF ForeignListens, ForeignEnds
  <1>15. CASE WarmupElapses
    BY <1>15 DEF WarmupElapses
  <1>16. CASE HealthTimeout
    BY <1>16 DEF HealthTimeout
  <1>. QED
    BY <1>1, <1>4, <1>5, <1>6, <1>7, <1>8, <1>9, <1>10, <1>11, <1>12, <1>13, <1>14, <1>15, <1>16
       DEF Next, Application, User, Environment, TunnelTimeout, ReconnectNow

\* As long as nobody else listens on the SOCKS port, an opened port and a
\* reachable internet mean that the ssh of this application authenticated.
THEOREM OpenMeansAuthenticated ==
    ASSUME Faults = {}
    PROVE  Spec => []OpenIsOurs
  <1>1. Init => NoForeignListener
    BY DEF Init, NoForeignListener, OpenIsOurs
  <1>2. IInv /\ NoForeignListener /\ [Next]_vars => NoForeignListener'
    BY OursStep
  <1>3. NoForeignListener => OpenIsOurs
    BY DEF NoForeignListener
  <1>. QED  BY Invariance, <1>1, <1>2, <1>3, PTL DEF Spec

LEMMA QuitStep ==
    ASSUME "crash" \notin Faults, IInv, QuitLeavesNothing, [Next]_vars
    PROVE  QuitLeavesNothing'
  <1>. USE HandlerOutcomes
  <1>. USE DEF QuitLeavesNothing, processVars, healthVars, restartVars, statusVars,
               userVars, envVars
  <1>1. CASE UNCHANGED vars
    BY <1>1 DEF vars
  <1>2. CASE Quit
    BY <1>2 DEF Quit, Forget, RemoveKeyFile
  <1>3. ASSUME running'
        PROVE  QuitLeavesNothing'
    BY <1>3
  <1>4. CASE Next /\ running /\ ~Quit
    <2>1. MaybeRestartTunnelProcess => running' = running
      BY DEF MaybeRestartTunnelProcess, RestartDisabled, RestartWithoutNetwork,
             RestartWithoutSsh, RestartWithEncryptedKey, RestartWriteFailed,
             RestartStartFailed, RestartStartTimeout, RestartStarted, GiveUpAttempt
    <2>2. \A socket \in SocketIds : SocketEnds(socket) => running' = running
      BY DEF SocketEnds, ObsoleteSocketEnds, ProbeSucceeds, ProbeFails, CheckSucceeds,
             CheckFailsInWarmup, CheckOutcome
    <2>3. ProcessStarted \/ ProcessFinished \/ HealthTimeout \/ ProcessFailsToStart
            => running' = running
      BY DEF StartOutcome, FinishOutcome, HealthTimeout, ProcessFailsToStart
    <2>4. SshListens \/ SshIsRefused \/ SshFails \/ SshIsLost \/ ForeignListens
            \/ ForeignEnds \/ WarmupElapses => running' = running
      BY DEF SshListens, SshIsRefused, SshFails, SshIsLost, Ssh, ForeignListens, ForeignEnds,
             WarmupElapses
    <2>5. Wake \/ (\E status \in BOOLEAN : NetworkEvent(status)) => running' = running
      BY DEF Wake, NetworkEvent, HandleNetworkChange
    <2>6. \A settings \in Settings : ChangePreferences(settings) => running' = running
      BY DEF ChangePreferences
    <2>7. running'
      BY <1>4, <2>1, <2>2, <2>3, <2>4, <2>5, <2>6
         DEF Next, Application, User, Environment, TunnelTimeout, ReconnectNow, Crash, Boot
    <2>. QED  BY <1>3, <2>7
  <1>5. CASE Next /\ ~running
    <2>1. \A socket \in SocketIds :
             SocketEnds(socket) => UNCHANGED <<running, ssh, identityFile, httpListening>>
      BY DEF SocketEnds, ObsoleteSocketEnds, ProbeSucceeds, ProbeFails, CheckSucceeds,
             CheckFailsInWarmup, CheckOutcome
    <2>2. SshListens \/ SshIsRefused \/ SshFails \/ SshIsLost => FALSE
      BY <1>5 DEF SshListens, SshIsRefused, SshFails, SshIsLost
    <2>3. ForeignListens \/ ForeignEnds \/ WarmupElapses
            => UNCHANGED <<running, ssh, identityFile, httpListening>>
      BY DEF ForeignListens, ForeignEnds, WarmupElapses
    <2>4. Boot => running'
      BY DEF Boot
    <2>. QED  BY <1>3, <1>5, <2>1, <2>2, <2>3, <2>4
              DEF Next, Application, User, Environment, TunnelTimeout, ReconnectNow, Crash, Quit,
                  StartOutcome, FinishOutcome, HealthTimeout, ProcessFailsToStart, Wake,
                  NetworkEvent, HandleNetworkChange, ChangePreferences
  <1>. QED  BY <1>1, <1>2, <1>4, <1>5

\* An application that never crashed leaves no ssh and no private key behind
\* when it is not running.
THEOREM QuitIsClean ==
    ASSUME "crash" \notin Faults
    PROVE  Spec => []QuitLeavesNothing
  <1>1. Init => QuitLeavesNothing
    BY DEF Init, QuitLeavesNothing
  <1>2. IInv /\ QuitLeavesNothing /\ [Next]_vars => QuitLeavesNothing'
    BY QuitStep
  <1>. QED  BY Invariance, <1>1, <1>2, PTL DEF Spec

-----------------------------------------------------------------------------
(* TunnelRefinement: the steps of the supervisor are steps of the service  *)
(* or none, while nobody else listens on the port of the tunnel and the    *)
(* application does not crash.                                             *)

\* The invariant of Tunnel tells what the phases exclude: a tunnel that is open
\* or connecting has a process, a process that starts has a pending retry, and
\* an open tunnel is not refused.
RInv ==
    /\ IInv
    /\ OpenIsOurs
    /\ ~running => process = "NotRunning"

LEMMA PowersAreExact == \A n \in 0..16 : PowersOfTwo[n + 1] = 2^n
  <1>. SUFFICES ASSUME NEW n \in 0..16 PROVE PowersOfTwo[n + 1] = 2^n
    OBVIOUS
  <1>1. /\ PowersOfTwo[0 + 1] = 2^0 /\ PowersOfTwo[1 + 1] = 2^1 /\ PowersOfTwo[2 + 1] = 2^2
        /\ PowersOfTwo[3 + 1] = 2^3 /\ PowersOfTwo[4 + 1] = 2^4 /\ PowersOfTwo[5 + 1] = 2^5
        /\ PowersOfTwo[6 + 1] = 2^6 /\ PowersOfTwo[7 + 1] = 2^7 /\ PowersOfTwo[8 + 1] = 2^8
        /\ PowersOfTwo[9 + 1] = 2^9 /\ PowersOfTwo[10 + 1] = 2^10 /\ PowersOfTwo[11 + 1] = 2^11
        /\ PowersOfTwo[12 + 1] = 2^12 /\ PowersOfTwo[13 + 1] = 2^13 /\ PowersOfTwo[14 + 1] = 2^14
        /\ PowersOfTwo[15 + 1] = 2^15 /\ PowersOfTwo[16 + 1] = 2^16
    BY DEF PowersOfTwo
  <1>2. \/ n = 0 \/ n = 1 \/ n = 2 \/ n = 3 \/ n = 4 \/ n = 5 \/ n = 6 \/ n = 7 \/ n = 8
        \/ n = 9 \/ n = 10 \/ n = 11 \/ n = 12 \/ n = 13 \/ n = 14 \/ n = 15 \/ n = 16
    OBVIOUS
  <1>. QED  BY <1>1, <1>2, Zenon

\* Shifting and capping as the code does amounts to the doubling that the
\* service promises.
LEMMA SameDelays ==
    ASSUME TypeOK, NEW refused \in BOOLEAN, RestartScheduled(refused),
           UNCHANGED <<prefs, reachable>>
    PROVE  Service!CountAndRetry(refused)
  <1>1. failedRestarts \in 0..ShiftMax /\ failedRestarts \in 0..16
    BY DelayAssumption DEF TypeOK
  <1>. DEFINE power == PowersOfTwo[failedRestarts + 1]
  <1>2. power = 2^failedRestarts /\ power \in Nat
    <2>1. failedRestarts + 1 \in 1..17
      BY <1>1
    <2>. QED  BY <1>1, <2>1, PowersAreExact, PowersType
  <1>3. Least(failedRestarts, ShiftMax) = failedRestarts
    BY <1>1, DelayAssumption DEF Least
  <1>4. RestartDelayAfter(refused, failedRestarts) = Least(BaseDelay(refused) * power, MaxDelay(refused))
    BY <1>3 DEF RestartDelayAfter
  <1>5. Service!Backoff(refused, failedRestarts) =
            IF refused THEN Service!Capped(DelayAuthBase * power, DelayAuthMax)
            ELSE Service!Capped(DelayBase * power, DelayMax)
    BY <1>2 DEF Service!Backoff
  <1>. HIDE DEF power
  <1>6. \A delay \in Nat, cap \in Nat : Least(delay, cap) = Service!Capped(delay, cap)
    BY DEF Least, Service!Capped
  <1>7. DelayBase * power \in Nat /\ DelayAuthBase * power \in Nat
    BY <1>2, DelayAssumption, ScaledMonotone
  <1>8. RestartDelayAfter(refused, failedRestarts) = Service!Backoff(refused, failedRestarts)
    BY <1>4, <1>5, <1>6, <1>7, DelayAssumption DEF BaseDelay, MaxDelay
  <1>9. CountFailure(failedRestarts) = IF failedRestarts < ShiftMax THEN failedRestarts + 1
                                       ELSE failedRestarts
    BY <1>1, DelayAssumption DEF CountFailure, Least
  <1>. QED  BY <1>8, <1>9 DEF RestartScheduled, Service!CountAndRetry, MayStart

LEMMA InitService == Init => Service!Init
  BY DEF Init, Service!Init, Service!NoRetry, Phase, Inactive, MayStart

\* Whatever leaves the phase, the failures, the timer and the settings alone
LEMMA Stutter ==
    ASSUME UNCHANGED <<running, process, internetReachable, tunnelTimer, failedRestarts,
                       prefs, reachable>>
    PROVE  UNCHANGED Service!serviceVars
  BY DEF Service!serviceVars, Phase, MayStart

LEMMA RestartService ==
    ASSUME RInv, running, MaybeRestartTunnelProcess
    PROVE  Service!Next
  <1>t. TypeOK
    BY DEF RInv, IInv
  <1>. USE <1>t, RestartOutcomes
  <1>1. internetReachable' = FALSE \/ process' # "Running"
    BY DEF MaybeRestartTunnelProcess, OutcomeDisabled, OutcomeWithoutNetwork, OutcomeWithoutSsh,
           OutcomeWithEncryptedKey, OutcomeWriteFailed, OutcomeStartFailed, OutcomeStartTimeout,
           OutcomeStarted, AttemptGivenUp, RInv, IInv, NothingOutlivesProcess, TypeOK
  <1>2. UNCHANGED <<running, prefs, reachable>>
    BY DEF MaybeRestartTunnelProcess, OutcomeDisabled, OutcomeWithoutNetwork, OutcomeWithoutSsh,
           OutcomeWithEncryptedKey, OutcomeWriteFailed, OutcomeStartFailed, OutcomeStartTimeout,
           OutcomeStarted, AttemptGivenUp, userVars, envVars
  <1>3. Phase # "off"
    BY DEF Phase
  <1>4. UNCHANGED MayStart
    BY <1>2 DEF MayStart
  <1>5. CASE RestartDisabled \/ RestartWithoutNetwork \/ RestartWithEncryptedKey
    <2>1. ~MayStart /\ Phase' = "idle" /\ tunnelTimer' = Inactive /\ UNCHANGED failedRestarts
      BY <1>2, <1>5 DEF OutcomeDisabled, OutcomeWithoutNetwork, OutcomeWithEncryptedKey,
                        AttemptGivenUp, MayStart, Phase
    <2>. QED
      BY <1>3, <1>4, <2>1 DEF Service!Next, Service!Attempt, Service!NoRetry, Inactive
  <1>6. CASE RestartWithoutSsh \/ RestartStartFailed
    <2>1. Phase' = "waiting" /\ tunnelTimer' = SshMissingDelay /\ UNCHANGED failedRestarts
      BY <1>2, <1>6, FixedDelays DEF OutcomeWithoutSsh, OutcomeStartFailed, AttemptGivenUp, Phase
    <2>. QED
      BY <1>3, <1>4, <2>1 DEF Service!Next, Service!Attempt
  <1>7. CASE RestartWriteFailed
    <2>1. MayStart /\ Phase' = "waiting"
      BY <1>2, <1>7, Scheduled DEF OutcomeWriteFailed, AttemptGivenUp, Phase, RInv, IInv
    <2>2. Service!CountAndRetry(FALSE)
      BY <1>2, <1>7, SameDelays DEF OutcomeWriteFailed, RInv, IInv
    <2>. QED  BY <1>3, <2>1, <2>2 DEF Service!Next, Service!Fail
  <1>8. CASE RestartStartTimeout
    <2>1. /\ MayStart /\ Phase' = "connecting" /\ tunnelTimer' = SshMissingDelay
          /\ UNCHANGED failedRestarts
      BY <1>2, <1>8 DEF OutcomeStartTimeout, Phase
    <2>. QED
      BY <1>3, <1>4, <2>1 DEF Service!Next, Service!Attempt
  <1>9. CASE RestartStarted
    <2>1. /\ MayStart /\ Phase' = "connecting" /\ tunnelTimer' = Inactive
          /\ UNCHANGED failedRestarts
      BY <1>1, <1>2, <1>9 DEF OutcomeStarted, StartHandled, Phase
    <2>. QED
      BY <1>3, <1>4, <2>1 DEF Service!Next, Service!Attempt, Service!NoRetry, Inactive
  <1>. QED  BY <1>5, <1>6, <1>7, <1>8, <1>9 DEF MaybeRestartTunnelProcess

LEMMA SocketService ==
    ASSUME RInv, NEW socket \in SocketIds, SocketEnds(socket)
    PROVE  [Service!Next]_Service!serviceVars
  <1>. USE HandlerOutcomes
  <1>1. CASE ObsoleteSocketEnds(socket) \/ ProbeSucceeds(socket) \/ ProbeFails(socket)
    <2>1. UNCHANGED <<running, process, internetReachable, tunnelTimer, failedRestarts,
                      prefs, reachable>>
      BY <1>1 DEF ObsoleteSocketEnds, ProbeSucceeds, ProbeFails, processVars, restartVars,
                  statusVars, userVars, envVars
    <2>. QED  BY <2>1, Stutter
  <1>2. ASSUME Current(socket) PROVE running /\ process = "Running"
    <2>1. healthSocket # NoSocket
      BY <1>2, TunnelAssumption DEF Current
    <2>. QED  BY <2>1 DEF RInv, IInv, NothingOutlivesProcess, TypeOK
  <1>3. CASE CheckSucceeds(socket)
    <2>1. running /\ process = "Running"
      BY <1>2, <1>3 DEF CheckSucceeds
    <2>2. Phase \in Service!Up /\ Phase' = "open"
      BY <1>3, <2>1 DEF CheckSucceeds, Phase, Service!Up, processVars, userVars
    <2>3. failedRestarts' = 0 /\ UNCHANGED <<tunnelTimer, MayStart>>
      BY <1>3 DEF CheckSucceeds, MayStart, userVars, envVars
    <2>. QED  BY <2>2, <2>3 DEF Service!Next, Service!Serve
  <1>4. CASE CheckFailsInWarmup(socket) \/ CheckFails(socket)
    <2>1. running /\ process = "Running"
      BY <1>2, <1>4 DEF CheckFailsInWarmup, CheckOutcome
    <2>2. Phase \in Service!Up /\ Phase' = "connecting"
      BY <1>4, <2>1 DEF CheckFailsInWarmup, CheckOutcome, Phase, Service!Up, processVars, userVars
    <2>3. UNCHANGED <<prefs, reachable>>
      BY <1>4 DEF CheckFailsInWarmup, CheckOutcome, userVars, envVars
    <2>4. UNCHANGED restartVars \/ RestartScheduled(FALSE)
      BY <1>4 DEF CheckFailsInWarmup, CheckOutcome
    <2>5. UNCHANGED <<failedRestarts, tunnelTimer, MayStart>> \/ Service!CountAndRetry(FALSE)
      BY <2>3, <2>4, SameDelays DEF restartVars, MayStart, RInv, IInv
    <2>. QED  BY <2>2, <2>5 DEF Service!Next, Service!Falter
  <1>. QED  BY <1>1, <1>3, <1>4 DEF SocketEnds

\* An exit that is noticed is that of a process nobody stopped; it was refused
\* only if it had not opened its port.
LEMMA ExitService ==
    ASSUME RInv, ProcessFinished
    PROVE  Service!Next
  <1>. USE HandlerOutcomes
  <1>1. ~stoppedIntentionally /\ process = "Running" /\ running
    BY DEF FinishOutcome, RInv, IInv, UnexpectedExitNoticed
  <1>2. RestartScheduled(ssh = "refused") /\ UNCHANGED <<prefs, reachable>>
    BY <1>1 DEF FinishOutcome, userVars, envVars
  <1>3. Service!CountAndRetry(ssh = "refused")
    BY <1>2, SameDelays DEF RInv, IInv
  <1>4. Phase' = "waiting"
    BY <1>1, <1>2, Scheduled DEF FinishOutcome, Phase, userVars, RInv, IInv
  <1>5. CASE ssh = "refused"
    <2>1. Phase = "connecting"
      BY <1>1, <1>5 DEF Phase, RInv, OpenIsOurs
    <2>2. Service!CountAndRetry(TRUE)
      BY <1>3, <1>5
    <2>. QED  BY <1>4, <2>1, <2>2 DEF Service!Next, Service!Refuse
  <1>6. CASE ssh # "refused"
    <2>1. Phase \in Service!Up
      BY <1>1 DEF Phase, Service!Up
    <2>2. Service!CountAndRetry(FALSE)
      BY <1>3, <1>6
    <2>. QED  BY <1>4, <2>1, <2>2 DEF Service!Next, Service!Lose
  <1>. QED  BY <1>5, <1>6

LEMMA ForgiveService ==
    ASSUME RInv, running, running' = running, UNCHANGED <<process, internetReachable>>,
           failedRestarts' = 0, tunnelTimer' \in {0, LazyDelay}
    PROVE  Service!Next
  <1>1. tunnelTimer' # Inactive
    BY FixedDelays
  <1>2. Phase # "off" /\ Phase' = IF Phase = "idle" THEN "waiting" ELSE Phase
    BY <1>1 DEF Phase
  <1>3. MayStart' \in BOOLEAN
    BY DEF MayStart
  <1>. QED  BY <1>2, <1>3 DEF Service!Next, Service!Forgive

LEMMA StepService ==
    ASSUME "crash" \notin Faults, RInv, [Next]_vars
    PROVE  [Service!Next]_Service!serviceVars
  <1>. USE HandlerOutcomes
  <1>1. CASE TunnelTimeout \/ ReconnectNow
    BY <1>1, RestartService DEF TunnelTimeout, ReconnectNow
  <1>2. ASSUME NEW socket \in SocketIds, SocketEnds(socket)
        PROVE  [Service!Next]_Service!serviceVars
    BY <1>2, SocketService
  <1>3. CASE ProcessFinished
    BY <1>3, ExitService
  <1>4. CASE ProcessStarted
    <2>1. /\ running /\ running' = running /\ internetReachable = FALSE
          /\ internetReachable' = FALSE /\ process = "Starting" /\ process' = "Running"
      BY <1>4 DEF StartOutcome, StartHandled, userVars, RInv, IInv, NothingOutlivesProcess,
                  TypeOK
    <2>2. UNCHANGED Phase
      BY <2>1 DEF Phase
    <2>3. UNCHANGED <<tunnelTimer, failedRestarts, prefs, reachable>>
      BY <1>4 DEF StartOutcome, restartVars, userVars, envVars
    <2>. QED  BY <2>2, <2>3 DEF Service!serviceVars, MayStart
  <1>5. CASE Boot
    <2>1. Phase = "off" /\ Phase' = "waiting" /\ tunnelTimer' = 0
      BY <1>5, FixedDelays DEF Boot, Phase, processVars, RInv
    <2>2. UNCHANGED <<failedRestarts, prefs, reachable>>
      BY <1>5 DEF Boot, envVars
    <2>. QED  BY <2>1, <2>2 DEF Service!Next, Service!Begin, MayStart
  <1>6. CASE Quit
    BY <1>6 DEF Quit, Forget, Service!Next, Service!End, Phase, Service!NoRetry, Inactive,
                MayStart
  <1>7. CASE Wake \/ \E status \in BOOLEAN : NetworkEvent(status)
    BY <1>7, ForgiveService
       DEF Wake, NetworkEvent, HandleNetworkChange, processVars, statusVars, userVars
  <1>8. ASSUME NEW settings \in Settings, ChangePreferences(settings)
        PROVE  [Service!Next]_Service!serviceVars
    BY <1>8, ForgiveService DEF ChangePreferences, processVars, statusVars
  <1>9. CASE ProcessFailsToStart
    <2>1. running /\ process = "Starting" /\ tunnelTimer # Inactive
      BY <1>9 DEF ProcessFailsToStart, RInv, IInv, StartingIsSupervised
    <2>2. process' = "NotRunning"
          /\ UNCHANGED <<running, tunnelTimer, failedRestarts, prefs, reachable>>
      BY <1>9 DEF ProcessFailsToStart, restartVars, userVars, envVars
    <2>3. Phase = "connecting" /\ Phase' = "waiting"
      BY <2>1, <2>2 DEF Phase
    <2>. QED
      BY <2>1, <2>2, <2>3 DEF Service!Next, Service!Vanish, Service!NoRetry, Inactive, MayStart
  <1>10. CASE SshListens \/ SshIsRefused \/ SshFails \/ SshIsLost \/ ForeignListens
                \/ ForeignEnds \/ WarmupElapses \/ HealthTimeout
    <2>1. UNCHANGED <<running, process, internetReachable, tunnelTimer, failedRestarts,
                      prefs, reachable>>
      BY <1>10 DEF SshListens, SshIsRefused, SshFails, SshIsLost, Ssh, ForeignListens,
                   ForeignEnds, WarmupElapses, HealthTimeout, processVars, restartVars,
                   statusVars, userVars, envVars
    <2>. QED  BY <2>1, Stutter
  <1>11. CASE UNCHANGED vars
    BY <1>11, Stutter DEF vars, processVars, restartVars, statusVars, userVars, envVars
  <1>. QED
    BY <1>1, <1>2, <1>3, <1>4, <1>5, <1>6, <1>7, <1>8, <1>9, <1>10, <1>11
       DEF Next, Application, User, Environment, Crash

-----------------------------------------------------------------------------
LEMMA OffIsQuiet == Spec => [](~running => process = "NotRunning")
  <1>. USE HandlerOutcomes
  <1>. DEFINE Off == ~running => process = "NotRunning"
  <1>1. Init => Off
    BY DEF Init
  <1>2. ASSUME Off, [Next]_vars PROVE Off'
    <2>. USE <1>2 DEF processVars, userVars
    <2>1. CASE TunnelTimeout \/ ReconnectNow
      BY <2>1 DEF TunnelTimeout, ReconnectNow, MaybeRestartTunnelProcess, RestartDisabled,
           RestartWithoutNetwork, RestartWithoutSsh, RestartWithEncryptedKey,
           RestartWriteFailed, RestartStartFailed, RestartStartTimeout, RestartStarted,
           GiveUpAttempt
    <2>2. ASSUME NEW socket \in SocketIds, SocketEnds(socket) PROVE Off'
      BY <2>2 DEF SocketEnds, ObsoleteSocketEnds, ProbeSucceeds, ProbeFails, CheckSucceeds,
                  CheckFailsInWarmup, CheckOutcome
    <2>3. CASE ProcessFinished \/ ProcessStarted \/ ProcessFailsToStart \/ HealthTimeout
      BY <2>3 DEF FinishOutcome, StartOutcome, StartHandled, ProcessFailsToStart,
                  HealthTimeout
    <2>4. CASE Boot \/ Quit \/ Crash
      BY <2>4 DEF Boot, Quit, Crash, Forget
    <2>5. CASE Wake \/ (\E status \in BOOLEAN : NetworkEvent(status))
                 \/ (\E settings \in Settings : ChangePreferences(settings))
      BY <2>5 DEF Wake, NetworkEvent, HandleNetworkChange, ChangePreferences
    <2>6. CASE SshListens \/ SshIsRefused \/ SshFails \/ SshIsLost \/ ForeignListens
                 \/ ForeignEnds \/ WarmupElapses
      BY <2>6 DEF SshListens, SshIsRefused, SshFails, SshIsLost, Ssh, ForeignListens,
                  ForeignEnds, WarmupElapses
    <2>7. CASE UNCHANGED vars
      BY <2>7 DEF vars
    <2>. QED
      BY <2>1, <2>2, <2>3, <2>4, <2>5, <2>6, <2>7 DEF Next, Application, User, Environment
  <1>. QED  BY <1>1, <1>2, PTL DEF Spec

\* The supervisor implements the service it promises: every failure that is
\* noticed is counted and answered by a retry after the delay of the backoff,
\* and no tunnel is given up unless an attempt found it impossible
\* (scheduleTunnelProcessRestart and those who call it).
THEOREM ServiceIsImplemented ==
    ASSUME Faults = {}
    PROVE  Spec => ImplementsService
  <1>1. IInv /\ OpenIsOurs /\ (~running => process = "NotRunning") => RInv
    BY DEF RInv
  <1>2. RInv /\ [Next]_vars => [Service!Next]_Service!serviceVars
    BY StepService
  <1>. QED
    BY InitService, <1>1, <1>2, Invariance, OpenMeansAuthenticated, OffIsQuiet, PTL
       DEF Spec, ImplementsService, Service!Spec
=============================================================================
