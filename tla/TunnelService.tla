---------------------------- MODULE TunnelService ----------------------------
(***************************************************************************)
(* What Shprot promises of the tunnel, without ssh, health checks, sockets *)
(* and settings.  Tunnel implements it (module TunnelRefinement).          *)
(*                                                                         *)
(* An attempt is made when a retry is due or the user asks; only one that  *)
(* is not possible may be given up without a retry.  Every failure of one  *)
(* that was made is counted and answered by a retry after the delay of the *)
(* backoff; only a tunnel that serves, a new network or new settings are   *)
(* forgiven the failures.  Only a tunnel still connecting can be refused.  *)
(***************************************************************************)
EXTENDS Integers

CONSTANTS
    DelayBase, DelayMax,            \* the backoff of a failure
    DelayAuthBase, DelayAuthMax,    \* the backoff of a refused authentication
    ShiftMax,                       \* failures that are told apart
    LazyDelay, SshMissingDelay

VARIABLES
    phase,      \* "off", "idle", "waiting", "connecting" or "open"
    failures,   \* counted since the last success
    retry,      \* delay of the pending attempt, NoRetry if there is none
    possible    \* the settings and the network let an attempt be made

serviceVars == <<phase, failures, retry, possible>>

NoRetry == -1
Up == {"connecting", "open"}

Init == phase = "off" /\ failures = 0 /\ retry = NoRetry /\ possible \in BOOLEAN

Begin ==
    /\ phase = "off"
    /\ phase' = "waiting" /\ retry' = 0
    /\ UNCHANGED <<failures, possible>>

End ==
    /\ phase # "off"
    /\ phase' = "off" /\ failures' = 0 /\ retry' = NoRetry
    /\ UNCHANGED possible

\* "Restart delay doubles after each failed attempt", up to a cap.
Capped(delay, cap) == IF delay < cap THEN delay ELSE cap
Backoff(refused, count) ==
    IF refused THEN Capped(DelayAuthBase * 2^count, DelayAuthMax)
    ELSE Capped(DelayBase * 2^count, DelayMax)

CountAndRetry(refused) ==
    /\ retry' = Backoff(refused, failures)
    /\ failures' = IF failures < ShiftMax THEN failures + 1 ELSE failures
    /\ UNCHANGED possible

\* A retry that is due, or one that the user asks for.  The retry that stays
\* pending is that of an attempt which does not know whether it started.
Attempt ==
    /\ phase # "off"
    /\ \/ possible /\ phase' = "connecting" /\ retry' \in {NoRetry, SshMissingDelay}
       \/ phase' = "waiting" /\ retry' = SshMissingDelay
       \/ ~possible /\ phase' = "idle" /\ retry' = NoRetry
    /\ UNCHANGED <<failures, possible>>

\* An attempt that could not even be started
Fail ==
    /\ phase # "off" /\ possible
    /\ phase' = "waiting"
    /\ CountAndRetry(FALSE)

\* The network or the settings changed: try again soon.
Forgive ==
    /\ phase # "off"
    /\ phase' = IF phase = "idle" THEN "waiting" ELSE phase
    /\ failures' = 0
    /\ retry' \in {0, LazyDelay}
    /\ possible' \in BOOLEAN

Serve ==
    /\ phase \in Up
    /\ phase' = "open" /\ failures' = 0
    /\ UNCHANGED <<retry, possible>>

\* Websites are not reachable, not yet or for too long; in the latter case the
\* tunnel stays until the retry, and is counted again when it is lost before.
Falter ==
    /\ phase \in Up
    /\ phase' = "connecting"
    /\ UNCHANGED <<failures, retry, possible>> \/ CountAndRetry(FALSE)

Refuse ==
    /\ phase = "connecting"
    /\ phase' = "waiting"
    /\ CountAndRetry(TRUE)

Lose ==
    /\ phase \in Up
    /\ phase' = "waiting"
    /\ CountAndRetry(FALSE)

\* A start that had been given up fails; its retry is pending.
Vanish ==
    /\ phase = "connecting" /\ retry # NoRetry
    /\ phase' = "waiting"
    /\ UNCHANGED <<failures, retry, possible>>

Next == Begin \/ End \/ Attempt \/ Fail \/ Forgive \/ Serve \/ Falter \/ Refuse \/ Lose \/ Vanish

Spec == Init /\ [][Next]_serviceVars
=============================================================================
