---------------------------- MODULE RestartDelay ----------------------------
(***************************************************************************)
(* The delay before the next attempt to open the tunnel                    *)
(* (Shprot::scheduleTunnelProcessRestart).  It doubles with every failure  *)
(* counted by m_failedRestartsCount and is capped; an authentication       *)
(* failure starts from a longer delay and has a higher cap.                *)
(***************************************************************************)
EXTENDS Integers

CONSTANTS
    DelayBase,      \* TunnelProcessRestartDelayBase
    DelayMax,       \* TunnelProcessRestartDelayMax
    DelayAuthBase,  \* TunnelProcessRestartDelayAuthBase
    DelayAuthMax,   \* TunnelProcessRestartDelayAuthMax
    ShiftMax        \* the largest shift applied to a base delay

\* 1 << 0 .. 1 << 16
PowersOfTwo == <<1, 2, 4, 8, 16, 32, 64, 128, 256, 512, 1024, 2048, 4096,
                 8192, 16384, 32768, 65536>>

ASSUME DelayAssumption ==
    /\ DelayBase \in Nat \ {0}
    /\ DelayMax \in Nat /\ DelayBase <= DelayMax
    /\ DelayAuthBase \in Nat \ {0}
    /\ DelayAuthMax \in Nat /\ DelayAuthBase <= DelayAuthMax
    /\ DelayBase <= DelayAuthBase /\ DelayMax <= DelayAuthMax
    /\ ShiftMax \in 0..16

Least(a, b) == IF a <= b THEN a ELSE b

BaseDelayForAll(auth) == DelayBase   \* mutant
BaseDelay(auth) == IF auth THEN DelayAuthBase ELSE DelayBase
MaxDelay(auth) == IF auth THEN DelayAuthMax ELSE DelayMax

DelayWithoutCap(auth, count) == BaseDelay(auth) * PowersOfTwo[Least(count, ShiftMax) + 1]  \* mutant
\* The delay scheduled when count failures were counted before this one.
RestartDelayAfter(auth, count) ==
    Least(BaseDelay(auth) * PowersOfTwo[Least(count, ShiftMax) + 1], MaxDelay(auth))

\* m_failedRestartsCount++.  Only the shift uses the counter, so counting
\* stops at ShiftMax: a larger value could not be told from it.
CountFailure(count) == Least(count + 1, ShiftMax)
=============================================================================
