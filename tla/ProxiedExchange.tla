-------------------------- MODULE ProxiedExchange --------------------------
(***************************************************************************)
(* What a connection of the HTTP proxy promises to the client and to the   *)
(* target of its request, whatever happens in between: the i-th unit a     *)
(* peer sends is the number i, and a peer receives an initial part of what *)
(* is meant for it, all of it unless it leaves or the proxy is stopped.    *)
(***************************************************************************)
EXTENDS Integers, Sequences

CONSTANTS ClientUnits, TargetUnits, Established, Failures

VARIABLES
    request,                    \* [connect, valid, headersEnd]
    phase,                      \* "requesting", "tunneling" or "closing"
    clientSent, targetSent, clientGot, targetGot, clientLeft, targetLeft,
    stopped,
    ended                       \* the proxy disposed of the connection

vars == <<request, phase, clientSent, targetSent, clientGot, targetGot, clientLeft,
          targetLeft, stopped, ended>>

Units(first, last) == [i \in 1..last - first + 1 |-> first + i - 1]
IsInitialPart(s, t) == Len(s) <= Len(t) /\ s = SubSeq(t, 1, Len(s))

\* The headers of CONNECT are for the proxy; others are rewritten, and sent
\* when they are complete.
ForTarget ==
    Units(IF request.connect THEN request.headersEnd + 1 ELSE request.headersEnd, clientSent)

\* A tunnel is confirmed before anything the target sends.
ForClient ==
    (IF request.connect THEN <<Established>> ELSE <<>>) \o Units(1, targetSent)

Refused == \E status \in Failures : clientGot = <<status>>

\* Nobody who stays is left without an answer, or without the rest of it.
MayEnd ==
    \/ stopped
    \/ phase = "closing" /\ (clientLeft \/ Refused)
    \/ /\ phase = "tunneling"
       /\ clientLeft \/ targetLeft
       /\ clientLeft \/ clientGot = ForClient
       /\ targetLeft \/ targetGot = ForTarget

Init ==
    /\ phase = "requesting"
    /\ clientSent = 0 /\ targetSent = 0
    /\ clientGot = <<>> /\ targetGot = <<>>
    /\ clientLeft = FALSE /\ targetLeft = FALSE
    /\ stopped = FALSE /\ ended = FALSE

\* The proxy may take a decision, or dispose of the connection, in any step.
Settle ==
    /\ phase' \in IF phase = "requesting" THEN {"requesting", "tunneling", "closing"}
                  ELSE {phase}
    /\ phase' = "tunneling" => request.valid
    /\ ended' => MayEnd'
    /\ UNCHANGED request

Decide ==
    /\ UNCHANGED <<clientSent, targetSent, clientGot, targetGot, clientLeft, targetLeft,
                   stopped>>
    /\ Settle

ClientSends ==
    /\ clientSent' \in clientSent + 1..ClientUnits
    /\ UNCHANGED <<targetSent, clientGot, targetGot, clientLeft, targetLeft, stopped>>
    /\ Settle

TargetSends ==
    /\ phase = "tunneling"
    /\ targetSent' \in targetSent + 1..TargetUnits
    /\ UNCHANGED <<clientSent, clientGot, targetGot, clientLeft, targetLeft, stopped>>
    /\ Settle

TargetReceives ==
    /\ phase = "tunneling"
    /\ \E n \in Len(targetGot)..Len(ForTarget) : targetGot' = SubSeq(ForTarget, 1, n)
    /\ IsInitialPart(targetGot, targetGot')
    /\ UNCHANGED <<clientSent, targetSent, clientGot, clientLeft, targetLeft, stopped>>
    /\ Settle

ClientReceives ==
    /\ \/ /\ phase = "tunneling"
          /\ \E n \in Len(clientGot)..Len(ForClient) : clientGot' = SubSeq(ForClient, 1, n)
          /\ IsInitialPart(clientGot, clientGot')
       \/ /\ phase = "closing" /\ clientGot = <<>>
          /\ \E status \in Failures : clientGot' = <<status>>
    /\ UNCHANGED <<clientSent, targetSent, targetGot, clientLeft, targetLeft, stopped>>
    /\ Settle

Leave ==
    /\ \/ ~clientLeft /\ clientLeft' = TRUE /\ UNCHANGED targetLeft
       \/ ~targetLeft /\ targetLeft' = TRUE /\ UNCHANGED clientLeft
    /\ UNCHANGED <<clientSent, targetSent, clientGot, targetGot, stopped>>
    /\ Settle

Stop ==
    /\ stopped' = TRUE /\ ended' = TRUE
    /\ phase' = "closing"
    /\ UNCHANGED <<request, clientSent, targetSent, clientGot, targetGot, clientLeft,
                   targetLeft>>

Next ==
    /\ ~ended
    /\ \/ Decide
       \/ ClientSends \/ TargetSends
       \/ ClientReceives \/ TargetReceives
       \/ Leave
       \/ Stop

Spec == Init /\ [][Next]_vars
=============================================================================
