-------------------------- MODULE MCTunnelHistory --------------------------
(* Small values for the constants of TunnelHistory. *)
EXTENDS TunnelHistory, TunnelRefinement, TLC

SocketSymmetry == Permutations(SocketIds)

\* Two tunnels that differ, a disabled one and one that can't be started.
SettingsUsed == {
    [enabled |-> TRUE,  http |-> TRUE,  keyEncrypted |-> FALSE],
    [enabled |-> TRUE,  http |-> FALSE, keyEncrypted |-> FALSE],
    [enabled |-> FALSE, http |-> FALSE, keyEncrypted |-> FALSE],
    [enabled |-> TRUE,  http |-> FALSE, keyEncrypted |-> TRUE]}
=============================================================================
