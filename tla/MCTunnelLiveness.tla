-------------------------- MODULE MCTunnelLiveness --------------------------
(* Small values for the constants of TunnelLiveness. *)
EXTENDS TunnelLiveness

EnabledAndDisabled == {
    [enabled |-> TRUE,  http |-> FALSE, keyEncrypted |-> FALSE],
    [enabled |-> FALSE, http |-> FALSE, keyEncrypted |-> FALSE]}
=============================================================================
