--------------------------- MODULE TunnelRefinement ---------------------------
(***************************************************************************)
(* Tunnel implements TunnelService: the process, the settings and the      *)
(* checks of Shprot amount to one of the five phases, its failure counter  *)
(* and its restart timer to those of the service.                          *)
(***************************************************************************)
EXTENDS Tunnel

Phase ==
    IF ~running THEN "off"
    ELSE IF process = "Running" /\ internetReachable THEN "open"
    ELSE IF process # "NotRunning" THEN "connecting"
    ELSE IF tunnelTimer # Inactive THEN "waiting"
    ELSE "idle"

Service == INSTANCE TunnelService
    WITH phase <- Phase, failures <- failedRestarts, retry <- tunnelTimer,
         possible <- MayStart

\* Whatever ssh, its timers, sockets and signals do and in which order, the
\* supervisor keeps the promise of the service: a tunnel that ends is counted
\* once per exit, retried after the delay its end and its history call for, and
\* given up only by an attempt (maybeRestartTunnelProcess,
\* handleTunnelProcessFinish, handleHealthCheckSocketStateChange).
ImplementsService == Service!Spec
=============================================================================
