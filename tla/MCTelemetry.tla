---------------------------- MODULE MCTelemetry ----------------------------
(***************************************************************************)
(* Telemetry on small instances for TLC.                                   *)
(***************************************************************************)
EXTENDS Telemetry
=============================================================================
