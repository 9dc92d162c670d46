---------------------------- MODULE MCTelemetry ----------------------------
(***************************************************************************)
(* Instances of Telemetry for TLC.                                         *)
(***************************************************************************)
EXTENDS Telemetry

CONSTANTS cpu0, cpu1

=============================================================================
