----------------------------- MODULE MCTelemetry -----------------------------
(* The small instances of Telemetry that TLC explores. *)
EXTENDS Telemetry

=============================================================================
