-------------------------- MODULE MCTelemetryBench --------------------------
(***************************************************************************)
(* Model checking TelemetryBench, and VehicleTelemetry with it: what a     *)
(* mode does is a behaviour of VehicleTelemetry.                           *)
(***************************************************************************)
EXTENDS TelemetryBench
=============================================================================
