-------------------------- MODULE MCChargingEngine --------------------------
(* The charging engine for TLC. *)
EXTENDS ChargingEngine

\* A failure or a restart, not both, so that overrides fit into the run.
OneFault == failures + crashes <= 1
=============================================================================
