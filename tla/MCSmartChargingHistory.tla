------------------------ MODULE MCSmartChargingHistory ------------------------
(* SmartChargingHistory with the inputs of MCSmartCharging.                *)
EXTENDS SmartChargingHistory, MCSmartCharging
=============================================================================
