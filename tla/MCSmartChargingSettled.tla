------------------------ MODULE MCSmartChargingSettled ------------------------
(* SmartChargingSettled with the inputs of MCSmartCharging.                *)
EXTENDS SmartChargingSettled, MCSmartCharging
=============================================================================
