----------------------- MODULE MCModuleOrchestrator -----------------------
(***************************************************************************)
(* integration.chargeamps, feature.smart-charging that needs it to start   *)
(* charging, and an installed package that needs both.                     *)
(***************************************************************************)
EXTENDS ModuleOrchestrator

CONSTANTS charger, smart, pack

MCRank == [m \in Modules |-> CASE m = charger -> 1 [] m = smart -> 2 [] OTHER -> 3]
MCDeps == [m \in Modules |-> IF m = pack THEN {smart} ELSE {}]
MCRequires == [m \in Modules |-> IF m = charger THEN {} ELSE {"start"}]
MCProvides == [m \in Modules |-> IF m = charger THEN {"start"} ELSE {}]
MCInitially == {{charger}, {smart}, {charger, smart}, {charger, pack}}
MCInitiallyBoth == {{charger, smart}}
=============================================================================
