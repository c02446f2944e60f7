------------------------- MODULE MCPackageLifecycle -------------------------
(* Instances of PackageLifecycle for TLC: archives of two versions, the     *)
(* second one also in a build that does not import and in one that fails    *)
(* its health check.                                                        *)
EXTENDS PackageLifecycle

CONSTANTS one, two, bad, sick

MCVersionOf == [a \in Archives |-> IF a = one THEN 1 ELSE 2]
=============================================================================
