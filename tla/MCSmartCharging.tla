--------------------------- MODULE MCSmartCharging ---------------------------
(* Inputs and bounds for checking SmartCharging on a small charger.        *)
EXTENDS SmartCharging

CONSTANTS ModesUsed, OverrideModes, Targets

Base(mode, override) ==
    [mode |-> mode, override |-> override, target |-> 0, urgent |-> FALSE,
     surplus |-> FALSE, import |-> "deadband", plugged |-> TRUE,
     faulty |-> FALSE, charging |-> FALSE]

\* Each choice of mode and override in use.
Bases == {Base(m, FALSE) : m \in ModesUsed} \cup {Base(m, TRUE) : m \in OverrideModes}

\* A site that exports does not import.
Wanting == {[b EXCEPT !.target = t, !.urgent = u, !.surplus = s, !.charging = c,
                      !.import = IF s THEN "deadband" ELSE "excess"] :
              b \in Bases, t \in Targets \ {0}, u \in BOOLEAN, s \in BOOLEAN, c \in BOOLEAN}
Idle == {[b EXCEPT !.import = i, !.charging = c] :
           b \in Bases, i \in {"deadband", "allowance", "excess"}, c \in BOOLEAN}
Absent == {[b EXCEPT !.plugged = FALSE] : b \in Bases}
Broken == {[b EXCEPT !.faulty = TRUE] : b \in Bases}

MCInputs == Wanting \cup Idle \cup Absent \cup Broken
=============================================================================
