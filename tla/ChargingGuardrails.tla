-------------------------- MODULE ChargingGuardrails --------------------------
(***************************************************************************)
(* What smart charging promises about the current it requests, without     *)
(* saying how it decides: steps are bounded, a start made on EMIC's own    *)
(* initiative waits out the minimum off time and is counted against the    *)
(* hourly limit, and only charging the user asked for (quick charge or     *)
(* manual override) may skip both.                                         *)
(***************************************************************************)
EXTENDS Integers, FiniteSets

CONSTANTS MinCurrent, MaxCurrent, IncreaseStep, DecreaseStep,
          MinOffTime, MaxStarts, Hour

VARIABLES
    current,  \* the current requested of the charger, 0 for none
    rest,     \* how long the charger still has to stay off
    recent,   \* ages of the automatic starts of the last hour
    userRun   \* the last word was on fast charging the user asked for

vars == <<current, rest, recent, userRun>>

Currents == MinCurrent .. MaxCurrent

Init ==
    /\ current = 0
    /\ rest = 0
    /\ recent = {}
    /\ userRun = FALSE

AutomaticStart(c) ==
    /\ current = 0
    /\ rest = 0
    /\ Cardinality(recent) < MaxStarts
    /\ current' = c
    /\ recent' = recent \cup {0}
    /\ userRun' = FALSE
    /\ UNCHANGED rest

UserStart(c) ==
    /\ current = 0
    /\ current' = c
    /\ userRun' = TRUE
    /\ UNCHANGED <<rest, recent>>

Adjust(c) ==
    /\ current > 0
    /\ current - DecreaseStep <= c
    /\ c <= current + 2 * IncreaseStep
    /\ current' = c
    /\ userRun' \in BOOLEAN
    /\ UNCHANGED <<rest, recent>>

\* Nothing is requested (any more); the charger need not rest.
Release ==
    /\ current' = 0
    /\ userRun' \in BOOLEAN
    /\ UNCHANGED <<rest, recent>>

Stop ==
    /\ current' = 0
    /\ rest' = MinOffTime
    /\ userRun' \in BOOLEAN
    /\ UNCHANGED recent

TimePasses ==
    /\ rest' = IF rest > 0 THEN rest - 1 ELSE 0
    /\ recent' = {age + 1 : age \in recent \ {Hour}}
    /\ UNCHANGED <<current, userRun>>

Next ==
    \/ \E c \in Currents : AutomaticStart(c) \/ UserStart(c) \/ Adjust(c)
    \/ Release \/ Stop \/ TimePasses

Spec == Init /\ [][Next]_vars
=============================================================================
