--------------------------------- MODULE Ages ---------------------------------
(***************************************************************************)
(* Timestamps as ages.  The code stores a timestamp, or None, and later    *)
(* compares its age with a configured duration; the models store the age,  *)
(* in ticks, and stop counting once it has passed every duration it is     *)
(* compared with.                                                          *)
(***************************************************************************)
EXTENDS Integers

CONSTANT None  \* a timestamp, or another value, that is not set

ASSUME NoneAssumption == None \notin Int

Lesser(a, b) == IF a <= b THEN a ELSE b
Greater(a, b) == IF a >= b THEN a ELSE b

\* A condition that starts to hold now has held for 0 ticks.
HeldFor(since) == IF since = None THEN 0 ELSE since

\* One tick later.
Older(age, bound) == IF age = None THEN None ELSE Lesser(age + 1, bound)

AgeUpTo(bound) == 0 .. bound \cup {None}
=============================================================================
