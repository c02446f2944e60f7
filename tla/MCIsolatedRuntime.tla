------------------------- MODULE MCIsolatedRuntime -------------------------
(* Instances of IsolatedRuntime for TLC. *)
EXTENDS IsolatedRuntime

\* The collector's wiring, a manager for each call; one miss is enough.
OneMiss == {[kept |-> FALSE, threshold |-> 1]}

\* The wirings in which supervision finds lost runtimes: one manager kept for
\* all calls, as the end-to-end tests keep it, or one miss is enough.
Supervising == {[kept |-> TRUE, threshold |-> 2], [kept |-> FALSE, threshold |-> 1]}

\* The collector's wiring with a threshold above one, as configured.
Deployed == {[kept |-> FALSE, threshold |-> 2]}

\* What the steps and OutOfServiceIsCutOff depend on: all but the histories
\* launches and quiet, which are only written.
BesideHistory ==
    <<wiring, created, records, host, phase, listed, revoked, crashes, others, seen>>
=============================================================================
