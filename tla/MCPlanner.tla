------------------------------ MODULE MCPlanner ------------------------------
(***************************************************************************)
(* Small instances of Planner for TLC.                                     *)
(***************************************************************************)
EXTENDS Planner, TLC

CONSTANTS s1, s2, s3,  \* schedules
          ann, bob     \* the owner and a watcher

Forever == (s1 :> NoTime) @@ (s2 :> NoTime)

\* A schedule of two moments, for runs with two people.
Few == s1 :> {0, 2}

\* s1 recurs, s2 and s3 fire once: s1 alone stays within a budget of three,
\* the three together do not.
MixedMoments == (s1 :> {1, 3}) @@ (s2 :> {2}) @@ (s3 :> {4})
MixedLast == (s1 :> NoTime) @@ (s2 :> 2) @@ (s3 :> 4)

\* Quiet hours around the second moment: it is delivered at the third.
QuietSecond == [m \in 0..8 |-> IF m = 2 THEN 3 ELSE m]

\* Around the first of two: it is delivered at a moment that is not scheduled.
QuietFirst == [m \in 0..8 |-> IF m = 0 THEN 1 ELSE m]
=============================================================================
