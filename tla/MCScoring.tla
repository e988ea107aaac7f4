------------------------------ MODULE MCScoring -----------------------------
(* Instances of Scoring for TLC. *)
EXTENDS Scoring, TLC

CONSTANTS t1, t2, t3, boot, a1

TwoComps == 1..2
ThreeComps == 1..3
TwoTasks == {t1, t2}
ThreeTasks == {t1, t2, t3}

\* Task slots are interchangeable.  Used where no liveness is checked.
Symmetry == Permutations(Task)
=============================================================================
