---------------------------- MODULE MCReviewReceiver ----------------------------
(* Model-checking instance of ReviewReceiver.  Runs and commits are            *)
(* interchangeable; the symmetry is left out of runs with temporal properties. *)
EXTENDS ReviewReceiver, TLC

CONSTANTS r1, r2, r3, c1, c2, k1

TwoRuns    == {r1, r2}
ThreeRuns  == {r1, r2, r3}
OneCommit  == {c1}
TwoCommits == {c1, c2}
OneKey     == {k1}
NoKeys     == {}

Symmetry == Permutations(ThreeRuns) \cup Permutations(TwoCommits)

=============================================================================
