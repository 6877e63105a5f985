--------------------------- MODULE MCReviewWorkflow ---------------------------
(* Model-checking instance of ReviewWorkflow.  Events and commits are          *)
(* interchangeable.                                                            *)
EXTENDS ReviewWorkflow, TLC

CONSTANTS e1, e2, e3, e4, e5, c1, c2

FiveEvents == {e1, e2, e3, e4, e5}
TwoCommits == {c1, c2}

Symmetry == Permutations(EventIds) \cup Permutations(Commits)

=============================================================================
