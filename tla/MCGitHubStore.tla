---------------------------- MODULE MCGitHubStore ----------------------------
(* The callers of the store: two complete the same action, and both may create *)
(* the document.                                                               *)
EXTENDS GitHubStore, TLC

CONSTANTS w1, w2, w3, w4, k1, k2, k3

FourCallers == {w1, w2, w3, w4}
ThreeActions == {k1, k2, k3}
TwoForOneAction == (w1 :> k1) @@ (w2 :> k1) @@ (w3 :> k2) @@ (w4 :> k3)
FirstCallers == {w1, w2}

=============================================================================
