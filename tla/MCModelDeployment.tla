--------------------------- MODULE MCModelDeployment ---------------------------
(* Two hosts and two contents, interchangeable.                              *)
EXTENDS ModelDeployment, TLC

CONSTANTS h1, h2, c1, c2

TwoHosts    == {h1, h2}
TwoContents == {c1, c2}
Symmetry    == Permutations(TwoHosts) \cup Permutations(TwoContents)
=============================================================================
