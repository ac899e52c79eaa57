------------------------------- MODULE MCBio -------------------------------
(* Instances of Bio for TLC. *)
EXTENDS Bio

CONSTANTS p1, p2, k1, k2, k3, v0, v1

TwoProcs == {p1, p2}
ThreeBlocks == {k1, k2, k3}
OneVal == {v0}
TwoVals == {v0, v1}
OneLogged == {k1}
=============================================================================
