------------------------------ MODULE MCVirtio ------------------------------
(* Instances of Virtio for TLC. *)
EXTENDS Virtio, TLC

CONSTANTS p1, p2, p3, k1, k2, k3, v0, v1

ThreeProcs == {p1, p2, p3}
ThreeBlocks == {k1, k2, k3}
TwoVals == {v0, v1}

Symm == Permutations(Proc) \cup Permutations(Block) \cup Permutations(Val)
=============================================================================
