------------------------------- MODULE MCLog -------------------------------
(* Instances of Log for TLC. *)
EXTENDS Log

CONSTANTS p1, p2, b1, b2, v0, v1

TwoProcs == {p1, p2}
TwoBlocks == {b1, b2}
TwoVals == {v0, v1}
=============================================================================
