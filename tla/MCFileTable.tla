---------------------------- MODULE MCFileTable ----------------------------
(* Instance of FileTable for TLC. *)
EXTENDS FileTable

CONSTANTS p1, p2, i1, i2, q1

TwoProcs == {p1, p2}
TwoInodes == {i1, i2}
ReadWrite == {<<TRUE, TRUE>>}
OnePipe == {q1}
=============================================================================
