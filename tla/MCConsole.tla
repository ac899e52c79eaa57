------------------------------ MODULE MCConsole -----------------------------
(* Instances of Console for TLC. *)
EXTENDS Console

CONSTANTS p1, p3

OneReader == {p1}
OneWriter == {p3}
=============================================================================
