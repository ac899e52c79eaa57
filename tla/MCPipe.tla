------------------------------- MODULE MCPipe -------------------------------
(* Instances of Pipe for TLC. *)
EXTENDS Pipe

CONSTANTS p1, p2, p3

OneReader == {p1}
TwoWriters == {p2, p3}
=============================================================================
