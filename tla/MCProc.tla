------------------------------- MODULE MCProc -------------------------------
(* Small instances of Proc for TLC. *)
EXTENDS Proc

\* kill() of any process but init.
OtherPids == 2 .. MAXPID
=============================================================================
