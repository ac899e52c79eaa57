------------------------------- MODULE MCCpu -------------------------------
(* Instance of Cpu for TLC: the bounds are numbers, in the .cfg. *)
EXTENDS Cpu
=============================================================================
