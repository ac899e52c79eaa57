--------------------------- MODULE CrashSafeDisk ---------------------------
(***************************************************************************)
(* What the logging layer (kernel/log.c) promises to the file system: an   *)
(* array of blocks on which system calls run transactions.  A crash undoes *)
(* whole system calls and never part of one, because the durable contents  *)
(* only ever become the contents seen at a moment at which no system call  *)
(* is between begin_op() and end_op().                                     *)
(***************************************************************************)
CONSTANTS
  Proc,    \* kernel threads that run file system calls
  Block,   \* home blocks of the file system
  Val,     \* contents of a block
  Zero     \* the contents mkfs gives every block

VARIABLES
  durable, \* contents that a restart after a crash would find
  current, \* contents that bread() shows to the file system
  active   \* threads between begin_op() and end_op()

vars == <<durable, current, active>>

Init ==
  /\ durable = [b \in Block |-> Zero]
  /\ current = durable
  /\ active = {}

\* A system call opens its transaction.
Begin(p) ==
  /\ p \notin active
  /\ active' = active \cup {p}
  /\ UNCHANGED <<durable, current>>

\* A system call changes one block; nothing becomes durable.
Write(p, b, v) ==
  /\ p \in active
  /\ current' = [current EXCEPT ![b] = v]
  /\ UNCHANGED <<durable, active>>

\* A system call closes its transaction; nothing becomes durable yet.
End(p) ==
  /\ p \in active
  /\ active' = active \ {p}
  /\ UNCHANGED <<durable, current>>

\* Everything done by the completed system calls becomes durable, at once.
Commit ==
  /\ active = {}
  /\ durable' = current
  /\ UNCHANGED <<current, active>>

\* Power failure: the file system restarts from the durable contents.
Crash ==
  /\ current' = durable
  /\ active' = {}
  /\ UNCHANGED durable

Next ==
  \/ \E p \in Proc : Begin(p) \/ End(p)
  \/ \E p \in Proc, b \in Block, v \in Val : Write(p, b, v)
  \/ Commit
  \/ Crash

Spec == Init /\ [][Next]_vars
=============================================================================
