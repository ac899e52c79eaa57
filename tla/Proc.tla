-------------------------------- MODULE Proc --------------------------------
(***************************************************************************)
(* The process table of kernel/proc.c: fork(), exit(), wait(), kill() and  *)
(* the scheduler, on NCPU processors, at the granularity of p->lock.       *)
(*                                                                         *)
(* Every slot of the table runs the user program of its process, which may *)
(* call fork, wait, kill and exit in any order; slot 1 is initproc and     *)
(* runs the loop of user/init.c.  A critical section that takes one lock   *)
(* and gives it back is one step; a lock kept longer is recorded in lock,  *)
(* and so is the order in which exit() and wait() take several.            *)
(***************************************************************************)
EXTENDS Integers, FiniteSets

CONSTANTS
  NPROC,     \* param.h: size of the process table
  NCPU,      \* number of processors
  MAXPID,    \* bound: no fork() starts once this many pids are used
  KillPids,  \* arguments given to kill()
  OOM        \* whether kalloc() may fail

ASSUME ProcAssumption ==
  /\ NPROC \in Nat /\ NPROC >= 2 /\ NCPU \in Nat \ {0}
  /\ MAXPID \in Nat /\ KillPids \subseteq Nat /\ OOM \in BOOLEAN

Slot == 1 .. NPROC
Init1 == 1    \* initproc
None == 0     \* no process, no holder, no pid

VARIABLES
  state,    \* p->state
  parent,   \* p->parent
  pid,      \* p->pid
  killed,   \* p->killed
  lock,     \* holder of p->lock
  nextpid,  \* nextpid
  pc,       \* where the process is in the kernel
  idx,      \* np or pp of a loop over the table
  kids,     \* havekids of wait()
  orig,     \* original_parent of exit()
  sh,       \* pid of init.c: the shell it waits for, None before the fork
  panicked  \* panic("init exiting")

vars == <<state, parent, pid, killed, lock, nextpid, pc, idx, kids, orig, sh,
          panicked>>
tablevars == <<parent, pid, killed, nextpid>>
localvars == <<idx, kids, orig>>

Waiting == {"wait", "scan", "asleep"}
Exiting == {"exit", "parent", "lockparent", "lockself", "reparent", "leave"}

TypeOK ==
  /\ state \in [Slot -> {"UNUSED", "SLEEPING", "RUNNABLE", "RUNNING", "ZOMBIE"}]
  /\ parent \in [Slot -> Slot \cup {None}]
  /\ nextpid \in 1 .. MAXPID + NPROC + 1
  /\ pid \in [Slot -> 0 .. nextpid - 1] /\ sh \in 0 .. nextpid - 1
  /\ killed \in [Slot -> BOOLEAN]
  /\ lock \in [Slot -> Slot \cup {None}]
  /\ pc \in [Slot -> Waiting \cup Exiting \cup {"user", "alloc", "dead"}]
  /\ idx \in [Slot -> 1 .. NPROC + 1]
  /\ kids \in [Slot -> BOOLEAN]
  /\ orig \in [Slot -> Slot \cup {None}]
  /\ panicked \in BOOLEAN

\* procinit() and userinit(): initproc is ready to run, the table is empty.
Init ==
  /\ state = [p \in Slot |-> IF p = Init1 THEN "RUNNABLE" ELSE "UNUSED"]
  /\ parent = [p \in Slot |-> None]
  /\ pid = [p \in Slot |-> IF p = Init1 THEN 1 ELSE None]
  /\ killed = [p \in Slot |-> FALSE]
  /\ lock = [p \in Slot |-> None]
  /\ nextpid = 2
  /\ pc = [p \in Slot |-> IF p = Init1 THEN "user" ELSE "dead"]
  /\ idx = [p \in Slot |-> 1]
  /\ kids = [p \in Slot |-> FALSE]
  /\ orig = [p \in Slot |-> None]
  /\ sh = None
  /\ panicked = FALSE

Running(p) == ~panicked /\ state[p] = "RUNNING"
At(p, l) == Running(p) /\ pc[p] = l
Goto(p, l) == pc' = [pc EXCEPT ![p] = l]

\* A process that has left user mode is on a processor until sched().
OnCpu(p) == state[p] = "RUNNING" \/ pc[p] = "leave"

\* freeproc(i) as it acts on the table.
FreeSlot(i) ==
  /\ pid' = [pid EXCEPT ![i] = None]
  /\ parent' = [parent EXCEPT ![i] = None]
  /\ killed' = [killed EXCEPT ![i] = FALSE]
  /\ state' = [state EXCEPT ![i] = "UNUSED"]

\* wakeup1(p) makes a process that sleeps in wait() runnable.
wakeup1(p) ==
  state' = IF state[p] = "SLEEPING" THEN [state EXCEPT ![p] = "RUNNABLE"] ELSE state

-----------------------------------------------------------------------------
(* The scheduler.                                                          *)

\* A processor picks a runnable process.  It holds p->lock across swtch():
\* a process that slept in wait() resumes with its lock and scans again.
scheduler(p) ==
  /\ ~panicked
  /\ state[p] = "RUNNABLE" /\ lock[p] = None
  /\ Cardinality({q \in Slot : OnCpu(q)}) < NCPU
  /\ state' = [state EXCEPT ![p] = "RUNNING"]
  /\ \/ /\ pc[p] = "asleep"
        /\ lock' = [lock EXCEPT ![p] = p]
        /\ idx' = [idx EXCEPT ![p] = 1]
        /\ kids' = [kids EXCEPT ![p] = FALSE]
        /\ Goto(p, "scan")
     \/ /\ pc[p] # "asleep"
        /\ UNCHANGED <<lock, idx, kids, pc>>
  /\ UNCHANGED <<tablevars, orig, sh, panicked>>

\* yield() on a timer interrupt: interrupts are off while a lock is held.
yield(p) ==
  /\ Running(p)
  /\ \A q \in Slot : lock[q] # p
  /\ lock[p] = None
  /\ state' = [state EXCEPT ![p] = "RUNNABLE"]
  /\ UNCHANGED <<tablevars, lock, pc, localvars, sh, panicked>>

-----------------------------------------------------------------------------
(* System calls of a process in user mode.                                 *)

\* usertrap() lets a process make a system call if it has not been killed;
\* init.c forks a shell, then waits.
MayCall(p) == At(p, "user") /\ ~killed[p]

\* A system call that failed returns to the user program; init.c exits.
Failed(p) ==
  /\ panicked' = (p = Init1)
  /\ Goto(p, "user")

fork(p) ==
  /\ MayCall(p)
  /\ nextpid <= MAXPID
  /\ p = Init1 => sh = None
  /\ Goto(p, "alloc")
  /\ idx' = [idx EXCEPT ![p] = 1]
  /\ UNCHANGED <<state, tablevars, lock, kids, orig, sh, panicked>>

\* The search of allocproc() looks at one slot at a time.
allocproc_next(p) ==
  /\ At(p, "alloc")
  /\ \/ /\ idx[p] > NPROC
        /\ Failed(p)
        /\ UNCHANGED idx
     \/ /\ idx[p] <= NPROC
        /\ lock[idx[p]] = None /\ state[idx[p]] # "UNUSED"
        /\ idx' = [idx EXCEPT ![p] = @ + 1]
        /\ UNCHANGED <<pc, panicked>>
  /\ UNCHANGED <<state, tablevars, lock, kids, orig, sh>>

allocpid == nextpid' = nextpid + 1

\* allocproc() has found a slot: the rest of fork() holds its lock.  When the
\* trapframe cannot be allocated the slot keeps its pid; when the page table
\* or the memory cannot be copied freeproc() clears it.
allocproc_found(p) ==
  LET np == idx[p] IN
  /\ At(p, "alloc") /\ np <= NPROC
  /\ lock[np] = None /\ state[np] = "UNUSED"
  /\ allocpid
  /\ \/ /\ pid' = [pid EXCEPT ![np] = nextpid]
        /\ parent' = [parent EXCEPT ![np] = p]
        /\ state' = [state EXCEPT ![np] = "RUNNABLE"]
        /\ pc' = [pc EXCEPT ![p] = "user", ![np] = "user"]
        /\ sh' = IF p = Init1 THEN nextpid ELSE sh
        /\ UNCHANGED <<killed, panicked>>
     \/ /\ OOM
        /\ pid' = [pid EXCEPT ![np] = nextpid]
        /\ Failed(p)
        /\ UNCHANGED <<state, parent, killed, sh>>
     \/ /\ OOM
        /\ FreeSlot(np)
        /\ Failed(p)
        /\ UNCHANGED sh
  /\ UNCHANGED <<lock, localvars>>

\* kill(n): the first slot with that pid.
kill(p, n) ==
  /\ MayCall(p) /\ p # Init1
  /\ \E v \in Slot :
       /\ pid[v] = n /\ \A q \in 1 .. v - 1 : pid[q] # n
       /\ lock[v] = None
       /\ killed' = [killed EXCEPT ![v] = TRUE]
       /\ state' = IF state[v] = "SLEEPING" THEN [state EXCEPT ![v] = "RUNNABLE"]
                   ELSE state
  /\ UNCHANGED <<parent, pid, nextpid, lock, pc, localvars, sh, panicked>>

-----------------------------------------------------------------------------
(* wait().                                                                 *)

\* wait() holds p->lock from its first line until it returns or sleeps.
wait(p) ==
  /\ MayCall(p)
  /\ p = Init1 => sh # None
  /\ Goto(p, "wait")
  /\ UNCHANGED <<state, tablevars, lock, localvars, sh, panicked>>

wait_lock(p) ==
  /\ At(p, "wait")
  /\ lock[p] = None
  /\ lock' = [lock EXCEPT ![p] = p]
  /\ idx' = [idx EXCEPT ![p] = 1]
  /\ kids' = [kids EXCEPT ![p] = FALSE]
  /\ Goto(p, "scan")
  /\ UNCHANGED <<state, tablevars, orig, sh, panicked>>

\* One turn of the scan: np->parent is read without np->lock.
wait_scan(p) ==
  LET np == idx[p] IN
  /\ At(p, "scan") /\ np <= NPROC
  /\ \/ /\ parent[np] # p
        /\ UNCHANGED kids
     \/ /\ parent[np] = p
        /\ lock[np] = None /\ state[np] # "ZOMBIE"
        /\ kids' = [kids EXCEPT ![p] = TRUE]
  /\ idx' = [idx EXCEPT ![p] = @ + 1]
  /\ UNCHANGED <<state, tablevars, lock, pc, orig, sh, panicked>>

\* An exited child: freeproc(), and its pid is the result.  copyout() of the
\* status may fail, except in init.c, which passes no address.
wait_reap(p) ==
  LET np == idx[p] IN
  /\ At(p, "scan") /\ np <= NPROC
  /\ parent[np] = p /\ lock[np] = None /\ state[np] = "ZOMBIE"
  /\ \/ /\ FreeSlot(np)
        /\ sh' = IF p = Init1 /\ pid[np] = sh THEN None ELSE sh
     \/ /\ p # Init1
        /\ UNCHANGED <<pid, parent, killed, state, sh>>
  /\ lock' = [lock EXCEPT ![p] = None]
  /\ Goto(p, "user")
  /\ UNCHANGED <<nextpid, localvars, panicked>>

\* The end of the scan: return -1, or sleep(p, &p->lock).
wait_sleep(p) ==
  /\ At(p, "scan") /\ idx[p] > NPROC
  /\ \/ /\ ~kids[p] \/ killed[p]
        /\ Failed(p)
        /\ UNCHANGED state
     \/ /\ kids[p] /\ ~killed[p]
        /\ state' = [state EXCEPT ![p] = "SLEEPING"]
        /\ Goto(p, "asleep")
        /\ UNCHANGED panicked
  /\ lock' = [lock EXCEPT ![p] = None]
  /\ UNCHANGED <<tablevars, localvars, sh>>

-----------------------------------------------------------------------------
(* exit().                                                                 *)

\* exit() is called by the program, or by usertrap() for a killed process.
exit(p) ==
  /\ At(p, "user")
  /\ p = Init1 => killed[p]
  /\ \/ p = Init1 /\ panicked' = TRUE /\ UNCHANGED pc
     \/ p # Init1 /\ Goto(p, "exit") /\ UNCHANGED panicked
  /\ UNCHANGED <<state, tablevars, lock, localvars, sh>>

\* Wake up init whether that is necessary or not.
exit_wake_init(p) ==
  /\ At(p, "exit")
  /\ lock[Init1] = None
  /\ wakeup1(Init1)
  /\ Goto(p, "parent")
  /\ UNCHANGED <<tablevars, lock, localvars, sh, panicked>>

\* Fault: p->lock is not released before the parent's is taken.
exit_parent_keeps(p) ==
  /\ At(p, "parent")
  /\ lock[p] = None
  /\ orig' = [orig EXCEPT ![p] = parent[p]]
  /\ lock' = [lock EXCEPT ![p] = p]
  /\ Goto(p, "lockparent")
  /\ UNCHANGED <<state, tablevars, idx, kids, sh, panicked>>

\* Grab a copy of p->parent.
exit_parent(p) ==
  /\ At(p, "parent")
  /\ lock[p] = None
  /\ orig' = [orig EXCEPT ![p] = parent[p]]
  /\ Goto(p, "lockparent")
  /\ UNCHANGED <<state, tablevars, lock, idx, kids, sh, panicked>>

\* The parent-then-child rule.
exit_lock_parent(p) ==
  /\ At(p, "lockparent")
  /\ lock[orig[p]] = None
  /\ lock' = [lock EXCEPT ![orig[p]] = p]
  /\ Goto(p, "lockself")
  /\ UNCHANGED <<state, tablevars, localvars, sh, panicked>>

exit_lock_self(p) ==
  /\ At(p, "lockself")
  /\ lock[p] = None
  /\ lock' = [lock EXCEPT ![p] = p]
  /\ idx' = [idx EXCEPT ![p] = 1]
  /\ Goto(p, "reparent")
  /\ UNCHANGED <<state, tablevars, kids, orig, sh, panicked>>

\* Fault: only children that have not exited are given to init.
reparent_live(p) ==
  LET pp == idx[p] IN
  /\ At(p, "reparent") /\ pp <= NPROC
  /\ parent[pp] = p => lock[pp] = None
  /\ parent' = IF parent[pp] = p /\ state[pp] # "ZOMBIE"
               THEN [parent EXCEPT ![pp] = Init1] ELSE parent
  /\ idx' = [idx EXCEPT ![p] = @ + 1]
  /\ UNCHANGED <<state, pid, killed, nextpid, lock, pc, kids, orig, sh, panicked>>

\* One turn of reparent(): pp->parent is read without pp->lock.
reparent(p) ==
  LET pp == idx[p] IN
  /\ At(p, "reparent") /\ pp <= NPROC
  /\ \/ /\ parent[pp] # p
        /\ UNCHANGED parent
     \/ /\ parent[pp] = p
        /\ lock[pp] = None
        /\ parent' = [parent EXCEPT ![pp] = Init1]
  /\ idx' = [idx EXCEPT ![p] = @ + 1]
  /\ UNCHANGED <<state, pid, killed, nextpid, lock, pc, kids, orig, sh, panicked>>

\* Fault: the parent is not woken.
exit_zombie_silent(p) ==
  /\ At(p, "reparent") /\ idx[p] > NPROC
  /\ state' = [state EXCEPT ![p] = "ZOMBIE"]
  /\ lock' = [lock EXCEPT ![orig[p]] = None]
  /\ Goto(p, "leave")
  /\ UNCHANGED <<tablevars, localvars, sh, panicked>>

\* Fault: p->lock is released before the process has left its stack.
exit_zombie_unlocked(p) ==
  /\ At(p, "reparent") /\ idx[p] > NPROC
  /\ state' = [q \in Slot |->
                 CASE q = p -> "ZOMBIE"
                   [] q = orig[p] /\ state[q] = "SLEEPING" -> "RUNNABLE"
                   [] OTHER -> state[q]]
  /\ lock' = [lock EXCEPT ![orig[p]] = None, ![p] = None]
  /\ Goto(p, "leave")
  /\ UNCHANGED <<tablevars, localvars, sh, panicked>>

\* Wake the parent, become a zombie, release the parent's lock.
exit_zombie(p) ==
  /\ At(p, "reparent") /\ idx[p] > NPROC
  /\ state' = [q \in Slot |->
                 CASE q = p -> "ZOMBIE"
                   [] q = orig[p] /\ state[q] = "SLEEPING" -> "RUNNABLE"
                   [] OTHER -> state[q]]
  /\ lock' = [lock EXCEPT ![orig[p]] = None]
  /\ Goto(p, "leave")
  /\ UNCHANGED <<tablevars, localvars, sh, panicked>>

\* sched(): the scheduler, now on its own stack, releases p->lock.
sched(p) ==
  /\ ~panicked /\ pc[p] = "leave"
  /\ lock' = [lock EXCEPT ![p] = None]
  /\ Goto(p, "dead")
  /\ UNCHANGED <<state, tablevars, localvars, sh, panicked>>

-----------------------------------------------------------------------------

\* Kernel code that a process cannot put off.
KernelStep(p) ==
  \/ allocproc_next(p) \/ allocproc_found(p)
  \/ wait_lock(p) \/ wait_scan(p) \/ wait_reap(p) \/ wait_sleep(p)
  \/ exit_wake_init(p) \/ exit_parent(p) \/ exit_lock_parent(p)
  \/ exit_lock_self(p) \/ reparent(p) \/ exit_zombie(p) \/ sched(p)

UserStep(p) == fork(p) \/ wait(p) \/ exit(p) \/ \E n \in KillPids : kill(p, n)

Next == \E p \in Slot : KernelStep(p) \/ UserStep(p) \/ scheduler(p) \/ yield(p)

Spec == Init /\ [][Next]_vars

\* The scheduler's loop over the table comes to every runnable process, and a
\* processor that spins for a lock gets it.
Fairness == \A p \in Slot : SF_vars(scheduler(p)) /\ SF_vars(KernelStep(p))

FairSpec == Spec /\ Fairness

-----------------------------------------------------------------------------
(* Properties.                                                             *)

\* exit() releases p->lock from the scheduler's stack: wait() never frees the
\* slot, and fork() never reuses the kernel stack, of a process still on it.
LeftStack == \A p \in Slot : state[p] = "UNUSED" => pc[p] = "dead"

\* Every process has a parent that can still wait for it: exit() gives all
\* children to init before the parent becomes a zombie.
Adopted ==
  \A p \in Slot \ {Init1} :
    state[p] # "UNUSED" =>
      /\ parent[p] # None
      /\ state[parent[p]] \notin {"UNUSED", "ZOMBIE"}

\* A process that has called exit() becomes a zombie, although it takes the
\* locks of init, of its parent, of itself and of its children one after the
\* other or two at a time while its parent waits, exits or forks: reparent()
\* and wait() read np->parent without a lock because "acquiring the lock first
\* would cause a deadlock".
ExitCompletes == \A p \in Slot : pc[p] = "exit" ~> pc[p] = "dead"

\* wait(), "hold p->lock for the whole time to avoid lost wakeups from a
\* child's exit()": a parent in wait(), other than init, whose child is a
\* zombie returns.
ZombieReaped ==
  \A p, c \in Slot \ {Init1} :
    (state[c] = "ZOMBIE" /\ parent[c] = p /\ pc[p] \in Waiting) ~> pc[p] \notin Waiting
=============================================================================
