-------------------------------- MODULE Cpu --------------------------------
(***************************************************************************)
(* Processors, interrupts and spinlocks: kernel/spinlock.c, the traps and  *)
(* the clock of kernel/trap.c, scheduler(), sched(), yield(), sleep() and  *)
(* wakeup() of kernel/proc.c, and sys_sleep() of kernel/sysproc.c.         *)
(*                                                                         *)
(* Each processor runs one thread at a time: a process, or its scheduler.  *)
(* A timer interrupt may come between any two steps of a thread while      *)
(* interrupts are enabled, and pushes a second program counter, tpc, on    *)
(* the thread.  acquire() is two steps, so that a processor can be seen    *)
(* spinning with interrupts off.                                           *)
(***************************************************************************)
EXTENDS Integers, FiniteSets

CONSTANTS
  NCPU,    \* processors; 1 is the hart with cpuid() 0
  NPROC,   \* slots of the process table
  MAXN     \* largest argument of sleep()

ASSUME CpuConstants == {NCPU, NPROC, MAXN} \subseteq Nat \ {0}

CPU == 1 .. NCPU
Proc == 1 .. NPROC
Sched(c) == NPROC + c               \* the scheduler thread of c
Thread == 1 .. NPROC + NCPU
TICKS == 0                          \* tickslock; lock p is p->lock
Lock == 0 .. NPROC
None == -1

VARIABLES
  sie,      \* sie[c]: interrupts are enabled on c (sstatus.SIE)
  noff,     \* c->noff: depth of push_off()
  intena,   \* c->intena: were interrupts enabled before push_off()?
  cur,      \* c->proc, or 0
  run,      \* the thread on c
  owner,    \* lk->cpu of a locked lock, 0 when it is free
  pc, tpc,  \* where a thread is, and where in a trap ("no": in none)
  want,     \* the lock a thread spins for
  idx,      \* p of the loops in scheduler() and kill()
  tidx,     \* p of the loop in wakeup()
  saved,    \* intena of sched()
  state,    \* p->state
  killed,   \* p->killed
  n,        \* argument of sleep(), 0 outside it
  victim,   \* pid of kill(), 0 outside it
  elapsed,  \* ticks - ticks0 in sys_sleep(), cut off at n
  panicked

cpuvars == <<sie, noff, intena>>
procvars == <<state, killed, n, victim, elapsed>>
vars == <<sie, noff, intena, cur, run, owner, pc, tpc, want, idx, tidx, saved,
          state, killed, n, victim, elapsed, panicked>>

\* Every processor has entered scheduler() with its interrupts still off; the
\* processes have been set up by userinit() and fork().
Init ==
  /\ sie = [c \in CPU |-> FALSE]
  /\ noff = [c \in CPU |-> 0]
  /\ intena = [c \in CPU |-> FALSE]
  /\ cur = [c \in CPU |-> 0]
  /\ run = [c \in CPU |-> Sched(c)]
  /\ owner = [l \in Lock |-> 0]
  /\ pc = [t \in Thread |-> IF t \in Proc THEN "forkret" ELSE "scheduler"]
  /\ tpc = [t \in Thread |-> "no"]
  /\ want = [t \in Thread |-> None]
  /\ idx = [t \in Thread |-> 1]
  /\ tidx = [t \in Thread |-> 1]
  /\ saved = [p \in Proc |-> FALSE]
  /\ state = [p \in Proc |-> "RUNNABLE"]
  /\ killed = [p \in Proc |-> FALSE]
  /\ n = [p \in Proc |-> 0]
  /\ victim = [p \in Proc |-> 0]
  /\ elapsed = [p \in Proc |-> 0]
  /\ panicked = FALSE

At(c, l) ==
  LET t == run[c]
  IN  /\ ~panicked /\ want[t] = None
      /\ IF tpc[t] # "no" THEN tpc[t] = l ELSE pc[t] = l
Goto(t, l) ==
  IF tpc[t] # "no" THEN tpc' = [tpc EXCEPT ![t] = l] /\ UNCHANGED pc
                   ELSE pc' = [pc EXCEPT ![t] = l] /\ UNCHANGED tpc

-----------------------------------------------------------------------------
(* spinlock.c                                                              *)

holding(c, l) == owner[l] = c

push_off(c) ==
  /\ sie' = [sie EXCEPT ![c] = FALSE]
  /\ intena' = [intena EXCEPT ![c] = IF noff[c] = 0 THEN sie[c] ELSE @]
  /\ noff' = [noff EXCEPT ![c] = @ + 1]

\* Fault: interrupts come back with the first lock that is released.
PopEager(c) ==
  /\ noff' = [noff EXCEPT ![c] = @ - 1]
  /\ sie' = [sie EXCEPT ![c] = intena[c]]
  /\ UNCHANGED intena

\* pop_off(); it panics when interrupts are on or there is nothing to pop.
PopPanics(c) == sie[c] \/ noff[c] < 1
pop_off(c) ==
  /\ noff' = [noff EXCEPT ![c] = @ - 1]
  /\ sie' = [sie EXCEPT ![c] = noff[c] = 1 /\ intena[c]]
  /\ UNCHANGED intena

\* acquire() up to the loop; the thread goes on at l once it has the lock.
acquire(c, lk, l) ==
  /\ push_off(c)
  /\ panicked' = holding(c, lk)
  /\ want' = [want EXCEPT ![run[c]] = lk]
  /\ Goto(run[c], l)
  /\ UNCHANGED <<owner, cur, run, saved>>

\* The test-and-set that finds the lock free.
spin(c) ==
  LET lk == want[run[c]]
  IN  /\ ~panicked /\ lk # None
      /\ owner[lk] = 0
      /\ owner' = [owner EXCEPT ![lk] = c]
      /\ want' = [want EXCEPT ![run[c]] = None]
      /\ UNCHANGED <<cpuvars, procvars, cur, run, pc, tpc, idx, tidx, saved, panicked>>

release(c, lk, l) ==
  /\ panicked' = (~holding(c, lk) \/ PopPanics(c))
  /\ owner' = [owner EXCEPT ![lk] = 0]
  /\ pop_off(c)
  /\ Goto(run[c], l)
  /\ UNCHANGED <<want, run, saved>>

-----------------------------------------------------------------------------
(* Threads change places.                                                  *)

\* sched() up to swtch(): the scheduler of c goes on; p resumes at l.
sched(c, l) ==
  LET p == run[c]
  IN  /\ panicked' = (~holding(c, p) \/ noff[c] # 1 \/ state'[p] = "RUNNING" \/ sie[c])
      /\ saved' = [saved EXCEPT ![p] = intena[c]]
      /\ run' = [run EXCEPT ![c] = Sched(c)]
      /\ Goto(p, l)
      /\ UNCHANGED <<cpuvars, owner, want, cur, idx, tidx>>

\* scheduler(): the outer loop enables interrupts.
scheduler(c) ==
  /\ At(c, "scheduler")
  /\ sie' = [sie EXCEPT ![c] = TRUE]
  /\ Goto(run[c], "scan")
  /\ UNCHANGED <<noff, intena, cur, run, owner, want, idx, tidx, saved, procvars, panicked>>

scan(c) ==
  /\ At(c, "scan")
  /\ idx[run[c]] \in Proc
  /\ acquire(c, idx[run[c]], "choose")
  /\ UNCHANGED <<idx, tidx, procvars>>

scan_end(c) ==
  /\ At(c, "scan")
  /\ idx[run[c]] > NPROC
  /\ idx' = [idx EXCEPT ![run[c]] = 1]
  /\ Goto(run[c], "scheduler")
  /\ UNCHANGED <<cpuvars, cur, run, owner, want, tidx, saved, procvars, panicked>>

\* Fault: intena is taken for a property of the processor.
NoRestore(c) ==
  LET p == idx[run[c]]
  IN  /\ At(c, "choose")
      /\ state[p] = "RUNNABLE"
      /\ state' = [state EXCEPT ![p] = "RUNNING"]
      /\ cur' = [cur EXCEPT ![c] = p]
      /\ run' = [run EXCEPT ![c] = p]
      /\ Goto(run[c], "back")
      /\ UNCHANGED <<cpuvars, owner, want, idx, tidx, saved, killed, n, victim, elapsed, panicked>>

\* swtch() to p, which finds itself in forkret() or at the end of sched(),
\* where it puts back its own intena.
choose(c) ==
  LET p == idx[run[c]]
  IN  /\ At(c, "choose")
      /\ state[p] = "RUNNABLE"
      /\ state' = [state EXCEPT ![p] = "RUNNING"]
      /\ cur' = [cur EXCEPT ![c] = p]
      /\ run' = [run EXCEPT ![c] = p]
      /\ Goto(run[c], "back")
      /\ intena' = IF pc[p] = "forkret" THEN intena ELSE [intena EXCEPT ![c] = saved[p]]
      /\ saved' = [saved EXCEPT ![p] = FALSE]
      /\ UNCHANGED <<sie, noff, owner, want, idx, tidx, killed, n, victim, elapsed, panicked>>

\* p is not runnable, or is done running for now.
next_proc(c) ==
  LET p == idx[run[c]]
  IN  /\ \/ At(c, "choose") /\ state[p] # "RUNNABLE" /\ UNCHANGED cur
         \/ At(c, "back") /\ cur' = [cur EXCEPT ![c] = 0]
      /\ release(c, p, "scan")
      /\ idx' = [idx EXCEPT ![run[c]] = p + 1]
      /\ UNCHANGED <<tidx, procvars>>

-----------------------------------------------------------------------------
(* Traps.                                                                  *)

\* A timer interrupt: the hardware turns interrupts off and enters
\* usertrap() or, through kernelvec, kerneltrap().
interrupt(c) ==
  LET t == run[c]
  IN  /\ ~panicked /\ sie[c]
      /\ tpc' = [tpc EXCEPT ![t] = "devintr"]
      /\ sie' = [sie EXCEPT ![c] = FALSE]
      /\ panicked' = (tpc[t] # "no")
      /\ UNCHANGED <<noff, intena, cur, run, owner, pc, want, idx, tidx, saved, procvars>>

\* devintr(): only the first processor keeps the time.
devintr(c) ==
  /\ At(c, "devintr")
  /\ IF c = 1 THEN acquire(c, TICKS, "clockintr") /\ UNCHANGED <<idx, tidx, procvars>>
     ELSE /\ Goto(run[c], "trapend")
          /\ UNCHANGED <<cpuvars, cur, run, owner, want, idx, tidx, saved, procvars, panicked>>

\* clockintr(): ticks grows by one.
clockintr(c) ==
  /\ At(c, "clockintr")
  /\ elapsed' = [p \in Proc |-> IF elapsed[p] < n[p] THEN elapsed[p] + 1 ELSE elapsed[p]]
  /\ Goto(run[c], "wakeup")
  /\ UNCHANGED <<cpuvars, cur, run, owner, want, idx, tidx, saved, state, killed, n, victim, panicked>>

\* wakeup(&ticks), then release(&tickslock).  Processes sleep on nothing else.
wakeup(c) ==
  /\ At(c, "wakeup")
  /\ IF tidx[run[c]] \in Proc THEN acquire(c, tidx[run[c]], "wake") /\ UNCHANGED tidx
     ELSE /\ release(c, TICKS, "trapend")
          /\ tidx' = [tidx EXCEPT ![run[c]] = 1]
          /\ UNCHANGED cur
  /\ UNCHANGED <<idx, procvars>>
wake(c) ==
  LET p == tidx[run[c]]
  IN  /\ At(c, "wake")
      /\ state' = [state EXCEPT ![p] = IF @ = "SLEEPING" THEN "RUNNABLE" ELSE @]
      /\ tidx' = [tidx EXCEPT ![run[c]] = p + 1]
      /\ release(c, p, "wakeup")
      /\ UNCHANGED <<idx, cur, killed, n, victim, elapsed>>

\* The end of both traps: a running process yields; sret, on whichever
\* processor the thread then is, enables interrupts again.
RunsProc(c) == cur[c] # 0 /\ state[cur[c]] = "RUNNING"
trapend(c) ==
  /\ At(c, "trapend")
  /\ RunsProc(c)
  /\ acquire(c, cur[c], "yield")
  /\ UNCHANGED <<idx, tidx, procvars>>
yield(c) ==
  /\ At(c, "yield")
  /\ state' = [state EXCEPT ![run[c]] = "RUNNABLE"]
  /\ sched(c, "yielded")
  /\ UNCHANGED <<killed, n, victim, elapsed>>
yielded(c) ==
  /\ At(c, "yielded")
  /\ release(c, run[c], "sret")
  /\ UNCHANGED <<cur, idx, tidx, procvars>>
sret(c) ==
  /\ \/ At(c, "sret")
     \/ At(c, "trapend") /\ ~RunsProc(c)
  /\ tpc' = [tpc EXCEPT ![run[c]] = "no"]
  /\ sie' = [sie EXCEPT ![c] = TRUE]
  /\ UNCHANGED <<noff, intena, cur, run, owner, pc, want, idx, tidx, saved, procvars, panicked>>

-----------------------------------------------------------------------------
(* Processes.                                                              *)

\* forkret(), and usertrapret() to user space, where interrupts are enabled.
forkret(c) ==
  /\ At(c, "forkret")
  /\ release(c, run[c], "usertrapret")
  /\ UNCHANGED <<cur, idx, tidx, procvars>>
usertrapret(c) ==
  /\ At(c, "usertrapret")
  /\ ~killed[run[c]]
  /\ sie' = [sie EXCEPT ![c] = TRUE]
  /\ Goto(run[c], "user")
  /\ UNCHANGED <<noff, intena, cur, run, owner, want, idx, tidx, saved, procvars, panicked>>

\* sys_sleep(k), called with interrupts enabled.
sys_sleep(c, k) ==
  /\ At(c, "user")
  /\ n' = [n EXCEPT ![run[c]] = k]
  /\ acquire(c, TICKS, "sleep")
  /\ UNCHANGED <<idx, tidx, state, killed, victim, elapsed>>
sleep_start(c) ==
  /\ At(c, "sleep")
  /\ elapsed' = [elapsed EXCEPT ![run[c]] = 0]
  /\ Goto(run[c], "slept")
  /\ UNCHANGED <<cpuvars, cur, run, owner, want, idx, tidx, saved, state, killed, n, victim, panicked>>
Over(p) == elapsed[p] >= n[p] \/ killed[p]
sleep_over(c) ==
  /\ At(c, "slept")
  /\ Over(run[c])
  /\ n' = [n EXCEPT ![run[c]] = 0]
  /\ elapsed' = [elapsed EXCEPT ![run[c]] = 0]
  /\ release(c, TICKS, "usertrapret")
  /\ UNCHANGED <<cur, idx, tidx, state, killed, victim>>

\* Fault: tickslock is released before p->lock is taken.
EarlyRelease(c) ==
  \/ /\ At(c, "slept") /\ ~Over(run[c])
     /\ release(c, TICKS, "early")
     /\ UNCHANGED <<cur, idx, tidx, procvars>>
  \/ /\ At(c, "early")
     /\ acquire(c, run[c], "sleeping")
     /\ UNCHANGED <<idx, tidx, procvars>>

\* sleep(&ticks, &tickslock): p->lock is taken before tickslock is released.
sleep(c) ==
  /\ At(c, "slept")
  /\ ~Over(run[c])
  /\ acquire(c, run[c], "sleeplk")
  /\ UNCHANGED <<idx, tidx, procvars>>
sleep_release(c) ==
  /\ At(c, "sleeplk")
  /\ release(c, TICKS, "sleeping")
  /\ UNCHANGED <<cur, idx, tidx, procvars>>
sleep_sched(c) ==
  /\ At(c, "sleeping")
  /\ state' = [state EXCEPT ![run[c]] = "SLEEPING"]
  /\ sched(c, "woken")
  /\ UNCHANGED <<killed, n, victim, elapsed>>

\* Fault: p->lock is kept while tickslock is taken again.
KeepLock(c) ==
  /\ At(c, "woken")
  /\ Goto(run[c], "relock")
  /\ UNCHANGED <<cpuvars, cur, run, owner, want, idx, tidx, saved, procvars, panicked>>

\* The rest of sleep().
woken(c) ==
  /\ At(c, "woken")
  /\ release(c, run[c], "relock")
  /\ UNCHANGED <<cur, idx, tidx, procvars>>
relock(c) ==
  /\ At(c, "relock")
  /\ acquire(c, TICKS, "slept")
  /\ UNCHANGED <<idx, tidx, procvars>>

\* kill(q): the loop over the table up to q.
sys_kill(c, q) ==
  /\ At(c, "user")
  /\ victim' = [victim EXCEPT ![run[c]] = q]
  /\ acquire(c, 1, "kill")
  /\ UNCHANGED <<idx, tidx, state, killed, n, elapsed>>
kill(c) ==
  LET p == run[c]
      q == idx[p]
  IN  /\ At(c, "kill")
      /\ q = victim[p]
      /\ victim' = [victim EXCEPT ![p] = 0]
      /\ idx' = [idx EXCEPT ![p] = 1]
      /\ killed' = [killed EXCEPT ![q] = TRUE]
      /\ state' = [state EXCEPT ![q] = IF @ = "SLEEPING" THEN "RUNNABLE" ELSE @]
      /\ release(c, q, "usertrapret")
      /\ UNCHANGED <<cur, tidx, n, elapsed>>
kill_next(c) ==
  /\ At(c, "kill")
  /\ idx[run[c]] # victim[run[c]]
  /\ idx' = [idx EXCEPT ![run[c]] = @ + 1]
  /\ release(c, idx[run[c]], "killnext")
  /\ UNCHANGED <<cur, tidx, procvars>>
kill_lock(c) ==
  /\ At(c, "killnext")
  /\ acquire(c, idx[run[c]], "kill")
  /\ UNCHANGED <<idx, tidx, procvars>>

\* A killed process on its way to user space, from a system call or from a
\* trap: the end of exit(), where it leaves its stack for good.
exit(c) ==
  /\ \/ At(c, "usertrapret")
     \/ At(c, "trapend") /\ pc[run[c]] = "user"
  /\ killed[run[c]]
  /\ acquire(c, run[c], "zombie")
  /\ UNCHANGED <<idx, tidx, procvars>>
zombie(c) ==
  /\ At(c, "zombie")
  /\ state' = [state EXCEPT ![run[c]] = "ZOMBIE"]
  /\ sched(c, "dead")
  /\ UNCHANGED <<killed, n, victim, elapsed>>

-----------------------------------------------------------------------------
Next == \E c \in CPU :
  \/ spin(c) \/ interrupt(c)
  \/ scheduler(c) \/ scan(c) \/ scan_end(c) \/ choose(c) \/ next_proc(c)
  \/ devintr(c) \/ clockintr(c) \/ wakeup(c) \/ wake(c)
  \/ trapend(c) \/ yield(c) \/ yielded(c) \/ sret(c)
  \/ forkret(c) \/ usertrapret(c)
  \/ \E k \in 1 .. MAXN : sys_sleep(c, k)
  \/ sleep_start(c) \/ sleep_over(c) \/ sleep(c) \/ sleep_release(c) \/ sleep_sched(c)
  \/ woken(c) \/ relock(c)
  \/ \E q \in Proc : sys_kill(c, q)
  \/ kill(c) \/ kill_next(c) \/ kill_lock(c) \/ exit(c) \/ zombie(c)

Spec == Init /\ [][Next]_vars

-----------------------------------------------------------------------------
\* No panic() of spinlock.c or sched() is reached: no processor acquires a
\* lock it holds, not even in an interrupt, and no process gives up its
\* processor with any lock but its own.
NoPanic == ~panicked

\* push_off() and pop_off() are matched across context switches: a process
\* has interrupts enabled exactly when it is in no trap and its processor
\* holds no lock.  (The scheduler may go on with them disabled until its
\* outer loop, and a trap that ends in exit() never enables them.)
InterruptsExact ==
  \A c \in CPU : ~panicked =>
    /\ noff[c] = Cardinality({l \in Lock : owner[l] = c})
                   + (IF want[run[c]] = None THEN 0 ELSE 1)
    /\ sie[c] => noff[c] = 0 /\ tpc[run[c]] = "no"
    /\ run[c] \in Proc /\ pc[run[c]] # "usertrapret" =>
         (sie[c] <=> noff[c] = 0 /\ tpc[run[c]] = "no")

\* A process that sleeps in sys_sleep() has time left, or the processor that
\* will wake it is in wakeup(): no tick is lost.  (A kill() between the test
\* of p->killed and sleep() is lost until the next tick.)
TickNotLost ==
  \A p \in Proc : state[p] = "SLEEPING" /\ elapsed[p] >= n[p] =>
    \E c \in CPU : tpc[run[c]] \in {"wakeup", "wake"} /\ tidx[run[c]] <= p

\* No processors spin for each other's locks: a processor in no such circle
\* finishes its critical section, since it cannot be interrupted in it.
NoSpinDeadlock ==
  \A C \in (SUBSET CPU) \ {{}} :
    \E c \in C : want[run[c]] = None \/ owner[want[run[c]]] \notin C
=============================================================================
