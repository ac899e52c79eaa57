----------------------------- MODULE ProcProofs -----------------------------
(***************************************************************************)
(* LeftStack and Adopted of module Proc, for a process table of any size   *)
(* and any number of processors.                                           *)
(***************************************************************************)
EXTENDS Proc, TLAPS

USE SMTT(60)

Places == Waiting \cup Exiting \cup {"user", "alloc", "dead"}

TypeInv ==
  /\ state \in [Slot -> {"UNUSED", "SLEEPING", "RUNNABLE", "RUNNING", "ZOMBIE"}]
  /\ parent \in [Slot -> Slot \cup {None}]
  /\ lock \in [Slot -> Slot \cup {None}]
  /\ pc \in [Slot -> Places]
  /\ idx \in [Slot -> Nat \ {0}]
  /\ orig \in [Slot -> Slot \cup {None}]

\* A process is a zombie from the end of exit() until it is waited for.
StateInv ==
  \A p \in Slot :
    /\ state[p] = "UNUSED" => pc[p] = "dead"
    /\ state[p] = "ZOMBIE" => pc[p] \in {"leave", "dead"}
    /\ pc[p] = "leave" => state[p] = "ZOMBIE"
    /\ pc[p] = "dead" => state[p] \in {"UNUSED", "ZOMBIE"}

\* initproc never exits.
InitInv == pc[Init1] \notin Exiting \cup {"dead"}

\* wait() and the end of exit() hold p->lock, the latter with the parent's.
LockInv ==
  \A p \in Slot :
    /\ pc[p] \in {"scan", "reparent", "leave"} => lock[p] = p
    /\ pc[p] \in {"lockparent", "lockself", "reparent"} => orig[p] \in Slot \ {p}
    /\ pc[p] \in {"lockself", "reparent"} => lock[orig[p]] = p

\* reparent() has given away the children it has passed.
TreeInv ==
  /\ Adopted
  /\ \A p \in Slot : parent[p] # p
  /\ parent[Init1] = None
  /\ \A p, c \in Slot : pc[p] = "reparent" /\ c < idx[p] => parent[c] # p

IInv == TypeInv /\ StateInv /\ InitInv /\ LockInv /\ TreeInv

-----------------------------------------------------------------------------

LEMMA SlotFacts == Init1 \in Slot /\ None \notin Slot /\ \A i \in Nat \ {0} : i <= NPROC => i \in Slot
BY ProcAssumption DEF Slot, Init1, None

LEMMA TypeStep ==
  ASSUME TypeInv, [Next]_vars
  PROVE  TypeInv'
<1> USE SlotFacts DEF TypeInv, Goto
<1>1. ASSUME NEW p \in Slot, UserStep(p)
      PROVE  TypeInv'
  BY <1>1 DEF UserStep, fork, wait, exit, kill, tablevars, localvars, Places, Exiting, Waiting
<1>2. ASSUME NEW p \in Slot, scheduler(p) \/ yield(p)
      PROVE  TypeInv'
  BY <1>2 DEF scheduler, yield, tablevars, localvars, Places, Exiting, Waiting
<1>3. ASSUME NEW p \in Slot, allocproc_next(p)
      PROVE  TypeInv'
  BY <1>3 DEF allocproc_next, Failed, tablevars, Places
<1>4. ASSUME NEW p \in Slot, allocproc_found(p)
      PROVE  TypeInv'
  <2>1. idx[p] \in Slot
    BY <1>4 DEF allocproc_found
  <2> QED
    BY <1>4, <2>1 DEF allocproc_found, Failed, FreeSlot, localvars, Places
<1>5. ASSUME NEW p \in Slot, wait_lock(p) \/ wait_scan(p) \/ wait_sleep(p)
      PROVE  TypeInv'
  BY <1>5 DEF wait_lock, wait_scan, wait_sleep, Failed, tablevars, localvars, Places, Waiting
<1>6. ASSUME NEW p \in Slot, wait_reap(p)
      PROVE  TypeInv'
  <2>1. idx[p] \in Slot
    BY <1>6 DEF wait_reap
  <2> QED
    BY <1>6, <2>1 DEF wait_reap, FreeSlot, localvars, Places
<1>7. ASSUME NEW p \in Slot, exit_wake_init(p) \/ exit_parent(p) \/ exit_lock_parent(p)
      PROVE  TypeInv'
  BY <1>7 DEF exit_wake_init, exit_parent, exit_lock_parent, wakeup1, tablevars, localvars,
     Places, Exiting
<1>8. ASSUME NEW p \in Slot, exit_lock_self(p) \/ reparent(p) \/ sched(p)
      PROVE  TypeInv'
  BY <1>8 DEF exit_lock_self, reparent, sched, tablevars, localvars, Places, Exiting
<1>9. ASSUME NEW p \in Slot, exit_zombie(p)
      PROVE  TypeInv'
  BY ZenonT(120), <1>9 DEF exit_zombie, tablevars, localvars, Places, Exiting
<1>10. CASE UNCHANGED vars
  BY <1>10 DEF vars
<1> QED
  BY ZenonT(120), <1>1, <1>2, <1>3, <1>4, <1>5, <1>6, <1>7, <1>8, <1>9, <1>10 DEF Next, KernelStep

LEMMA StateStep ==
  ASSUME TypeInv, StateInv, LockInv, [Next]_vars
  PROVE  StateInv'
<1> USE SlotFacts DEF TypeInv, StateInv, Goto, At, Running, MayCall
<1>1. ASSUME NEW p \in Slot, UserStep(p)
      PROVE  StateInv'
  BY <1>1 DEF UserStep, fork, wait, exit, kill
<1>2. ASSUME NEW p \in Slot, scheduler(p) \/ yield(p)
      PROVE  StateInv'
  BY <1>2 DEF scheduler, yield
<1>3. ASSUME NEW p \in Slot, allocproc_next(p)
      PROVE  StateInv'
  BY <1>3 DEF allocproc_next, Failed
<1>4. ASSUME NEW p \in Slot, allocproc_found(p)
      PROVE  StateInv'
  <2>1. idx[p] \in Slot
    BY <1>4 DEF allocproc_found
  <2> QED
    BY <1>4, <2>1 DEF allocproc_found, Failed, FreeSlot
<1>5. ASSUME NEW p \in Slot, wait_lock(p) \/ wait_scan(p) \/ wait_sleep(p)
      PROVE  StateInv'
  BY <1>5 DEF wait_lock, wait_scan, wait_sleep, Failed
<1>6. ASSUME NEW p \in Slot, wait_reap(p)
      PROVE  StateInv'
  <2>1. idx[p] \in Slot /\ lock[idx[p]] = None
    BY <1>6 DEF wait_reap
  <2>2. pc[idx[p]] = "dead"
    BY <1>6, <2>1 DEF wait_reap, LockInv
  <2> QED
    BY <1>6, <2>1, <2>2 DEF wait_reap, FreeSlot
<1>7. ASSUME NEW p \in Slot, exit_wake_init(p) \/ exit_parent(p) \/ exit_lock_parent(p)
      PROVE  StateInv'
  BY <1>7 DEF exit_wake_init, exit_parent, exit_lock_parent, wakeup1
<1>8. ASSUME NEW p \in Slot, exit_lock_self(p) \/ reparent(p) \/ sched(p)
      PROVE  StateInv'
  BY <1>8 DEF exit_lock_self, reparent, sched
<1>9. ASSUME NEW p \in Slot, exit_zombie(p)
      PROVE  StateInv'
  <2>1. state'[p] = "ZOMBIE" /\ pc'[p] = "leave"
    BY <1>9 DEF exit_zombie
  <2>2. ASSUME NEW q \in Slot \ {p}
        PROVE  /\ pc'[q] = pc[q]
               /\ state'[q] = state[q] \/ (state[q] = "SLEEPING" /\ state'[q] = "RUNNABLE")
    BY <1>9 DEF exit_zombie
  <2> QED
    BY <2>1, <2>2
<1>10. CASE UNCHANGED vars
  BY <1>10 DEF vars
<1> QED
  BY ZenonT(120), <1>1, <1>2, <1>3, <1>4, <1>5, <1>6, <1>7, <1>8, <1>9, <1>10 DEF Next, KernelStep

LEMMA InitStep ==
  ASSUME TypeInv, StateInv, InitInv, [Next]_vars
  PROVE  InitInv'
<1> USE SlotFacts DEF TypeInv, InitInv, Goto, At, Exiting
<1>1. ASSUME NEW p \in Slot, UserStep(p)
      PROVE  InitInv'
  BY <1>1 DEF UserStep, fork, wait, exit, kill
<1>2. ASSUME NEW p \in Slot, scheduler(p) \/ yield(p)
      PROVE  InitInv'
  BY <1>2 DEF scheduler, yield
<1>3. ASSUME NEW p \in Slot, allocproc_next(p) \/ allocproc_found(p)
      PROVE  InitInv'
  BY <1>3 DEF allocproc_next, allocproc_found, Failed
<1>4. ASSUME NEW p \in Slot, wait_lock(p) \/ wait_scan(p) \/ wait_sleep(p) \/ wait_reap(p)
      PROVE  InitInv'
  BY <1>4 DEF wait_lock, wait_scan, wait_sleep, wait_reap, Failed
<1>5. ASSUME NEW p \in Slot, exit_wake_init(p) \/ exit_parent(p) \/ exit_lock_parent(p)
      PROVE  InitInv'
  BY <1>5 DEF exit_wake_init, exit_parent, exit_lock_parent
<1>6. ASSUME NEW p \in Slot, exit_lock_self(p) \/ reparent(p) \/ sched(p) \/ exit_zombie(p)
      PROVE  InitInv'
  BY <1>6 DEF exit_lock_self, reparent, sched, exit_zombie
<1>7. CASE UNCHANGED vars
  BY <1>7 DEF vars
<1> QED
  BY ZenonT(120), <1>1, <1>2, <1>3, <1>4, <1>5, <1>6, <1>7 DEF Next, KernelStep

LEMMA LockStep ==
  ASSUME IInv, [Next]_vars
  PROVE  LockInv'
<1> USE SlotFacts DEF IInv, TypeInv, LockInv, Goto, At, Running, MayCall
<1>1. ASSUME NEW p \in Slot, UserStep(p)
      PROVE  LockInv'
  BY <1>1 DEF UserStep, fork, wait, exit, kill, localvars
<1>2. ASSUME NEW p \in Slot, scheduler(p) \/ yield(p)
      PROVE  LockInv'
  BY <1>2 DEF scheduler, yield, localvars
<1>3. ASSUME NEW p \in Slot, allocproc_next(p)
      PROVE  LockInv'
  BY <1>3 DEF allocproc_next, Failed
<1>4. ASSUME NEW p \in Slot, allocproc_found(p)
      PROVE  LockInv'
  BY <1>4 DEF allocproc_found, Failed, localvars
<1>5. ASSUME NEW p \in Slot, wait_lock(p)
      PROVE  LockInv'
  BY <1>5 DEF wait_lock
<1>6. ASSUME NEW p \in Slot, wait_scan(p)
      PROVE  LockInv'
  BY <1>6 DEF wait_scan
<1>7. ASSUME NEW p \in Slot, wait_reap(p) \/ wait_sleep(p)
      PROVE  LockInv'
  BY <1>7 DEF wait_reap, wait_sleep, Failed, localvars
<1>8. ASSUME NEW p \in Slot, exit_wake_init(p) \/ exit_parent(p)
      PROVE  LockInv'
  <2>1. pc[p] = "parent" /\ state[p] = "RUNNING" => parent[p] \in Slot \ {p}
    BY DEF TreeInv, Adopted, InitInv, Exiting
  <2> QED
    BY <1>8, <2>1 DEF exit_wake_init, exit_parent, localvars
<1>9. ASSUME NEW p \in Slot, exit_lock_parent(p)
      PROVE  LockInv'
  BY <1>9 DEF exit_lock_parent, localvars
<1>10. ASSUME NEW p \in Slot, exit_lock_self(p)
      PROVE  LockInv'
  BY <1>10 DEF exit_lock_self
<1>11. ASSUME NEW p \in Slot, reparent(p)
      PROVE  LockInv'
  BY <1>11 DEF reparent
<1>12. ASSUME NEW p \in Slot, exit_zombie(p)
      PROVE  LockInv'
  BY <1>12 DEF exit_zombie, localvars
<1>13. ASSUME NEW p \in Slot, sched(p)
      PROVE  LockInv'
  BY <1>13 DEF sched, localvars
<1>14. CASE UNCHANGED vars
  BY <1>14 DEF vars
<1> QED
  BY ZenonT(120), <1>1, <1>2, <1>3, <1>4, <1>5, <1>6, <1>7, <1>8, <1>9, <1>10, <1>11, <1>12,
     <1>13, <1>14 DEF Next, KernelStep

\* exit() changes the state of nobody else, except to wake a sleeper.
ZombieKeeps(q) ==
  /\ state'[q] = "UNUSED" <=> state[q] = "UNUSED"
  /\ state'[q] = "ZOMBIE" <=> state[q] = "ZOMBIE"

LEMMA ZombieFacts ==
  ASSUME TypeInv, NEW p \in Slot, exit_zombie(p)
  PROVE  /\ \A q \in Slot \ {p} : ZombieKeeps(q)
         /\ UNCHANGED <<parent, idx>> /\ pc' = [pc EXCEPT ![p] = "leave"] /\ state[p] = "RUNNING"
<1>1. ASSUME NEW q \in Slot \ {p}
      PROVE  state'[q] = state[q] \/ (state[q] = "SLEEPING" /\ state'[q] = "RUNNABLE")
  BY DEF exit_zombie
<1>2. UNCHANGED <<parent, idx>> /\ pc' = [pc EXCEPT ![p] = "leave"] /\ state[p] = "RUNNING"
  BY DEF exit_zombie, Goto, At, Running, tablevars, localvars
<1> QED
  BY <1>1, <1>2 DEF ZombieKeeps

LEMMA TreeStep ==
  ASSUME IInv, [Next]_vars
  PROVE  TreeInv'
<1> USE SlotFacts DEF IInv, TypeInv, TreeInv, Adopted, Goto, At, Running, MayCall
<1>1. state[Init1] \notin {"UNUSED", "ZOMBIE"}
  BY DEF StateInv, InitInv, Exiting
<1>2. ASSUME UNCHANGED parent,
             \A q \in Slot : state'[q] \in {"UNUSED", "ZOMBIE"} <=> state[q] \in {"UNUSED", "ZOMBIE"},
             \A q \in Slot : state'[q] = "UNUSED" => state[q] = "UNUSED",
             \A q \in Slot : state[q] = "UNUSED" => state'[q] = "UNUSED"
      PROVE  Adopted'
  BY <1>2
<1>3. ASSUME NEW p \in Slot, UserStep(p)
      PROVE  TreeInv'
  BY <1>3 DEF UserStep, fork, wait, exit, kill, tablevars, localvars
<1>4. ASSUME NEW p \in Slot, scheduler(p) \/ yield(p)
      PROVE  TreeInv'
  BY <1>4 DEF scheduler, yield, tablevars, localvars
<1>5. ASSUME NEW p \in Slot, allocproc_next(p)
      PROVE  TreeInv'
  BY <1>5 DEF allocproc_next, Failed, tablevars
<1>6. ASSUME NEW p \in Slot, allocproc_found(p)
      PROVE  TreeInv'
  <2>1. idx[p] \in Slot \ {Init1, p} /\ state[idx[p]] = "UNUSED" /\ pc[p] = "alloc"
    BY <1>1, <1>6 DEF allocproc_found
  <2>2. CASE UNCHANGED <<state, parent>>
    BY <1>6, <2>1, <2>2 DEF allocproc_found, Failed, localvars
  <2>3. CASE FreeSlot(idx[p])
    BY <1>6, <2>1, <2>3 DEF allocproc_found, Failed, FreeSlot, localvars
  <2>4. CASE /\ parent' = [parent EXCEPT ![idx[p]] = p]
             /\ state' = [state EXCEPT ![idx[p]] = "RUNNABLE"]
             /\ pc' = [pc EXCEPT ![p] = "user", ![idx[p]] = "user"]
    BY <1>6, <2>1, <2>4 DEF allocproc_found, localvars
  <2> QED
    BY <1>6, <2>2, <2>3, <2>4 DEF allocproc_found
<1>7. ASSUME NEW p \in Slot, wait_lock(p) \/ wait_scan(p) \/ wait_sleep(p)
      PROVE  TreeInv'
  BY <1>7 DEF wait_lock, wait_scan, wait_sleep, Failed, tablevars, localvars
<1>8. ASSUME NEW p \in Slot, wait_reap(p)
      PROVE  TreeInv'
  <2>1. idx[p] \in Slot \ {Init1} /\ state[idx[p]] = "ZOMBIE"
    BY <1>1, <1>8 DEF wait_reap
  <2> QED
    BY <1>8, <2>1 DEF wait_reap, FreeSlot, localvars
<1>9. ASSUME NEW p \in Slot, exit_wake_init(p) \/ exit_parent(p) \/ exit_lock_parent(p)
      PROVE  TreeInv'
  BY <1>9 DEF exit_wake_init, exit_parent, exit_lock_parent, wakeup1, tablevars, localvars
<1>10. ASSUME NEW p \in Slot, exit_lock_self(p)
       PROVE  TreeInv'
  BY <1>10 DEF exit_lock_self, tablevars, Slot
<1>11. ASSUME NEW p \in Slot, reparent(p)
       PROVE  TreeInv'
  <2>1. idx[p] \in Slot /\ p # Init1
    BY <1>11 DEF reparent, InitInv, Exiting
  <2>2. CASE parent[idx[p]] = p
    <3>1. idx[p] # Init1 /\ parent' = [parent EXCEPT ![idx[p]] = Init1]
      BY <1>11, <2>1, <2>2 DEF reparent
    <3>2. \A q, c \in Slot : pc'[q] = "reparent" /\ c < idx'[q] => parent'[c] # q
      BY <1>11, <2>1, <3>1 DEF reparent, InitInv, Exiting, Slot
    <3> QED
      BY <1>1, <1>11, <2>1, <3>1, <3>2 DEF reparent
  <2>3. CASE parent[idx[p]] # p
    <3>1. UNCHANGED <<parent, state, pc>> /\ idx' = [idx EXCEPT ![p] = @ + 1]
      BY <1>11, <2>3 DEF reparent
    <3>2. \A q, c \in Slot : pc'[q] = "reparent" /\ c < idx'[q] => parent'[c] # q
      BY <2>1, <2>3, <3>1 DEF Slot
    <3> QED
      BY <3>1, <3>2
  <2> QED
    BY <2>2, <2>3
<1>12. ASSUME NEW p \in Slot, exit_zombie(p)
       PROVE  TreeInv'
  <2>1. \A c \in Slot : parent[c] # p
    <3>1. pc[p] = "reparent" /\ idx[p] > NPROC /\ idx[p] \in Nat
      BY <1>12 DEF exit_zombie
    <3>2. \A c \in Slot : c < idx[p]
      BY <3>1, ProcAssumption DEF Slot
    <3> QED
      BY <3>1, <3>2
  <2>2. /\ \A q \in Slot \ {p} : ZombieKeeps(q)
        /\ UNCHANGED <<parent, idx>> /\ pc' = [pc EXCEPT ![p] = "leave"] /\ state[p] = "RUNNING"
    BY <1>12, ZombieFacts
  <2>3. Adopted'
    BY <2>1, <2>2 DEF ZombieKeeps
  <2> QED
    BY <2>2, <2>3
<1>13. ASSUME NEW p \in Slot, sched(p)
       PROVE  TreeInv'
  BY <1>13 DEF sched, tablevars, localvars
<1>14. CASE UNCHANGED vars
  BY <1>14 DEF vars
<1> QED
  BY ZenonT(120), <1>3, <1>4, <1>5, <1>6, <1>7, <1>8, <1>9, <1>10, <1>11, <1>12, <1>13, <1>14
     DEF Next, KernelStep

-----------------------------------------------------------------------------
(* Results.                                                                *)

LEMMA InvInit ==
  ASSUME Init
  PROVE  IInv
<1> USE SlotFacts DEF Init
<1>1. TypeInv
  BY DEF TypeInv, Places
<1>2. StateInv /\ InitInv /\ LockInv
  BY DEF StateInv, InitInv, LockInv, Exiting
<1>3. TreeInv
  BY DEF TreeInv, Adopted
<1> QED
  BY <1>1, <1>2, <1>3 DEF IInv

LEMMA InvStep ==
  ASSUME IInv, [Next]_vars
  PROVE  IInv'
BY TypeStep, StateStep, InitStep, LockStep, TreeStep DEF IInv

\* A slot of the process table is free only when its last process has left
\* its kernel stack: exit() keeps p->lock until the scheduler releases it, and
\* wait() looks at a zombie under that lock.
THEOREM ProcLeftStack == Spec => []LeftStack
<1>1. IInv => LeftStack
  BY DEF IInv, StateInv, LeftStack
<1> QED
  BY <1>1, InvInit, InvStep, PTL DEF Spec

\* Every process has a parent that can wait for it: reparent() leaves no child
\* behind, although it reads pp->parent without pp->lock.
THEOREM ProcAdopted == Spec => []Adopted
<1>1. IInv => Adopted
  BY DEF IInv, TreeInv
<1> QED
  BY <1>1, InvInit, InvStep, PTL DEF Spec
=============================================================================
