----------------------------- MODULE CpuProofs ------------------------------
(***************************************************************************)
(* The lock code of module Cpu, for any number of processors and           *)
(* processes: no panic is reached, no processors spin for each other's     *)
(* locks, the interrupts of a processor are a matter of the locks it       *)
(* holds, and no tick is lost between the test of ticks in sys_sleep() and *)
(* the loop of wakeup().                                                   *)
(*                                                                         *)
(* What a processor holds is a matter of where its thread is: HasAt(t, l,  *)
(* m) says that a thread t at place l has lock m, or is waiting for it.    *)
(***************************************************************************)
EXTENDS Cpu, TLAPS

USE ZenonT(120)

PcPlaces == {"scheduler", "scan", "choose", "back", "forkret", "usertrapret", "user", "sleep",
             "slept", "sleeplk", "sleeping", "woken", "relock", "kill", "killnext", "zombie", "dead"}
TrapPlaces == {"no", "devintr", "clockintr", "wakeup", "wake", "trapend", "yield", "yielded", "sret",
               "zombie", "dead"}

CpuType ==
  /\ sie \in [CPU -> BOOLEAN] /\ noff \in [CPU -> Int] /\ intena \in [CPU -> BOOLEAN]
  /\ cur \in [CPU -> Proc \cup {0}]
  /\ run \in [CPU -> Thread]
  /\ owner \in [Lock -> CPU \cup {0}]
ThreadType ==
  /\ pc \in [Thread -> PcPlaces] /\ tpc \in [Thread -> TrapPlaces]
  /\ want \in [Thread -> Lock \cup {None}]
  /\ idx \in [Thread -> Nat \ {0}] /\ tidx \in [Thread -> Nat \ {0}]
ProcType ==
  /\ saved \in [Proc -> BOOLEAN]
  /\ state \in [Proc -> {"RUNNABLE", "RUNNING", "SLEEPING", "ZOMBIE"}]
  /\ killed \in [Proc -> BOOLEAN]
  /\ n \in [Proc -> Nat] /\ elapsed \in [Proc -> Nat]
  /\ victim \in [Proc -> Proc \cup {0}]
TypeInv == CpuType /\ ThreadType /\ ProcType

\* Where a thread is, with the innermost trap first.
Place(t) == IF tpc[t] # "no" THEN tpc[t] ELSE pc[t]

\* The places of a thread that has tickslock, its own lock, the lock of the
\* process its loop is at; and those of pc at which it can be interrupted.
TickPlaces == {"clockintr", "wakeup", "wake", "sleep", "slept", "sleeplk"}
OwnPlaces  == {"forkret", "yield", "yielded", "sleeping", "sleeplk", "woken", "zombie", "dead"}
IdxPlaces  == {"choose", "back", "kill"}
Plain      == {"scheduler", "scan", "usertrapret", "user", "relock", "killnext"}

\* A process in a system call: with interrupts enabled, and with a lock.
Outer == {"user", "relock", "killnext"}
Inner == {"sleep", "slept", "sleeplk", "sleeping", "woken", "kill"}

\* At place l, thread t has lock m or is waiting for it; the number of such
\* locks.
HasAt(t, l, m) ==
  \/ m = TICKS /\ l \in TickPlaces
  \/ m = t /\ l \in OwnPlaces
  \/ m = idx[t] /\ l \in IdxPlaces
  \/ m = tidx[t] /\ l = "wake"
DepthAt(l) ==
  IF l \in {"wake", "sleeplk"} THEN 2
  ELSE IF l \in TickPlaces \cup OwnPlaces \cup IdxPlaces THEN 1 ELSE 0

\* The locks, the interrupts and the thread of processor c.
LocksOK(c) ==
  /\ \A m \in Lock : owner[m] = c <=> HasAt(run[c], Place(run[c]), m) /\ want[run[c]] # m
  /\ noff[c] = DepthAt(Place(run[c]))
WantOK(c) ==
  want[run[c]] # None =>
    /\ HasAt(run[c], Place(run[c]), want[run[c]])
    /\ Place(run[c]) \in {"wake", "sleeplk"} => want[run[c]] # TICKS
IntrOK(c) ==
  /\ sie[c] => noff[c] = 0 /\ tpc[run[c]] = "no"
  /\ tpc[run[c]] # "no" /\ noff[c] # 0 => ~intena[c]
  /\ run[c] \in Proc /\ tpc[run[c]] = "no" =>
       (pc[run[c]] \in Outer => sie[c]) /\ (pc[run[c]] \in Inner => intena[c])
RunOK(c) ==
  /\ run[c] \in Proc \cup {Sched(c)}
  /\ run[c] \in Proc =>
       /\ state[run[c]] = "RUNNING" /\ cur[c] = run[c]
       /\ pc[Sched(c)] = "back" /\ tpc[Sched(c)] = "no" /\ want[Sched(c)] = None
       /\ idx[Sched(c)] = run[c]
  /\ run[c] = Sched(c) =>
       (pc[run[c]] = "back" => cur[c] = idx[run[c]]) /\ (pc[run[c]] # "back" => cur[c] = 0)
CpuOK(c) == LocksOK(c) /\ WantOK(c) /\ IntrOK(c) /\ RunOK(c)

\* A thread: where it can be interrupted, and its loops; and where it waits.
PlaceOK(t) ==
  /\ tpc[t] # "no" => pc[t] \in Plain
  /\ tpc[t] = "wake" => tidx[t] \in Proc
  /\ t \in Proc =>
       /\ pc[t] \notin {"scheduler", "scan", "choose", "back"}
       /\ pc[t] \in {"kill", "killnext"} => victim[t] \in Proc /\ idx[t] <= victim[t]
       /\ pc[t] \notin {"kill", "killnext"} => idx[t] = 1
  /\ t \notin Proc =>
       /\ pc[t] \in {"scheduler", "scan", "choose", "back"}
       /\ tpc[t] \notin {"yield", "yielded", "zombie", "dead", "sret"}
       /\ pc[t] \in {"choose", "back"} => idx[t] \in Proc
WaitOK(t) ==
  /\ state[t] = "RUNNABLE" => want[t] = None /\ Place(t) \in {"forkret", "yielded", "woken"}
  /\ state[t] = "SLEEPING" => want[t] = None /\ Place(t) = "woken"
  /\ state[t] \in {"RUNNABLE", "SLEEPING"} =>
       (pc[t] = "woken" => saved[t]) /\ (tpc[t] # "no" => ~saved[t])
ThreadOK(t) == PlaceOK(t) /\ (t \in Proc => WaitOK(t))

IInv ==
  /\ TypeInv /\ ~panicked
  /\ \A c \in CPU : CpuOK(c)
  /\ \A t \in Thread : ThreadOK(t)
  /\ \A c, d \in CPU : run[c] = run[d] => c = d

-----------------------------------------------------------------------------
LEMMA Sets ==
  /\ Proc \subseteq Thread /\ Proc \subseteq Lock /\ TICKS \in Lock /\ TICKS \notin Proc
  /\ None \notin Lock /\ None \notin Thread
  /\ 0 \notin CPU /\ 0 \notin Thread /\ 0 \notin Proc
  /\ \A c \in CPU : Sched(c) \in Thread /\ Sched(c) \notin Proc
  /\ \A c, d \in CPU : Sched(c) = Sched(d) => c = d
  /\ 1 \in Proc /\ Proc \subseteq Nat \ {0}
BY SMTT(60), CpuConstants DEF Proc, Thread, Lock, TICKS, None, CPU, Sched

\* What Goto, acquire() and release() do, variable by variable.
Fits(t, l) ==
  /\ tpc[t] # "no" => l \in TrapPlaces /\ l # "no"
  /\ tpc[t] = "no" => l \in PcPlaces
GoesTo(t, l) ==
  /\ tpc[t] # "no" => pc'[t] = pc[t] /\ tpc'[t] = l
  /\ tpc[t] = "no" => pc'[t] = l /\ tpc'[t] = "no"
  /\ \A u \in Thread : u # t => pc'[u] = pc[u] /\ tpc'[u] = tpc[u]

LEMMA AtFacts ==
  ASSUME TypeInv, NEW c \in CPU, NEW l, At(c, l)
  PROVE  /\ run[c] \in Thread /\ want[run[c]] = None /\ Place(run[c]) = l /\ ~panicked
         /\ l \notin TrapPlaces => tpc[run[c]] = "no" /\ pc[run[c]] = l
         /\ l \notin PcPlaces => tpc[run[c]] = l /\ l # "no"
BY SMTT(60) DEF TypeInv, CpuType, ThreadType, At, Place

LEMMA GotoFacts ==
  ASSUME TypeInv, NEW t \in Thread, NEW l, Fits(t, l), Goto(t, l)
  PROVE  /\ pc' \in [Thread -> PcPlaces] /\ tpc' \in [Thread -> TrapPlaces]
         /\ GoesTo(t, l) /\ Place(t)' = l
<1>1. "no" \in TrapPlaces /\ pc \in [Thread -> PcPlaces] /\ tpc \in [Thread -> TrapPlaces]
  BY DEF TypeInv, ThreadType, TrapPlaces
<1> QED
  BY <1>1 DEF Fits, Goto, GoesTo, Place

LEMMA AcquireFacts ==
  ASSUME TypeInv, NEW c \in CPU, NEW t \in Thread, t = run[c], NEW lk \in Lock, NEW l, Fits(t, l), acquire(c, lk, l)
  PROVE  /\ CpuType' /\ pc' \in [Thread -> PcPlaces] /\ tpc' \in [Thread -> TrapPlaces]
         /\ want' \in [Thread -> Lock \cup {None}]
         /\ GoesTo(t, l) /\ Place(t)' = l
         /\ want'[t] = lk /\ \A u \in Thread : u # t => want'[u] = want[u]
         /\ ~sie'[c] /\ noff'[c] = noff[c] + 1
         /\ (noff[c] = 0 => intena'[c] = sie[c]) /\ (noff[c] # 0 => intena'[c] = intena[c])
         /\ \A d \in CPU : d # c => noff'[d] = noff[d] /\ sie'[d] = sie[d] /\ intena'[d] = intena[d]
         /\ owner' = owner /\ cur' = cur /\ run' = run /\ saved' = saved
         /\ panicked' = (owner[lk] = c)
<1>1. CpuType /\ want \in [Thread -> Lock \cup {None}]
  BY DEF TypeInv, CpuType, ThreadType
<1>2. Goto(t, l) /\ UNCHANGED <<owner, cur, run, saved>> /\ push_off(c)
      /\ panicked' = (owner[lk] = c) /\ want' = [want EXCEPT ![t] = lk]
  BY DEF acquire, holding
<1>4. /\ pc' \in [Thread -> PcPlaces] /\ tpc' \in [Thread -> TrapPlaces] /\ GoesTo(t, l)
      /\ Place(t)' = l
  BY <1>1, <1>2, GotoFacts
<1>5. /\ sie' \in [CPU -> BOOLEAN] /\ noff' \in [CPU -> Int] /\ intena' \in [CPU -> BOOLEAN]
      /\ ~sie'[c] /\ noff'[c] = noff[c] + 1
      /\ (noff[c] = 0 => intena'[c] = sie[c]) /\ (noff[c] # 0 => intena'[c] = intena[c])
      /\ \A d \in CPU : d # c => noff'[d] = noff[d] /\ sie'[d] = sie[d] /\ intena'[d] = intena[d]
  BY SMTT(60), <1>1, <1>2 DEF CpuType, push_off
<1>6. /\ want' \in [Thread -> Lock \cup {None}]
      /\ want'[t] = lk /\ \A u \in Thread : u # t => want'[u] = want[u]
  BY <1>1, <1>2
<1> QED
  BY <1>1, <1>2, <1>4, <1>5, <1>6 DEF CpuType

LEMMA ReleaseFacts ==
  ASSUME TypeInv, NEW c \in CPU, NEW t \in Thread, t = run[c], NEW lk \in Lock, NEW l, Fits(t, l), release(c, lk, l),
         cur' \in [CPU -> Proc \cup {0}]
  PROVE  /\ CpuType' /\ pc' \in [Thread -> PcPlaces] /\ tpc' \in [Thread -> TrapPlaces]
         /\ want' = want /\ run' = run /\ saved' = saved
         /\ GoesTo(t, l) /\ Place(t)' = l
         /\ noff'[c] = noff[c] - 1 /\ sie'[c] = (noff[c] = 1 /\ intena[c]) /\ intena' = intena
         /\ \A d \in CPU : d # c => noff'[d] = noff[d] /\ sie'[d] = sie[d]
         /\ owner'[lk] = 0 /\ \A m \in Lock : m # lk => owner'[m] = owner[m]
         /\ panicked' = (owner[lk] # c \/ sie[c] \/ noff[c] < 1)
<1>1. CpuType
  BY DEF TypeInv, CpuType
<1>2. Goto(t, l) /\ UNCHANGED <<want, run, saved, intena>> /\ pop_off(c)
      /\ panicked' = (owner[lk] # c \/ sie[c] \/ noff[c] < 1) /\ owner' = [owner EXCEPT ![lk] = 0]
  BY DEF release, holding, PopPanics, pop_off
<1>3. /\ pc' \in [Thread -> PcPlaces] /\ tpc' \in [Thread -> TrapPlaces] /\ GoesTo(t, l)
      /\ Place(t)' = l
  BY <1>1, <1>2, GotoFacts
<1>4. /\ sie' \in [CPU -> BOOLEAN] /\ noff' \in [CPU -> Int]
      /\ noff'[c] = noff[c] - 1 /\ sie'[c] = (noff[c] = 1 /\ intena[c])
      /\ \A d \in CPU : d # c => noff'[d] = noff[d] /\ sie'[d] = sie[d]
  BY SMTT(60), <1>1, <1>2 DEF CpuType, pop_off
<1>5. /\ owner' \in [Lock -> CPU \cup {0}]
      /\ owner'[lk] = 0 /\ \A m \in Lock : m # lk => owner'[m] = owner[m]
  BY <1>1, <1>2 DEF CpuType
<1> QED
  BY <1>1, <1>2, <1>3, <1>4, <1>5 DEF CpuType

-----------------------------------------------------------------------------
\* A step of processor c that changes no thread but its own, t, and wakes
\* sleepers at most.
Frame(c, t) ==
  /\ run' = run /\ saved' = saved
  /\ \A u \in Thread : u # t =>
       pc'[u] = pc[u] /\ tpc'[u] = tpc[u] /\ want'[u] = want[u] /\ idx'[u] = idx[u] /\ tidx'[u] = tidx[u]
  /\ \A d \in CPU : d # c =>
       noff'[d] = noff[d] /\ sie'[d] = sie[d] /\ intena'[d] = intena[d] /\ cur'[d] = cur[d]
  /\ \A m \in Lock : owner'[m] # owner[m] => owner[m] \in {0, c} /\ owner'[m] \in {0, c}
  /\ \A p \in Proc : p # t => victim'[p] = victim[p]
  /\ \A p \in Proc : state'[p] # state[p] => state[p] = "SLEEPING" /\ state'[p] = "RUNNABLE"

\* A processor or a thread that a step leaves alone.
Same(u) == pc'[u] = pc[u] /\ tpc'[u] = tpc[u] /\ want'[u] = want[u] /\ idx'[u] = idx[u] /\ tidx'[u] = tidx[u]
SameCpu(d) ==
  /\ noff'[d] = noff[d] /\ sie'[d] = sie[d] /\ intena'[d] = intena[d] /\ cur'[d] = cur[d]
  /\ \A m \in Lock : owner'[m] = d <=> owner[m] = d

LEMMA CpuKept ==
  ASSUME NEW d \in CPU, NEW u, NEW v, u = run[d], u = run'[d], v = Sched(d), CpuOK(d),
         Same(u), Same(v), SameCpu(d), u \in Proc => state'[u] = state[u]
  PROVE  CpuOK(d)'
<1>0. Place(u)' = Place(u) /\ \A l, m : HasAt(u, l, m)' <=> HasAt(u, l, m)
  BY DEF Place, HasAt, Same
<1>1. LocksOK(d)'
  <2>1. LocksOK(d) /\ want'[u] = want[u] /\ noff'[d] = noff[d] /\ \A m \in Lock : owner'[m] = d <=> owner[m] = d
    BY DEF CpuOK, Same, SameCpu
  <2>2. \A m \in Lock : owner[m] = d <=> HasAt(u, Place(u), m) /\ want[u] # m
    BY <2>1 DEF LocksOK
  <2>3. \A m \in Lock : owner'[m] = d <=> HasAt(u, Place(u), m)' /\ want'[u] # m
    BY <1>0, <2>1, <2>2
  <2> QED
    BY <1>0, <2>1, <2>3 DEF LocksOK
<1>2. WantOK(d)'
  BY <1>0 DEF WantOK, CpuOK, Same
<1>3. IntrOK(d)'
  BY DEF IntrOK, CpuOK, Same, SameCpu
<1>4. RunOK(d)'
  BY DEF RunOK, CpuOK, Same, SameCpu
<1> QED
  BY <1>1, <1>2, <1>3, <1>4 DEF CpuOK

LEMMA ThreadKept ==
  ASSUME NEW u, ThreadOK(u), Same(u),
         u \in Proc =>
           /\ victim'[u] = victim[u] /\ saved'[u] = saved[u]
           /\ state'[u] = state[u] \/ (state[u] = "SLEEPING" /\ state'[u] = "RUNNABLE")
  PROVE  ThreadOK(u)'
<1>1. PlaceOK(u)'
  BY DEF ThreadOK, PlaceOK, Same
<1>2. u \in Proc => WaitOK(u)'
  BY DEF ThreadOK, WaitOK, Place, Same
<1> QED
  BY <1>1, <1>2 DEF ThreadOK

LEMMA FrameStep ==
  ASSUME IInv, TypeInv', ~panicked', NEW c \in CPU, NEW t, t = run[c], Frame(c, t), CpuOK(c)', PlaceOK(t)'
  PROVE  IInv'
<1>1. ThreadOK(t)'
  <2>1. t \in Proc => state[t] = "RUNNING" /\ state'[t] = "RUNNING"
    BY DEF IInv, CpuOK, RunOK, Frame
  <2> QED
    BY <2>1 DEF ThreadOK, WaitOK
<1>2. ASSUME NEW d \in CPU, d # c PROVE CpuOK(d)'
  <2>1. PICK u \in Thread, v \in Thread : u = run[d] /\ v = Sched(d)
    BY Sets DEF IInv, TypeInv, CpuType
  <2>2. CpuOK(d) /\ u # t /\ run'[d] = u
    BY <1>2, <2>1 DEF IInv, Frame
  <2>3. v # t
    BY SMTT(60), <1>2, <2>1, Sets DEF IInv, CpuOK, RunOK
  <2>4. Same(u) /\ Same(v)
    BY <2>2, <2>3 DEF Frame, Same
  <2>5. SameCpu(d)
    BY SMTT(60), <1>2, Sets DEF Frame, SameCpu
  <2>6. u \in Proc => state'[u] = state[u]
    BY <2>1, <2>2 DEF CpuOK, RunOK, Frame
  <2> QED
    BY <2>1, <2>2, <2>4, <2>5, <2>6, CpuKept
<1>3. ASSUME NEW u \in Thread, u # t PROVE ThreadOK(u)'
  <2>1. ThreadOK(u) /\ Same(u)
    BY <1>3 DEF IInv, Frame, Same
  <2>2. u \in Proc =>
          /\ victim'[u] = victim[u] /\ saved'[u] = saved[u]
          /\ state'[u] = state[u] \/ (state[u] = "SLEEPING" /\ state'[u] = "RUNNABLE")
    BY <1>3 DEF Frame
  <2> QED
    BY <2>1, <2>2, ThreadKept
<1>4. \A d, e \in CPU : run'[d] = run'[e] => d = e
  BY DEF IInv, Frame
<1> QED
  BY <1>1, <1>2, <1>3, <1>4 DEF IInv

\* The scheduler waits while a process runs.
LEMMA RunKept ==
  ASSUME NEW c \in CPU, NEW t, t = run[c], RunOK(c), Frame(c, t), cur'[c] = cur[c],
         pc[t] # "back", pc'[t] # "back"
  PROVE  RunOK(c)'
<1>1. run'[c] = t /\ Sched(c) \in Thread /\ Sched(c) \notin Proc
  BY Sets DEF Frame
<1>2. t \in Proc /\ state[t] = "RUNNING" => state'[t] = "RUNNING"
  BY DEF Frame
<1>3. t \in Proc =>
        /\ pc'[Sched(c)] = pc[Sched(c)] /\ tpc'[Sched(c)] = tpc[Sched(c)]
        /\ want'[Sched(c)] = want[Sched(c)] /\ idx'[Sched(c)] = idx[Sched(c)]
  BY <1>1 DEF Frame
<1> QED
  BY <1>1, <1>2, <1>3 DEF RunOK

\* acquire() and release() of lk between two places l0 and l: the lock is the
\* difference between what the two places have.
AcquireShape(t, lk, l0, l) ==
  /\ ~HasAt(t, l0, lk) /\ \A m \in Lock : HasAt(t, l, m) <=> HasAt(t, l0, m) \/ m = lk
  /\ DepthAt(l) = DepthAt(l0) + 1
  /\ l \in {"wake", "sleeplk"} => lk # TICKS
  /\ l \notin Outer /\ (l \in Inner => l0 \in Outer \cup Inner)
  /\ l0 # "back" /\ l # "back"
ReleaseShape(t, lk, l0, l) ==
  /\ HasAt(t, l0, lk) /\ \A m \in Lock : HasAt(t, l, m)' <=> HasAt(t, l0, m) /\ m # lk
  /\ DepthAt(l0) = DepthAt(l) + 1
  /\ l \in Outer => l0 \in Inner
  /\ l \in Inner => l0 \in Inner
  /\ l # "back"
OthersKept(c, t) ==
  /\ \A u \in Thread : u # t => idx'[u] = idx[u] /\ tidx'[u] = tidx[u]
  /\ \A d \in CPU : d # c => cur'[d] = cur[d]
  /\ \A p \in Proc : p # t => victim'[p] = victim[p]
  /\ \A p \in Proc : state'[p] # state[p] => state[p] = "SLEEPING" /\ state'[p] = "RUNNABLE"

LEMMA DepthFacts ==
  ASSUME NEW l
  PROVE  /\ DepthAt(l) \in {0, 1, 2}
         /\ l \in Outer => DepthAt(l) = 0
         /\ l \in Inner => DepthAt(l) # 0
BY SMTT(60) DEF DepthAt, Outer, Inner, TickPlaces, OwnPlaces, IdxPlaces

\* What the invariant says of a thread that is not spinning.
LEMMA HereFacts ==
  ASSUME IInv, NEW c \in CPU, NEW l0, At(c, l0)
  PROVE  /\ \A m \in Lock : owner[m] = c <=> HasAt(run[c], l0, m)
         /\ noff[c] = DepthAt(l0) /\ Place(run[c]) = l0 /\ want[run[c]] = None
         /\ IntrOK(c) /\ RunOK(c) /\ ThreadOK(run[c]) /\ run[c] \in Thread
<1>1. CpuOK(c) /\ want[run[c]] = None /\ Place(run[c]) = l0 /\ run[c] \in Thread /\ None \notin Lock
  BY AtFacts, Sets DEF IInv
<1>2. ThreadOK(run[c])
  BY <1>1 DEF IInv
<1> QED
  BY <1>1, <1>2 DEF CpuOK, LocksOK

\* The hypotheses on such steps of thread t of processor c.
AcquireHyp(c, t, lk, l0, l) ==
  /\ IInv /\ At(c, l0) /\ t = run[c] /\ Fits(t, l)
  /\ acquire(c, lk, l) /\ AcquireShape(t, lk, l0, l)
  /\ ProcType' /\ idx' = idx /\ tidx' = tidx /\ OthersKept(c, t)
  /\ PlaceOK(t)'
ReleaseHyp(c, t, lk, l0, l) ==
  /\ IInv /\ At(c, l0) /\ t = run[c] /\ Fits(t, l)
  /\ release(c, lk, l) /\ ReleaseShape(t, lk, l0, l)
  /\ ProcType' /\ OthersKept(c, t)
  /\ idx' \in [Thread -> Nat \ {0}] /\ tidx' \in [Thread -> Nat \ {0}]
  /\ cur' \in [CPU -> Proc \cup {0}]
  /\ l0 = "back" => cur'[c] = 0
  /\ l0 # "back" => cur'[c] = cur[c]
  /\ PlaceOK(t)'
MoveHyp(c, t, l0, l) ==
  /\ IInv /\ At(c, l0) /\ t = run[c] /\ Place(t)' = l
  /\ \A m \in Lock : HasAt(t, l, m)' <=> HasAt(t, l0, m)
  /\ DepthAt(l) = DepthAt(l0)
  /\ UNCHANGED <<noff, intena, owner, want, run, saved, cur, panicked>> /\ OthersKept(c, t)
  /\ \A u \in Thread : u # t => pc'[u] = pc[u] /\ tpc'[u] = tpc[u]
  /\ \A d \in CPU : d # c => sie'[d] = sie[d]
  /\ pc[t] # "back" /\ pc'[t] # "back" /\ TypeInv' /\ IntrOK(c)' /\ PlaceOK(t)'

LEMMA AcquireStep ==
  ASSUME NEW c \in CPU, NEW t \in Thread, NEW lk \in Lock, NEW l0, NEW l,
         AcquireHyp(c, t, lk, l0, l)
  PROVE  IInv'
<1>0. /\ IInv /\ TypeInv /\ At(c, l0) /\ t = run[c] /\ Fits(t, l) /\ acquire(c, lk, l)
  BY DEF AcquireHyp, IInv
<1>1. GoesTo(t, l) /\ Place(t)' = l
  BY SMTT(60), <1>0, AcquireFacts
<1>2. want'[t] = lk /\ owner' = owner /\ run' = run /\ saved' = saved /\ run'[c] = t
  BY SMTT(60), <1>0, AcquireFacts
<1>3. /\ \A u \in Thread : u # t => want'[u] = want[u]
      /\ \A d \in CPU : d # c => noff'[d] = noff[d] /\ sie'[d] = sie[d] /\ intena'[d] = intena[d]
  BY SMTT(60), <1>0, AcquireFacts
<1>4. ~sie'[c] /\ noff'[c] = noff[c] + 1 /\ (noff[c] = 0 => intena'[c] = sie[c]) /\ (noff[c] # 0 => intena'[c] = intena[c])
  BY <1>0, AcquireFacts
<1>5. panicked' = (owner[lk] = c)
  BY SMTT(60), <1>0, AcquireFacts
<1>6. \A m \in Lock : owner[m] = c <=> HasAt(t, l0, m)
  BY <1>0, HereFacts
<1>7. noff[c] = DepthAt(l0) /\ Place(t) = l0
  BY <1>0, HereFacts
<1>8. /\ tpc[t] # "no" /\ noff[c] # 0 => ~intena[c]
      /\ tpc[t] # "no" => ~sie[c]
      /\ t \in Proc /\ tpc[t] = "no" => (pc[t] \in Outer => sie[c]) /\ (pc[t] \in Inner => intena[c])
  BY <1>0, HereFacts DEF IntrOK
<1>9. ThreadOK(t) /\ RunOK(c)
  BY <1>0, HereFacts
<1>10. ~panicked'
  BY <1>5, <1>6 DEF AcquireHyp, AcquireShape
<1>11. Frame(c, t)
  <2>1. idx' = idx /\ tidx' = tidx /\ OthersKept(c, t) /\ cur' = cur
    BY <1>0, AcquireFacts DEF AcquireHyp
  <2> QED
    BY <1>1, <1>2, <1>3, <2>1 DEF Frame, GoesTo, OthersKept
<1>12. LocksOK(c)'
  <2>1. \A m \in Lock : owner[m] = c <=> HasAt(t, l, m) /\ m # lk
    BY <1>6 DEF AcquireHyp, AcquireShape
  <2>2. noff'[c] = DepthAt(l)
    BY <1>4, <1>7 DEF AcquireHyp, AcquireShape
  <2>3. idx' = idx /\ tidx' = tidx
    BY DEF AcquireHyp
  <2> QED
    BY <1>1, <1>2, <2>1, <2>2, <2>3 DEF LocksOK, HasAt
<1>13. WantOK(c)'
  <2>1. HasAt(t, l, lk) /\ (l \in {"wake", "sleeplk"} => lk # TICKS) /\ idx' = idx /\ tidx' = tidx
    BY DEF AcquireHyp, AcquireShape
  <2> QED
    BY <1>1, <1>2, <2>1 DEF WantOK, HasAt
<1>14. IntrOK(c)'
  <2>1. tpc'[t] # "no" <=> tpc[t] # "no"
    BY <1>0, <1>1 DEF GoesTo, Fits
  <2>2. tpc'[t] # "no" => ~intena'[c]
    BY <1>4, <1>8, <2>1
  <2>3. t \in Proc /\ tpc'[t] = "no" => pc'[t] \notin Outer /\ (pc'[t] \in Inner => intena'[c])
    <3>1. tpc'[t] = "no" => tpc[t] = "no" /\ pc'[t] = l /\ pc[t] = l0
      BY <1>1, <1>7, <2>1 DEF GoesTo, Place
    <3>2. l0 \in Outer => noff[c] = 0
      BY <1>7, DepthFacts
    <3>3. l0 \in Inner => noff[c] # 0
      BY <1>7, DepthFacts
    <3>4. t \in Proc /\ tpc[t] = "no" /\ l0 \in Outer \cup Inner /\ pc[t] = l0 => intena'[c]
      BY <1>4, <1>8, <3>2, <3>3
    <3>5. l \notin Outer /\ (l \in Inner => l0 \in Outer \cup Inner)
      BY DEF AcquireHyp, AcquireShape
    <3> QED
      BY <3>1, <3>4, <3>5
  <2> QED
    BY <1>2, <1>4, <2>2, <2>3 DEF IntrOK
<1>15. TypeInv'
  <2>1. ThreadType /\ ProcType' /\ idx' = idx /\ tidx' = tidx
    BY <1>0 DEF AcquireHyp, TypeInv
  <2>2. /\ CpuType' /\ pc' \in [Thread -> PcPlaces] /\ tpc' \in [Thread -> TrapPlaces]
        /\ want' \in [Thread -> Lock \cup {None}]
    BY <1>0, AcquireFacts
  <2> QED
    BY <2>1, <2>2 DEF TypeInv, ThreadType
<1>16. RunOK(c)'
  <2>1. cur'[c] = cur[c]
    BY <1>0, AcquireFacts
  <2>2. pc[t] # "back" /\ pc'[t] # "back"
    <3>1. tpc[t] # "no" => pc[t] # "back"
      BY <1>9 DEF ThreadOK, PlaceOK, Plain
    <3>2. l0 # "back" /\ l # "back"
      BY DEF AcquireHyp, AcquireShape
    <3> QED
      BY <1>1, <1>7, <3>1, <3>2 DEF GoesTo, Place
  <2> QED
    BY <1>0, <1>9, <1>11, <2>1, <2>2, RunKept
<1>17. PlaceOK(t)'
  BY DEF AcquireHyp
<1> QED
  BY <1>0, <1>10, <1>11, <1>12, <1>13, <1>14, <1>15, <1>16, <1>17, FrameStep DEF CpuOK

LEMMA ReleaseStep ==
  ASSUME NEW c \in CPU, NEW t \in Thread, NEW lk \in Lock, NEW l0, NEW l,
         ReleaseHyp(c, t, lk, l0, l)
  PROVE  IInv'
<1>0. /\ IInv /\ TypeInv /\ At(c, l0) /\ t = run[c] /\ Fits(t, l) /\ release(c, lk, l)
      /\ cur' \in [CPU -> Proc \cup {0}]
  BY DEF ReleaseHyp, IInv
<1>1. GoesTo(t, l) /\ Place(t)' = l
  BY <1>0, ReleaseFacts
<1>2. want' = want /\ run' = run /\ saved' = saved /\ intena' = intena /\ run'[c] = t
  BY <1>0, ReleaseFacts
<1>3. \A d \in CPU : d # c => noff'[d] = noff[d] /\ sie'[d] = sie[d]
  BY <1>0, ReleaseFacts
<1>4. noff'[c] = noff[c] - 1 /\ (sie'[c] <=> noff[c] = 1 /\ intena[c])
  BY <1>0, ReleaseFacts
<1>5. owner'[lk] = 0 /\ \A m \in Lock : m # lk => owner'[m] = owner[m]
  BY SMTT(60), <1>0, ReleaseFacts
<1>6. panicked' = (owner[lk] # c \/ sie[c] \/ noff[c] < 1)
  BY <1>0, ReleaseFacts
<1>7. \A m \in Lock : owner[m] = c <=> HasAt(t, l0, m)
  BY <1>0, HereFacts
<1>8. noff[c] = DepthAt(l0) /\ Place(t) = l0 /\ want[t] = None
  BY <1>0, HereFacts
<1>9. /\ tpc[t] # "no" /\ noff[c] # 0 => ~intena[c]
      /\ sie[c] => noff[c] = 0
      /\ t \in Proc /\ tpc[t] = "no" => (pc[t] \in Inner => intena[c])
  BY <1>0, HereFacts DEF IntrOK
<1>10. ThreadOK(t) /\ RunOK(c)
  BY <1>0, HereFacts
<1>11. owner[lk] = c
  BY <1>7 DEF ReleaseHyp, ReleaseShape
<1>12. noff'[c] = DepthAt(l) /\ noff[c] \in {1, 2} /\ noff[c] # 0 /\ (noff[c] = 1 <=> DepthAt(l) = 0)
  <2>1. DepthAt(l0) = DepthAt(l) + 1 /\ DepthAt(l) \in {0, 1, 2} /\ DepthAt(l0) \in {0, 1, 2}
    BY DepthFacts DEF ReleaseHyp, ReleaseShape
  <2> QED
    BY SMTT(60), <1>4, <1>8, <2>1
<1>13. ~panicked'
  <2>1. ~sie[c] /\ ~(noff[c] < 1)
    BY SMTT(60), <1>9, <1>12
  <2> QED
    BY <1>6, <1>11, <2>1
<1>14. Frame(c, t)
  <2>1. \A m \in Lock : owner'[m] # owner[m] => owner[m] \in {0, c} /\ owner'[m] \in {0, c}
    BY <1>5, <1>11
  <2>2. OthersKept(c, t)
    BY DEF ReleaseHyp
  <2> QED
    BY <1>1, <1>2, <1>3, <2>1, <2>2 DEF Frame, GoesTo, OthersKept
<1>15. LocksOK(c)'
  <2>1. 0 # c /\ None \notin Lock
    BY Sets
  <2>2. \A m \in Lock : owner'[m] = c <=> HasAt(t, l, m)'
    BY <1>5, <1>7, <2>1 DEF ReleaseHyp, ReleaseShape
  <2> QED
    BY <1>1, <1>2, <1>8, <1>12, <2>1, <2>2 DEF LocksOK, HasAt
<1>16. WantOK(c)'
  BY <1>2, <1>8 DEF WantOK
<1>17. IntrOK(c)'
  <2>1. tpc'[t] # "no" <=> tpc[t] # "no"
    BY <1>0, <1>1 DEF GoesTo, Fits
  <2>2. tpc'[t] # "no" => ~intena'[c] /\ ~sie'[c]
    BY <1>2, <1>4, <1>9, <1>12, <2>1
  <2>3. t \in Proc /\ tpc'[t] = "no" => (pc'[t] \in Outer => sie'[c]) /\ (pc'[t] \in Inner => intena'[c])
    <3>1. tpc'[t] = "no" => tpc[t] = "no" /\ pc'[t] = l /\ pc[t] = l0
      BY <1>1, <1>8, <2>1 DEF GoesTo, Place
    <3>2. l \in Outer => noff[c] = 1
      BY <1>12, DepthFacts
    <3>3. l \in Outer \cup Inner => l0 \in Inner
      BY DEF ReleaseHyp, ReleaseShape
    <3> QED
      BY <1>2, <1>4, <1>9, <3>1, <3>2, <3>3
  <2>4. sie'[c] => noff'[c] = 0
    BY <1>4, <1>12
  <2> QED
    BY <1>2, <2>2, <2>3, <2>4 DEF IntrOK
<1>18. TypeInv'
  <2>1. /\ want' \in [Thread -> Lock \cup {None}] /\ ProcType'
        /\ idx' \in [Thread -> Nat \ {0}] /\ tidx' \in [Thread -> Nat \ {0}]
    BY <1>0, <1>2 DEF ReleaseHyp, TypeInv, ThreadType
  <2>2. CpuType' /\ pc' \in [Thread -> PcPlaces] /\ tpc' \in [Thread -> TrapPlaces]
    BY <1>0, ReleaseFacts
  <2> QED
    BY <2>1, <2>2 DEF TypeInv, ThreadType
<1>19. RunOK(c)'
  <2>1. pc'[t] # "back" /\ (l0 # "back" => pc[t] # "back") /\ (l0 = "back" => pc[t] = "back")
    <3>1. l # "back" /\ "back" \notin TrapPlaces
      BY DEF ReleaseHyp, ReleaseShape, TrapPlaces
    <3>2. tpc[t] # "no" => pc[t] # "back"
      BY <1>10 DEF ThreadOK, PlaceOK, Plain
    <3>3. tpc[t] \in TrapPlaces
      BY <1>0 DEF TypeInv, ThreadType
    <3> QED
      BY <1>1, <1>8, <3>1, <3>2, <3>3 DEF GoesTo, Place
  <2>2. CASE l0 = "back"
    <3>1. t \notin Proc /\ cur'[c] = 0
      BY <1>10, <2>1, <2>2 DEF ThreadOK, PlaceOK, ReleaseHyp
    <3>2. t = Sched(c)
      BY <1>0, <1>10, <3>1 DEF RunOK
    <3> QED
      BY <1>2, <2>1, <3>1, <3>2 DEF RunOK
  <2>3. CASE l0 # "back"
    <3>1. cur'[c] = cur[c]
      BY <2>3 DEF ReleaseHyp
    <3> QED
      BY <1>0, <1>10, <1>14, <2>1, <2>3, <3>1, RunKept
  <2> QED
    BY <2>2, <2>3
<1>20. PlaceOK(t)'
  BY DEF ReleaseHyp
<1> QED
  BY <1>0, <1>13, <1>14, <1>15, <1>16, <1>17, <1>18, <1>19, <1>20, FrameStep DEF CpuOK

\* Other steps of a thread.
LEMMA MoveStep ==
  ASSUME NEW c \in CPU, NEW t \in Thread, NEW l0, NEW l, MoveHyp(c, t, l0, l)
  PROVE  IInv'
<1>0. IInv /\ At(c, l0) /\ t = run[c] /\ ~panicked' /\ run'[c] = t /\ Place(t)' = l
  BY DEF MoveHyp, IInv
<1>1. \A m \in Lock : owner[m] = c <=> HasAt(t, l0, m)
  BY SMTT(60), <1>0, HereFacts
<1>2. noff[c] = DepthAt(l0) /\ want[t] = None /\ RunOK(c)
  BY <1>0, HereFacts
<1>3. Frame(c, t)
  BY DEF MoveHyp, Frame, OthersKept
<1>4. LocksOK(c)'
  <2>1. None \notin Lock /\ \A m \in Lock : owner'[m] = c <=> HasAt(t, l, m)'
    BY <1>1, Sets DEF MoveHyp
  <2>2. noff'[c] = DepthAt(l) /\ want'[t] = None
    BY <1>2 DEF MoveHyp
  <2> QED
    BY <1>0, <2>1, <2>2 DEF LocksOK, HasAt
<1>5. WantOK(c)'
  <2>1. want'[t] = None
    BY <1>2 DEF MoveHyp
  <2> QED
    BY <1>0, <2>1 DEF WantOK
<1>6. RunOK(c)'
  <2>1. cur'[c] = cur[c] /\ pc[t] # "back" /\ pc'[t] # "back"
    BY DEF MoveHyp
  <2> QED
    BY <1>0, <1>2, <1>3, <2>1, RunKept
<1>7. TypeInv' /\ IntrOK(c)' /\ PlaceOK(t)'
  BY DEF MoveHyp
<1> QED
  BY <1>0, <1>3, <1>4, <1>5, <1>6, <1>7, FrameStep DEF CpuOK

-----------------------------------------------------------------------------
(* Every action preserves the invariant.                                   *)

LEMMA HereAt ==
  ASSUME IInv, NEW c \in CPU, NEW l, At(c, l)
  PROVE  \E t \in Thread :
           /\ t = run[c] /\ Place(t) = l /\ PlaceOK(t) /\ RunOK(c) /\ want[t] = None
           /\ l \notin TrapPlaces => tpc[t] = "no" /\ pc[t] = l
           /\ l \notin PcPlaces => tpc[t] = l /\ tpc[t] # "no" /\ pc[t] \in Plain
<1>1. PICK t \in Thread : t = run[c]
  BY AtFacts DEF IInv
<1>2. Place(t) = l /\ PlaceOK(t) /\ RunOK(c) /\ want[t] = None
  BY <1>1, HereFacts DEF ThreadOK
<1>3. /\ l \notin TrapPlaces => tpc[t] = "no" /\ pc[t] = l
      /\ l \notin PcPlaces => tpc[t] = l /\ tpc[t] # "no"
  BY <1>1, AtFacts DEF IInv
<1> QED
  BY <1>1, <1>2, <1>3 DEF PlaceOK

\* kill()'s loop is at a process of the table.
LEMMA KillIdx ==
  ASSUME IInv, NEW t \in Thread, PlaceOK(t), pc[t] \in {"kill", "killnext"}
  PROVE  t \in Proc /\ idx[t] \in Proc /\ victim[t] \in Proc /\ idx[t] <= victim[t]
<1>1. t \in Proc /\ idx[t] \in Nat \ {0} /\ victim[t] \in Proc /\ idx[t] <= victim[t]
  BY DEF PlaceOK, IInv, TypeInv, ThreadType
<1>2. idx[t] \in Proc
  BY SMTT(60), <1>1, CpuConstants DEF Proc
<1> QED
  BY <1>1, <1>2

-----------------------------------------------------------------------------

\* The places between which a lock is acquired, and which lock.
AcquirePair(t, lk, l0, l) ==
  \/ lk = TICKS /\ ( \/ l0 = "user" /\ l = "sleep"
                     \/ l0 = "relock" /\ l = "slept"
                     \/ l0 = "devintr" /\ l = "clockintr" )
  \/ lk = t /\ t \in Proc /\ ( \/ l0 = "slept" /\ l = "sleeplk"
                               \/ l0 \in {"usertrapret", "trapend"} /\ l = "zombie"
                               \/ l0 = "trapend" /\ l = "yield" )
  \/ lk = idx[t] /\ lk \in Proc /\ ( \/ l0 = "scan" /\ l = "choose"
                                     \/ l0 \in {"user", "killnext"} /\ l = "kill" )
  \/ lk = tidx[t] /\ lk \in Proc /\ l0 = "wakeup" /\ l = "wake"

LEMMA AcquireFits ==
  ASSUME IInv, NEW c \in CPU, NEW t \in Thread, t = run[c], PlaceOK(t), NEW lk, NEW l0, NEW l, At(c, l0),
         AcquirePair(t, lk, l0, l)
  PROVE  lk \in Lock /\ Fits(t, l) /\ AcquireShape(t, lk, l0, l)
<1>1. lk \in Lock /\ TICKS \notin Proc
  BY Sets DEF AcquirePair
<1>2. Fits(t, l)
  <2>1. l0 \in {"devintr", "trapend", "wakeup"} => tpc[t] # "no"
    BY AtFacts DEF IInv, PcPlaces
  <2>2. l0 \notin {"devintr", "trapend", "wakeup"} => tpc[t] = "no"
    BY AtFacts DEF IInv, TrapPlaces, AcquirePair
  <2> QED
    BY <2>1, <2>2 DEF Fits, AcquirePair, PcPlaces, TrapPlaces
<1>3. l0 \in {"user", "relock", "slept"} => t \in Proc
  BY AtFacts DEF IInv, TrapPlaces, PlaceOK
<1>4. AcquireShape(t, lk, l0, l)
  <2> USE DEF AcquireShape, HasAt, DepthAt, TickPlaces, OwnPlaces, IdxPlaces, Outer, Inner
  <2>1. CASE lk = TICKS
    BY SMTT(60), <1>1, <1>3, <2>1 DEF AcquirePair
  <2>2. CASE lk # TICKS
    BY SMTT(60), <1>1, <1>3, <2>2 DEF AcquirePair
  <2> QED
    BY <2>1, <2>2
<1> QED
  BY <1>1, <1>2, <1>4

\* A loop over the table that a trap interrupts is where it was.
LoopOK(t, l) ==
  /\ l = "kill" => victim'[t] \in Proc /\ idx[t] <= victim'[t]
  /\ l # "kill" => victim'[t] = victim[t]
LEMMA AcquirePlace ==
  ASSUME IInv, NEW c \in CPU, NEW t \in Thread, t = run[c], PlaceOK(t), NEW lk, NEW l0, NEW l, At(c, l0),
         AcquirePair(t, lk, l0, l), GoesTo(t, l), idx' = idx, tidx' = tidx, t \in Proc => LoopOK(t, l)
  PROVE  PlaceOK(t)'
<1>1. CASE l0 \in {"devintr", "trapend", "wakeup"}
  <2>1. tpc[t] = l0 /\ tpc[t] # "no" /\ pc'[t] = pc[t] /\ tpc'[t] = l
    BY <1>1, AtFacts DEF IInv, PcPlaces, GoesTo
  <2>2. l \in {"clockintr", "yield", "wake", "zombie"} /\ (l \in {"yield", "zombie"} => t \in Proc)
        /\ (l = "wake" => tidx[t] \in Proc)
    BY <1>1 DEF AcquirePair
  <2>3. t \in Proc => victim'[t] = victim[t]
    BY <2>2 DEF LoopOK
  <2> QED
    BY <2>1, <2>2, <2>3 DEF PlaceOK
<1>2. CASE l0 \notin {"devintr", "trapend", "wakeup"}
  <2>1. tpc[t] = "no" /\ pc[t] = l0 /\ pc'[t] = l /\ tpc'[t] = "no"
    BY <1>2, AtFacts DEF IInv, TrapPlaces, AcquirePair, GoesTo
  <2>2. l = "choose" => idx[t] \in Proc
    BY DEF AcquirePair
  <2>3. t \in Proc <=> l # "choose"
    BY <1>2, <2>1 DEF PlaceOK, AcquirePair
  <2>4. t \in Proc /\ l # "kill" => pc[t] \notin {"kill", "killnext"}
    BY <1>2, <2>1 DEF AcquirePair
  <2>5. l \in {"choose", "sleep", "slept", "sleeplk", "zombie", "kill"}
    BY <1>2 DEF AcquirePair
  <2> QED
    BY <2>1, <2>2, <2>3, <2>4, <2>5 DEF PlaceOK, LoopOK
<1> QED
  BY <1>1, <1>2

Acquiring(c) ==
  \/ scan(c) \/ kill_lock(c) \/ (\E q \in Proc : sys_kill(c, q)) \/ (\E k \in 1 .. MAXN : sys_sleep(c, k))
  \/ sleep(c) \/ relock(c) \/ exit(c) \/ trapend(c)
  \/ devintr(c) /\ c = 1
  \/ wakeup(c) /\ tidx[run[c]] \in Proc

LEMMA AcquireActs ==
  ASSUME IInv, NEW c \in CPU, Acquiring(c)
  PROVE  IInv'
<1>1. PICK l0 : At(c, l0)
  BY DEF Acquiring, scan, kill_lock, sys_kill, sys_sleep, sleep, relock, exit, trapend, devintr, wakeup
<1>2. PICK t \in Thread : t = run[c] /\ PlaceOK(t) /\ RunOK(c)
  BY <1>1, HereAt
<1>3. /\ pc[t] \in {"user", "relock", "slept", "usertrapret"} => t \in Proc
      /\ \A m : At(c, m) /\ m \notin TrapPlaces => pc[t] = m
      /\ \A m : At(c, m) /\ m \notin PcPlaces => pc[t] \in Plain
  BY <1>2, AtFacts DEF PlaceOK, IInv
<1>4. \E lk, m, l : At(c, m) /\ acquire(c, lk, l) /\ AcquirePair(t, lk, m, l) /\ (t \in Proc => LoopOK(t, l))
  <2>1. CASE (\E k \in 1 .. MAXN : sys_sleep(c, k)) \/ relock(c) \/ (devintr(c) /\ c = 1)
    BY SMTT(60), <2>1 DEF sys_sleep, relock, devintr, AcquirePair, LoopOK, procvars
  <2>2. CASE sleep(c) \/ exit(c)
    BY SMTT(60), <1>2, <1>3, <2>2 DEF sleep, exit, AcquirePair, TrapPlaces, LoopOK, procvars
  <2>3. CASE trapend(c)
    <3>1. pc[t] # "back"
      BY <1>3, <2>3 DEF trapend, PcPlaces, Plain
    <3>2. cur[c] = t /\ t \in Proc
      BY <1>2, <2>3, <3>1 DEF trapend, RunsProc, RunOK
    <3> QED
      BY SMTT(60), <2>3, <3>2 DEF trapend, AcquirePair, LoopOK, procvars
  <2>4. CASE scan(c) \/ (wakeup(c) /\ tidx[t] \in Proc)
    BY SMTT(60), <1>2, <2>4 DEF scan, wakeup, AcquirePair, LoopOK, procvars
  <2>5. CASE kill_lock(c)
    BY <1>2, <1>3, <2>5, KillIdx DEF kill_lock, AcquirePair, TrapPlaces, LoopOK, procvars
  <2>6. CASE \E q \in Proc : sys_kill(c, q)
    <3>1. PICK q \in Proc : sys_kill(c, q)
      BY <2>6
    <3>2. pc[t] = "user" /\ t \in Proc /\ idx[t] = 1 /\ 1 \in Proc /\ 1 <= q
      BY SMTT(60), <1>2, <1>3, <3>1, Sets, CpuConstants DEF sys_kill, TrapPlaces, PlaceOK, Proc
    <3>3. victim'[t] = q
      BY <1>2, <3>1, <3>2 DEF sys_kill, IInv, TypeInv, ProcType
    <3> QED
      BY <3>1, <3>2, <3>3 DEF sys_kill, AcquirePair, LoopOK
  <2> QED
    BY <1>2, <2>1, <2>2, <2>3, <2>4, <2>5, <2>6 DEF Acquiring
<1>5. PICK lk, m, l : At(c, m) /\ acquire(c, lk, l) /\ AcquirePair(t, lk, m, l) /\ (t \in Proc => LoopOK(t, l))
  BY <1>4
<1>6. idx' = idx /\ tidx' = tidx /\ cur' = cur /\ state' = state
  BY <1>5 DEF Acquiring, scan, kill_lock, sys_kill, sys_sleep, sleep, relock, exit, trapend, devintr, wakeup,
     acquire, procvars
<1>7. ProcType'
  <2>1. ProcType /\ saved' = saved
    BY <1>5 DEF IInv, TypeInv, acquire
  <2>2. CASE \E k \in 1 .. MAXN : sys_sleep(c, k)
    <3>1. PICK k \in 1 .. MAXN : sys_sleep(c, k)
      BY <2>2
    <3>2. k \in Nat
      BY SMTT(60), CpuConstants
    <3> QED
      BY <1>6, <2>1, <3>1, <3>2 DEF ProcType, sys_sleep
  <2>3. CASE \E q \in Proc : sys_kill(c, q)
    BY <1>6, <2>1, <2>3 DEF sys_kill, ProcType
  <2>4. CASE UNCHANGED procvars
    BY <2>1, <2>4 DEF procvars, ProcType
  <2> QED
    BY <2>2, <2>3, <2>4 DEF Acquiring, scan, kill_lock, sleep, relock, exit, trapend, devintr, wakeup
<1>8. \A p \in Proc : p # t => victim'[p] = victim[p]
  BY <1>2 DEF Acquiring, scan, kill_lock, sys_kill, sys_sleep, sleep, relock, exit, trapend, devintr, wakeup,
     procvars, IInv, TypeInv, ProcType
<1>9. lk \in Lock /\ Fits(t, l) /\ AcquireShape(t, lk, m, l)
  BY <1>2, <1>5, AcquireFits
<1>10. PlaceOK(t)'
  <2>1. GoesTo(t, l)
    BY <1>2, <1>5, <1>9, AcquireFacts DEF IInv
  <2> QED
    BY <1>2, <1>5, <1>6, <2>1, AcquirePlace
<1>11. OthersKept(c, t)
  BY <1>6, <1>8 DEF OthersKept
<1> QED
  BY <1>2, <1>5, <1>6, <1>7, <1>9, <1>10, <1>11, AcquireStep DEF AcquireHyp

\* The same for release(), with what becomes of the loop over the table.
ReleasePair(t, lk, l0, l) ==
  \/ lk = TICKS /\ ( \/ l0 = "wakeup" /\ l = "trapend"
                     \/ l0 = "slept" /\ l = "usertrapret"
                     \/ l0 = "sleeplk" /\ l = "sleeping" )
  \/ lk = t /\ t \in Proc /\ ( \/ l0 = "yielded" /\ l = "sret"
                               \/ l0 = "forkret" /\ l = "usertrapret"
                               \/ l0 = "woken" /\ l = "relock" )
  \/ lk = idx[t] /\ lk \in Proc /\ ( \/ l0 \in {"choose", "back"} /\ l = "scan"
                                     \/ l0 = "kill" /\ l \in {"usertrapret", "killnext"} )
  \/ lk = tidx[t] /\ lk \in Proc /\ l0 = "wake" /\ l = "wakeup"
LoopNext(t, l0, l) ==
  /\ l0 = "kill" /\ l = "usertrapret" => idx'[t] = 1
  /\ l = "killnext" => idx'[t] = idx[t] + 1 /\ idx[t] # victim[t] /\ victim'[t] = victim[t]
  /\ l0 # "kill" => idx'[t] = idx[t] /\ victim'[t] = victim[t]

LEMMA ReleaseFits ==
  ASSUME IInv, NEW c \in CPU, NEW t \in Thread, t = run[c], PlaceOK(t), NEW lk, NEW l0, NEW l, At(c, l0),
         ReleasePair(t, lk, l0, l)
  PROVE  lk \in Lock /\ Fits(t, l) /\ ReleaseShape(t, lk, l0, l)
<1>1. lk \in Lock /\ TICKS \notin Proc
  BY Sets DEF ReleasePair
<1>2. Fits(t, l)
  <2>1. l0 \in {"wakeup", "wake", "yielded"} => tpc[t] # "no"
    BY AtFacts DEF IInv, PcPlaces
  <2>2. l0 \notin {"wakeup", "wake", "yielded"} => tpc[t] = "no"
    BY AtFacts DEF IInv, TrapPlaces, ReleasePair
  <2> QED
    BY <2>1, <2>2 DEF Fits, ReleasePair, PcPlaces, TrapPlaces
<1>3. l0 = "sleeplk" => t \in Proc
  BY AtFacts DEF IInv, TrapPlaces, PlaceOK
<1>4. ReleaseShape(t, lk, l0, l)
  <2> USE DEF ReleaseShape, HasAt, DepthAt, TickPlaces, OwnPlaces, IdxPlaces, Outer, Inner
  <2>1. CASE lk = TICKS
    BY SMTT(60), <1>1, <1>3, <2>1 DEF ReleasePair
  <2>2. CASE lk # TICKS
    BY SMTT(60), <1>1, <2>2 DEF ReleasePair
  <2> QED
    BY <2>1, <2>2
<1> QED
  BY <1>1, <1>2, <1>4

LEMMA ReleasePlace ==
  ASSUME IInv, NEW c \in CPU, NEW t \in Thread, t = run[c], PlaceOK(t), NEW lk, NEW l0, NEW l, At(c, l0),
         ReleasePair(t, lk, l0, l), GoesTo(t, l), t \in Proc => LoopNext(t, l0, l),
         pc[t] \in Plain => idx'[t] = idx[t]
  PROVE  PlaceOK(t)'
<1>1. CASE l0 \in {"wakeup", "wake", "yielded"}
  <2>1. tpc[t] = l0 /\ tpc[t] # "no" /\ pc'[t] = pc[t] /\ tpc'[t] = l
    BY <1>1, AtFacts DEF IInv, PcPlaces, GoesTo
  <2>2. l \in {"trapend", "wakeup", "sret"} /\ (l = "sret" => t \in Proc) /\ l0 # "kill"
    BY <1>1 DEF ReleasePair
  <2>3. pc[t] \in Plain /\ idx'[t] = idx[t] /\ (t \in Proc => victim'[t] = victim[t])
    BY <2>1, <2>2 DEF LoopNext, PlaceOK
  <2> QED
    BY <2>1, <2>2, <2>3 DEF PlaceOK
<1>2. CASE l0 \notin {"wakeup", "wake", "yielded"}
  <2>1. tpc[t] = "no" /\ pc[t] = l0 /\ pc'[t] = l /\ tpc'[t] = "no"
    BY <1>2, AtFacts DEF IInv, TrapPlaces, ReleasePair, GoesTo
  <2>2. t \in Proc <=> l # "scan"
    BY <1>2, <2>1 DEF PlaceOK, ReleasePair
  <2>3. l \in {"scan", "usertrapret", "sleeping", "relock", "killnext"} /\ (l = "killnext" => l0 = "kill")
        /\ (l0 = "kill" => l \in {"usertrapret", "killnext"}) /\ l0 # "killnext"
    BY <1>2 DEF ReleasePair
  <2>4. CASE l = "killnext"
    <3>1. victim[t] \in Proc /\ idx[t] <= victim[t] /\ idx[t] \in Nat /\ t \in Proc
      BY <2>1, <2>2, <2>3, <2>4 DEF PlaceOK, IInv, TypeInv, ThreadType
    <3>2. victim[t] \in Nat /\ victim'[t] = victim[t] /\ idx'[t] = idx[t] + 1 /\ idx[t] # victim[t]
      BY <2>4, <3>1, Sets DEF LoopNext
    <3>3. victim'[t] \in Proc /\ idx'[t] <= victim'[t]
      BY SMTT(60), <3>1, <3>2
    <3> QED
      BY <2>1, <2>4, <3>1, <3>3 DEF PlaceOK
  <2>5. CASE l # "killnext"
    BY <2>1, <2>2, <2>3, <2>5 DEF PlaceOK, LoopNext
  <2> QED
    BY <2>4, <2>5
<1> QED
  BY <1>1, <1>2

Releasing(c) ==
  \/ next_proc(c) \/ wake(c) \/ yielded(c) \/ forkret(c) \/ sleep_over(c) \/ sleep_release(c) \/ woken(c)
  \/ kill(c) \/ kill_next(c)
  \/ wakeup(c) /\ tidx[run[c]] \notin Proc

LEMMA ReleaseActs ==
  ASSUME IInv, NEW c \in CPU, Releasing(c)
  PROVE  IInv'
<1>1. PICK l0 : At(c, l0)
  BY DEF Releasing, next_proc, wake, yielded, forkret, sleep_over, sleep_release, woken, kill, kill_next, wakeup
<1>2. PICK t \in Thread : t = run[c] /\ PlaceOK(t) /\ RunOK(c)
  BY <1>1, HereAt
<1>3. /\ \A m : At(c, m) /\ m \notin TrapPlaces => pc[t] = m /\ tpc[t] = "no"
      /\ \A m : At(c, m) /\ m \notin PcPlaces => tpc[t] = m
      /\ tpc[t] \in {"yielded"} => t \in Proc
      /\ tpc[t] = "wake" => tidx[t] \in Proc
      /\ tpc[t] = "no" /\ pc[t] \in {"forkret", "woken", "slept", "sleeplk"} => t \in Proc
      /\ pc[t] \in {"choose", "back"} => t \notin Proc /\ idx[t] \in Proc
      /\ pc[t] \in {"kill", "killnext"} => t \in Proc /\ idx[t] \in Proc
  BY <1>2, AtFacts, KillIdx DEF PlaceOK, IInv
<1>4. idx \in [Thread -> Nat \ {0}] /\ tidx \in [Thread -> Nat \ {0}] /\ cur \in [CPU -> Proc \cup {0}] /\ ProcType
  BY DEF IInv, TypeInv, CpuType, ThreadType
<1>5. \E lk, m, l :
        /\ At(c, m) /\ release(c, lk, l) /\ ReleasePair(t, lk, m, l) /\ (t \in Proc => LoopNext(t, m, l))
        /\ cur' = IF m = "back" THEN [cur EXCEPT ![c] = 0] ELSE cur
  <2>1. CASE (wakeup(c) /\ tidx[t] \notin Proc) \/ sleep_over(c) \/ sleep_release(c)
    BY SMTT(60), <1>2, <2>1 DEF wakeup, sleep_over, sleep_release, ReleasePair, LoopNext, procvars
  <2>2. CASE yielded(c) \/ forkret(c) \/ woken(c)
    BY <1>2, <1>3, <2>2 DEF yielded, forkret, woken, ReleasePair, LoopNext, procvars, PcPlaces, TrapPlaces
  <2>3. CASE wake(c)
    BY <1>2, <1>3, <2>3 DEF wake, ReleasePair, LoopNext, PcPlaces
  <2>4. CASE next_proc(c)
    BY <1>2, <1>3, <2>4 DEF next_proc, ReleasePair, TrapPlaces
  <2>5. CASE kill(c)
    BY <1>2, <1>3, <1>4, <2>5 DEF kill, ReleasePair, LoopNext, TrapPlaces
  <2>6. CASE kill_next(c)
    BY <1>2, <1>3, <1>4, <2>6 DEF kill_next, ReleasePair, LoopNext, TrapPlaces, procvars
  <2> QED
    BY <1>2, <2>1, <2>2, <2>3, <2>4, <2>5, <2>6 DEF Releasing
<1>6. PICK lk, m, l :
        /\ At(c, m) /\ release(c, lk, l) /\ ReleasePair(t, lk, m, l) /\ (t \in Proc => LoopNext(t, m, l))
        /\ cur' = IF m = "back" THEN [cur EXCEPT ![c] = 0] ELSE cur
  BY <1>5
<1>7. \E i, j \in Nat \ {0} :
        /\ idx' = [idx EXCEPT ![t] = i] /\ tidx' = [tidx EXCEPT ![t] = j] /\ (pc[t] \in Plain => i = idx[t])
  <2>1. 1 \in Nat \ {0} /\ idx[t] + 1 \in Nat \ {0} /\ tidx[t] + 1 \in Nat \ {0}
    BY SMTT(60), <1>4
  <2>2. idx = [idx EXCEPT ![t] = idx[t]] /\ tidx = [tidx EXCEPT ![t] = tidx[t]] /\ idx[t] \in Nat \ {0} /\ tidx[t] \in Nat \ {0}
    BY <1>4
  <2>3. CASE next_proc(c)
    BY <1>2, <1>3, <2>1, <2>2, <2>3 DEF next_proc, Plain, TrapPlaces
  <2>4. CASE kill(c)
    <3>1. pc[t] \notin Plain
      <4>1. At(c, "kill") /\ "kill" \notin TrapPlaces /\ "kill" \notin Plain
        BY <2>4 DEF kill, Plain, TrapPlaces
      <4> QED
        BY <1>3, <4>1
    <3>2. idx' = [idx EXCEPT ![t] = 1] /\ tidx' = tidx
      BY <1>2, <2>4 DEF kill
    <3> QED
      BY <2>1, <2>2, <3>1, <3>2
  <2>5. CASE kill_next(c)
    <3>1. pc[t] \notin Plain
      <4>1. At(c, "kill") /\ "kill" \notin TrapPlaces /\ "kill" \notin Plain
        BY <2>5 DEF kill_next, Plain, TrapPlaces
      <4> QED
        BY <1>3, <4>1
    <3>2. idx' = [idx EXCEPT ![t] = idx[t] + 1] /\ tidx' = tidx
      BY <1>2, <2>5 DEF kill_next
    <3> QED
      BY <2>1, <2>2, <3>1, <3>2
  <2>6. CASE wake(c)
    BY <1>2, <2>1, <2>2, <2>6 DEF wake
  <2> QED
    BY <1>2, <2>1, <2>2, <2>3, <2>4, <2>5, <2>6 DEF Releasing, yielded, forkret, sleep_over, sleep_release, woken, wakeup
<1>8. /\ idx' \in [Thread -> Nat \ {0}] /\ tidx' \in [Thread -> Nat \ {0}]
      /\ (\A u \in Thread : u # t => idx'[u] = idx[u] /\ tidx'[u] = tidx[u]) /\ (pc[t] \in Plain => idx'[t] = idx[t])
  BY <1>4, <1>7
<1>9. ProcType' /\ \A p \in Proc : p # t => victim'[p] = victim[p]
  <2>1. saved' = saved
    BY <1>6 DEF release
  <2>2. CASE kill(c)
    BY <1>2, <1>3, <1>4, <2>1, <2>2 DEF kill, ProcType, TrapPlaces
  <2>3. CASE wake(c) \/ sleep_over(c)
    BY SMTT(60), <1>2, <1>4, <2>1, <2>3 DEF wake, sleep_over, ProcType
  <2>4. CASE UNCHANGED procvars
    BY <1>4, <2>1, <2>4 DEF procvars, ProcType
  <2> QED
    BY <2>2, <2>3, <2>4
       DEF Releasing, next_proc, yielded, forkret, sleep_release, woken, kill_next, wakeup
<1>10. \A p \in Proc : state'[p] # state[p] => state[p] = "SLEEPING" /\ state'[p] = "RUNNABLE"
  BY SMTT(60), <1>4 DEF Releasing, next_proc, wake, yielded, forkret, sleep_over, sleep_release, woken, kill, kill_next,
     wakeup, procvars, ProcType
<1>11. /\ cur' \in [CPU -> Proc \cup {0}] /\ (m = "back" => cur'[c] = 0) /\ (m # "back" => cur'[c] = cur[c])
       /\ \A d \in CPU : d # c => cur'[d] = cur[d]
  BY <1>4, <1>6
<1>12. OthersKept(c, t)
  BY <1>8, <1>9, <1>10, <1>11 DEF OthersKept
<1>13. lk \in Lock /\ Fits(t, l) /\ ReleaseShape(t, lk, m, l)
  BY <1>2, <1>6, ReleaseFits
<1>14. PlaceOK(t)'
  <2>1. GoesTo(t, l)
    BY <1>2, <1>6, <1>11, <1>13, ReleaseFacts DEF IInv
  <2> QED
    BY <1>2, <1>6, <1>8, <2>1, ReleasePlace
<1> QED
  BY <1>2, <1>6, <1>8, <1>9, <1>11, <1>12, <1>13, <1>14, ReleaseStep DEF ReleaseHyp

\* The steps that leave the locks alone.
MovePair(l0, l) ==
  \/ l0 = "scheduler" /\ l = "scan"
  \/ l0 = "scan" /\ l = "scheduler"
  \/ l0 = "devintr" /\ l = "trapend"
  \/ l0 = "clockintr" /\ l = "wakeup"
  \/ l0 = "usertrapret" /\ l = "user"
  \/ l0 = "sleep" /\ l = "slept"
Moving(c) ==
  scheduler(c) \/ scan_end(c) \/ (devintr(c) /\ c # 1) \/ clockintr(c) \/ usertrapret(c) \/ sleep_start(c)

LEMMA MoveActs ==
  ASSUME IInv, NEW c \in CPU, Moving(c)
  PROVE  IInv'
<1>1. PICK l0, l :
        /\ At(c, l0) /\ Goto(run[c], l) /\ MovePair(l0, l)
        /\ sie' = IF l \in {"scan", "user"} THEN [sie EXCEPT ![c] = TRUE] ELSE sie
        /\ idx' = IF l = "scheduler" THEN [idx EXCEPT ![run[c]] = 1] ELSE idx
  BY SMTT(60) DEF Moving, scheduler, scan_end, devintr, clockintr, usertrapret, sleep_start, MovePair, cpuvars
<1>2. UNCHANGED <<noff, intena, owner, want, run, saved, cur, panicked, tidx, state, victim, killed, n>>
  BY DEF Moving, scheduler, scan_end, devintr, clockintr, usertrapret, sleep_start, cpuvars, procvars
<1>3. PICK t \in Thread : t = run[c] /\ PlaceOK(t) /\ RunOK(c) /\ Place(t) = l0
  BY <1>1, HereAt
<1>4. /\ l0 \in {"devintr", "clockintr"} => tpc[t] = l0 /\ tpc[t] # "no" /\ pc[t] \in Plain
      /\ l0 \notin {"devintr", "clockintr"} => tpc[t] = "no" /\ pc[t] = l0
  BY <1>1, <1>3, AtFacts DEF IInv, PcPlaces, TrapPlaces, MovePair, PlaceOK
<1>5. Fits(t, l)
  BY <1>1, <1>4 DEF Fits, MovePair, PcPlaces, TrapPlaces
<1>6. pc' \in [Thread -> PcPlaces] /\ tpc' \in [Thread -> TrapPlaces] /\ GoesTo(t, l) /\ Place(t)' = l
  BY <1>1, <1>3, <1>5, GotoFacts DEF IInv
<1>7. /\ idx' \in [Thread -> Nat \ {0}] /\ (l # "scheduler" => idx'[t] = idx[t])
      /\ \A u \in Thread : u # t => idx'[u] = idx[u]
  BY SMTT(60), <1>1, <1>3 DEF IInv, TypeInv, ThreadType
<1>8. /\ sie' \in [CPU -> BOOLEAN] /\ (l \in {"scan", "user"} => sie'[c] = TRUE) /\ (l \notin {"scan", "user"} => sie'[c] = sie[c])
      /\ \A d \in CPU : d # c => sie'[d] = sie[d]
  BY <1>1 DEF IInv, TypeInv, CpuType
<1>9. elapsed' \in [Proc -> Nat]
  BY SMTT(60), <1>2, <1>3 DEF Moving, scheduler, scan_end, devintr, clockintr, usertrapret, sleep_start, procvars, IInv, TypeInv, ProcType
<1>10. TypeInv'
  <2>1. CpuType'
    BY <1>2, <1>8 DEF IInv, TypeInv, CpuType
  <2>2. ProcType'
    BY <1>2, <1>9 DEF IInv, TypeInv, ProcType
  <2>3. ThreadType'
    BY <1>2, <1>6, <1>7 DEF IInv, TypeInv, ThreadType
  <2> QED
    BY <2>1, <2>2, <2>3 DEF TypeInv
<1>11. (\A m \in Lock : HasAt(t, l, m)' <=> HasAt(t, l0, m)) /\ DepthAt(l) = DepthAt(l0)
  BY <1>1 DEF MovePair, HasAt, DepthAt, TickPlaces, OwnPlaces, IdxPlaces
<1>12. IntrOK(c)'
  <2>1. IntrOK(c) /\ noff[c] = DepthAt(l0)
    BY <1>1, HereFacts
  <2>2. CASE l \in {"scan", "user"}
    <3>1. noff'[c] = 0 /\ tpc'[t] = "no" /\ pc'[t] = l
      BY <1>1, <1>2, <1>4, <1>6, <2>1, <2>2 DEF MovePair, DepthAt, TickPlaces, OwnPlaces, IdxPlaces, GoesTo
    <3> QED
      BY <1>2, <1>3, <1>8, <2>2, <3>1 DEF IntrOK, Inner
  <2>3. CASE l \notin {"scan", "user"}
    <3>1. tpc'[t] # "no" <=> tpc[t] # "no"
      BY <1>1, <1>4, <1>6, <2>3 DEF GoesTo, MovePair
    <3>2. tpc'[t] = "no" => pc'[t] \notin Outer /\ (pc'[t] \in Inner => pc[t] \in Inner)
      BY <1>1, <1>4, <1>6, <2>3 DEF GoesTo, MovePair, Outer, Inner
    <3> QED
      BY <1>2, <1>3, <1>8, <2>1, <2>3, <3>1, <3>2 DEF IntrOK
  <2> QED
    BY <2>2, <2>3
<1>13. pc[t] # "back" /\ pc'[t] # "back" /\ (pc'[t] \in {"kill", "killnext", "choose"} => pc[t] = pc'[t])
       /\ (pc[t] \in {"kill", "killnext"} => pc[t] = pc'[t])
  BY <1>1, <1>4, <1>6 DEF GoesTo, MovePair, Plain
<1>14. PlaceOK(t)'
  <2>1. /\ tpc'[t] # "no" => pc'[t] \in Plain /\ tpc'[t] \in {"trapend", "wakeup"}
        /\ pc'[t] \in {"scheduler", "scan", "choose", "back"} <=> pc[t] \in {"scheduler", "scan", "choose", "back"}
        /\ l = "scheduler" => pc[t] = "scan"
    BY <1>1, <1>4, <1>6 DEF GoesTo, MovePair, Plain
  <2> QED
    BY <1>2, <1>3, <1>7, <1>13, <2>1 DEF PlaceOK
<1>15. OthersKept(c, t) /\ \A u \in Thread : u # t => pc'[u] = pc[u] /\ tpc'[u] = tpc[u]
  BY <1>2, <1>6, <1>7 DEF OthersKept, GoesTo
<1> QED
  BY <1>1, <1>2, <1>3, <1>6, <1>8, <1>10, <1>11, <1>12, <1>13, <1>14, <1>15, MoveStep DEF MoveHyp

\* sret: back to a place without locks.
LEMMA SretStep ==
  ASSUME IInv, NEW c \in CPU, sret(c)
  PROVE  IInv'
<1>1. PICK l0 \in {"sret", "trapend"} : At(c, l0)
  BY DEF sret
<1>2. PICK t \in Thread : t = run[c] /\ PlaceOK(t) /\ RunOK(c) /\ tpc[t] # "no" /\ pc[t] \in Plain
  BY SMTT(60), <1>1, HereAt DEF PcPlaces
<1>3. /\ tpc' = [tpc EXCEPT ![t] = "no"] /\ sie' = [sie EXCEPT ![c] = TRUE]
      /\ UNCHANGED <<noff, intena, cur, run, owner, pc, want, idx, tidx, saved, procvars, panicked>>
  BY <1>2 DEF sret
<1>4. /\ tpc'[t] = "no" /\ Place(t)' = pc[t]
      /\ \A u \in Thread : u # t => tpc'[u] = tpc[u]
  BY <1>3 DEF IInv, TypeInv, ThreadType, Place
<1>5. TypeInv'
  BY <1>3 DEF IInv, TypeInv, CpuType, ThreadType, ProcType, TrapPlaces, procvars
<1>6. /\ \A m \in Lock : HasAt(t, pc[t], m)' <=> HasAt(t, l0, m)
      /\ DepthAt(pc[t]) = DepthAt(l0) /\ DepthAt(l0) = 0
  BY <1>1, <1>2, <1>3 DEF HasAt, DepthAt, TickPlaces, OwnPlaces, IdxPlaces, Plain
<1>7. noff[c] = 0
  BY <1>1, <1>6, HereFacts
<1>8. IntrOK(c)'
  BY <1>2, <1>3, <1>4, <1>7 DEF IntrOK, Plain, Inner, IInv, TypeInv, CpuType
<1>9. PlaceOK(t)' /\ pc[t] # "back" /\ pc'[t] # "back"
  BY <1>2, <1>3, <1>4 DEF PlaceOK, Plain, procvars
<1>10. OthersKept(c, t) /\ \A d \in CPU : d # c => sie'[d] = sie[d]
  BY <1>3 DEF OthersKept, procvars, IInv, TypeInv, CpuType
<1>11. PICK l : l = pc[t]
  OBVIOUS
<1> QED
  BY <1>1, <1>2, <1>3, <1>4, <1>5, <1>6, <1>8, <1>9, <1>10, <1>11, MoveStep DEF MoveHyp

-----------------------------------------------------------------------------
\* A context switch on c between p and the scheduler thread s; only the thread
\* that was running moves on.
SwitchFrame(c, s, p) ==
  /\ UNCHANGED <<sie, noff, owner, want, idx, tidx, victim>>
  /\ s = Sched(c) /\ ~panicked'
  /\ \A u \in Thread : u # s /\ u # p => pc'[u] = pc[u] /\ tpc'[u] = tpc[u]
  /\ \A q \in Proc : q # p => saved'[q] = saved[q] /\ state'[q] = state[q]
  /\ \A d \in CPU : d # c => run'[d] = run[d] /\ cur'[d] = cur[d] /\ intena'[d] = intena[d]

LEMMA SwitchStep ==
  ASSUME IInv, TypeInv', NEW c \in CPU, NEW s \in Thread, NEW p \in Proc, SwitchFrame(c, s, p),
         \A d \in CPU : d # c => run[d] # p, run'[c] \in {s, p},
         CpuOK(c)', ThreadOK(s)', ThreadOK(p)'
  PROVE  IInv'
<1>1. ASSUME NEW d \in CPU, d # c PROVE CpuOK(d)' /\ run'[d] # run'[c]
  <2>1. PICK u \in Thread, v \in Thread : u = run[d] /\ v = Sched(d)
    BY Sets DEF IInv, TypeInv, CpuType
  <2>2. CpuOK(d) /\ u # p /\ run'[d] = u
    BY <1>1, <2>1 DEF IInv, SwitchFrame
  <2>3. u # s /\ v # s /\ v # p
    <3>1. s = Sched(c) /\ RunOK(d)
      BY <2>2 DEF SwitchFrame, CpuOK
    <3>2. v # s /\ v \notin Proc /\ s \notin Proc
      BY <1>1, <2>1, <3>1, Sets
    <3>3. u \in Proc \/ u = v
      BY <2>1, <3>1 DEF RunOK
    <3> QED
      BY <3>2, <3>3
  <2>4. Same(u) /\ Same(v) /\ SameCpu(d)
    BY <1>1, <2>2, <2>3 DEF SwitchFrame, Same, SameCpu
  <2>5. u \in Proc => state'[u] = state[u]
    BY <2>2 DEF SwitchFrame
  <2>6. CpuOK(d)'
    BY <2>1, <2>2, <2>4, <2>5, CpuKept
  <2> QED
    BY <2>2, <2>3, <2>6
<1>2. ASSUME NEW u \in Thread, u # s, u # p PROVE ThreadOK(u)'
  <2>1. ThreadOK(u) /\ Same(u) /\ (u \in Proc => victim'[u] = victim[u] /\ saved'[u] = saved[u] /\ state'[u] = state[u])
    BY <1>2 DEF IInv, SwitchFrame, Same
  <2> QED
    BY <2>1, ThreadKept
<1>3. ASSUME NEW d \in CPU, NEW e \in CPU, d # e PROVE run'[d] # run'[e]
  <2>1. CASE d # c /\ e # c
    <3>1. run'[d] = run[d] /\ run'[e] = run[e]
      BY <2>1 DEF SwitchFrame
    <3> QED
      BY <1>3, <3>1 DEF IInv
  <2> QED
    BY <1>1, <1>3, <2>1
<1> QED
  BY <1>1, <1>2, <1>3 DEF IInv, SwitchFrame

\* scheduler() gives c to a runnable process.
LEMMA ChooseStep ==
  ASSUME IInv, NEW c \in CPU, choose(c)
  PROVE  IInv'
<1>1. PICK s \in Thread : s = run[c] /\ PlaceOK(s) /\ RunOK(c) /\ tpc[s] = "no" /\ pc[s] = "choose" /\ want[s] = None
  <2>1. At(c, "choose") /\ "choose" \notin TrapPlaces
    BY DEF choose, TrapPlaces
  <2>2. PlaceOK(run[c]) /\ RunOK(c) /\ want[run[c]] = None
    BY <2>1, HereFacts DEF ThreadOK
  <2>3. run[c] \in Thread /\ tpc[run[c]] = "no" /\ pc[run[c]] = "choose"
    BY <2>1, AtFacts DEF IInv
  <2> QED
    BY <2>2, <2>3
<1>2. PICK p \in Proc : p = idx[s] /\ s \notin Proc /\ s = Sched(c) /\ s # p
  BY <1>1 DEF PlaceOK, RunOK
<1>3. /\ state[p] = "RUNNABLE" /\ state' = [state EXCEPT ![p] = "RUNNING"]
      /\ cur' = [cur EXCEPT ![c] = p] /\ run' = [run EXCEPT ![c] = p]
      /\ pc' = [pc EXCEPT ![s] = "back"] /\ tpc' = tpc
      /\ intena' = IF pc[p] = "forkret" THEN intena ELSE [intena EXCEPT ![c] = saved[p]]
      /\ saved' = [saved EXCEPT ![p] = FALSE]
      /\ UNCHANGED <<sie, noff, owner, want, idx, tidx, killed, n, victim, elapsed, panicked>>
  BY <1>1, <1>2 DEF choose, Goto
<1>4. TypeInv'
  <2>1. CpuType'
    BY <1>3, Sets DEF IInv, TypeInv, CpuType, ProcType
  <2>2. ThreadType' /\ ProcType'
    BY <1>3 DEF IInv, TypeInv, ThreadType, ProcType, PcPlaces
  <2> QED
    BY <2>1, <2>2 DEF TypeInv
<1>5. WaitOK(p) /\ PlaceOK(p) /\ p \in Thread
  BY Sets DEF IInv, ThreadOK
<1>6. want[p] = None /\ Place(p) \in {"forkret", "yielded", "woken"}
  BY <1>3, <1>5 DEF WaitOK
<1>7. /\ pc'[s] = "back" /\ pc'[p] = pc[p] /\ run'[c] = p /\ cur'[c] = p /\ state'[p] = "RUNNING"
      /\ (pc[p] # "forkret" => intena'[c] = saved[p])
  BY <1>2, <1>3, <1>5 DEF IInv, TypeInv, CpuType, ThreadType, ProcType
<1>8. \A d \in CPU : d # c => run[d] # p
  BY <1>3 DEF IInv, CpuOK, RunOK
<1>9. SwitchFrame(c, s, p)
  BY <1>2, <1>3 DEF SwitchFrame, IInv, TypeInv, CpuType, ThreadType, ProcType
<1>10. noff[c] = 1 /\ \A m \in Lock : owner[m] = c <=> m = p
  <2>1. At(c, "choose")
    BY DEF choose
  <2>2. noff[c] = DepthAt("choose") /\ \A m \in Lock : owner[m] = c <=> HasAt(s, "choose", m)
    BY <1>1, <2>1, HereFacts
  <2> QED
    BY <1>1, <1>2, <2>2 DEF HasAt, DepthAt, TickPlaces, OwnPlaces, IdxPlaces
<1>11. LocksOK(c)' /\ WantOK(c)'
  <2>1. Place(p)' = Place(p) /\ DepthAt(Place(p)) = 1 /\ \A m : HasAt(p, Place(p), m)' <=> m = p
    BY <1>3, <1>6, <1>7 DEF Place, HasAt, DepthAt, TickPlaces, OwnPlaces, IdxPlaces
  <2>2. None \notin Lock
    BY Sets
  <2>3. noff'[c] = noff[c] /\ owner' = owner /\ want' = want
    BY <1>3
  <2> QED
    BY <1>6, <1>7, <1>10, <2>1, <2>2, <2>3 DEF LocksOK, WantOK
<1>12. IntrOK(c)'
  <2>1. ~sie[c]
    <3>1. sie[c] => noff[c] = 0
      BY DEF IInv, CpuOK, IntrOK
    <3>2. 1 # 0
      BY SMTT(60)
    <3> QED
      BY <1>10, <3>1, <3>2
  <2>2. tpc[p] # "no" => ~intena'[c]
    BY <1>3, <1>5, <1>7 DEF WaitOK, PlaceOK, Plain
  <2>3. tpc[p] = "no" => pc[p] \notin Outer /\ (pc[p] \in Inner => intena'[c])
    BY <1>3, <1>5, <1>6, <1>7 DEF WaitOK, Place, Outer, Inner
  <2> QED
    BY <1>3, <1>7, <2>1, <2>2, <2>3 DEF IntrOK
<1>13. RunOK(c)'
  BY <1>1, <1>2, <1>3, <1>7 DEF RunOK
<1>14. ThreadOK(s)' /\ ThreadOK(p)'
  BY <1>1, <1>2, <1>3, <1>5, <1>7 DEF ThreadOK, PlaceOK, WaitOK
<1> QED
  BY <1>4, <1>7, <1>8, <1>9, <1>11, <1>12, <1>13, <1>14, SwitchStep DEF CpuOK

\* yield(), sleep() and exit() give it back.
LEMMA SchedStep ==
  ASSUME IInv, NEW c \in CPU, NEW l0, NEW l, NEW st, At(c, l0), sched(c, l),
         <<l0, l, st>> \in {<<"yield", "yielded", "RUNNABLE">>, <<"sleeping", "woken", "SLEEPING">>,
                            <<"zombie", "dead", "ZOMBIE">>},
         state' = [state EXCEPT ![run[c]] = st], UNCHANGED <<killed, n, victim, elapsed>>
  PROVE  IInv'
<1>1. PICK p \in Thread : p = run[c] /\ PlaceOK(p) /\ RunOK(c) /\ Place(p) = l0 /\ want[p] = None
  BY HereFacts DEF ThreadOK
<1>2. l0 \in {"yield", "sleeping", "zombie"} /\ l \in {"yielded", "woken", "dead"} /\ st \in {"RUNNABLE", "SLEEPING", "ZOMBIE"}
  OBVIOUS
<1>3. p \in Proc /\ Fits(p, l)
  <2>1. tpc[p] \in TrapPlaces /\ pc[p] \in PcPlaces
    BY DEF IInv, TypeInv, ThreadType
  <2>2. p \in Proc
    BY <1>1, <1>2, <2>1 DEF PlaceOK, Place, TrapPlaces
  <2> QED
    BY <1>1, <2>1, <2>2 DEF Place, PlaceOK, Fits, PcPlaces, TrapPlaces, Plain
<1>4. PICK s \in Thread : /\ s = Sched(c) /\ s \notin Proc
                          /\ pc[s] = "back" /\ tpc[s] = "no" /\ want[s] = None /\ idx[s] = p /\ cur[c] = p
  BY <1>1, <1>3, Sets DEF RunOK
<1>5. /\ Goto(p, l) /\ saved' = [saved EXCEPT ![p] = intena[c]] /\ run' = [run EXCEPT ![c] = s]
      /\ panicked' = (owner[p] # c \/ noff[c] # 1 \/ state'[p] = "RUNNING" \/ sie[c])
      /\ UNCHANGED <<sie, noff, intena, owner, want, cur, idx, tidx>>
      /\ state' = [state EXCEPT ![p] = st]
  BY <1>1, <1>4 DEF sched, holding, cpuvars
<1>6. /\ pc' \in [Thread -> PcPlaces] /\ tpc' \in [Thread -> TrapPlaces] /\ GoesTo(p, l) /\ Place(p)' = l
  BY <1>3, <1>5, GotoFacts DEF IInv
<1>7. TypeInv'
  <2>1. CpuType' /\ ThreadType'
    BY <1>5, <1>6 DEF IInv, TypeInv, CpuType, ThreadType
  <2>2. ProcType'
    BY <1>2, <1>3, <1>5 DEF IInv, TypeInv, CpuType, ProcType
  <2> QED
    BY <2>1, <2>2 DEF TypeInv
<1>8. noff[c] = 1 /\ \A m \in Lock : owner[m] = c <=> m = p
  <2>1. noff[c] = DepthAt(l0) /\ \A m \in Lock : owner[m] = c <=> HasAt(p, l0, m)
    BY <1>1, HereFacts
  <2> QED
    BY <1>2, <2>1 DEF HasAt, DepthAt, TickPlaces, OwnPlaces, IdxPlaces
<1>9. IntrOK(c) /\ ~sie[c]
  <2>1. IntrOK(c)
    BY HereFacts
  <2>2. sie[c] => noff[c] = 0
    BY <2>1 DEF IntrOK
  <2>3. 1 # 0
    BY SMTT(60)
  <2> QED
    BY <1>8, <2>1, <2>2, <2>3
<1>10. run'[c] = s /\ state'[p] = st /\ saved'[p] = intena[c] /\ owner[p] = c
  BY <1>3, <1>5, <1>8, Sets DEF IInv, TypeInv, CpuType, ProcType
<1>11. SwitchFrame(c, s, p)
  <2>1. ~panicked'
    BY <1>2, <1>5, <1>8, <1>9, <1>10
  <2> QED
    BY <1>4, <1>5, <1>6, <2>1 DEF SwitchFrame, GoesTo, IInv, TypeInv, CpuType, ProcType
<1>12. pc'[s] = "back" /\ tpc'[s] = "no" /\ s # p
  BY <1>3, <1>4, <1>6 DEF GoesTo
<1>13. LocksOK(c)' /\ WantOK(c)'
  <2>1. Place(s)' = "back" /\ DepthAt("back") = 1 /\ \A m : HasAt(s, "back", m)' <=> m = p
    BY <1>4, <1>5, <1>12 DEF Place, HasAt, DepthAt, TickPlaces, OwnPlaces, IdxPlaces
  <2>2. None \notin Lock
    BY Sets
  <2>3. noff'[c] = noff[c] /\ owner' = owner /\ want' = want
    BY <1>5
  <2> QED
    BY <1>4, <1>8, <1>10, <2>1, <2>2, <2>3 DEF LocksOK, WantOK
<1>14. IntrOK(c)' /\ RunOK(c)'
  BY <1>4, <1>5, <1>9, <1>10, <1>12 DEF IntrOK, RunOK
<1>15. ThreadOK(s)'
  BY <1>1, <1>3, <1>4, <1>5, <1>12 DEF ThreadOK, PlaceOK
<1>16. ThreadOK(p)'
  <2>1. PlaceOK(p)'
    BY <1>1, <1>2, <1>3, <1>5, <1>6 DEF PlaceOK, Place, GoesTo, Plain
  <2>2. CASE st = "RUNNABLE"
    <3>1. l = "yielded" /\ tpc[p] = "yield" /\ ~intena[c] /\ pc[p] \in Plain
      BY SMTT(60), <1>1, <1>8, <1>9, <2>2 DEF Place, IntrOK, PlaceOK, PcPlaces, IInv, TypeInv, ThreadType
    <3> QED
      BY <1>1, <1>5, <1>6, <1>10, <2>1, <2>2, <3>1 DEF ThreadOK, WaitOK, GoesTo, Plain
  <2>3. CASE st = "SLEEPING"
    <3>1. l = "woken" /\ tpc[p] = "no" /\ intena[c]
      BY <1>1, <1>3, <1>9, <2>3 DEF Place, IntrOK, Inner, TrapPlaces, IInv, TypeInv, ThreadType
    <3> QED
      BY <1>1, <1>5, <1>6, <1>10, <2>1, <2>3, <3>1 DEF ThreadOK, WaitOK, GoesTo
  <2>4. CASE st = "ZOMBIE"
    BY <1>10, <2>1, <2>4 DEF ThreadOK, WaitOK
  <2> QED
    BY <1>2, <2>2, <2>3, <2>4
<1>17. \A d \in CPU : d # c => run[d] # p
  BY <1>1 DEF IInv
<1> QED
  BY <1>3, <1>7, <1>10, <1>11, <1>13, <1>14, <1>15, <1>16, <1>17, SwitchStep DEF CpuOK

\* The test-and-set that finds a lock free.
LEMMA SpinStep ==
  ASSUME IInv, NEW c \in CPU, spin(c)
  PROVE  IInv'
<1>1. PICK t \in Thread : t = run[c] /\ CpuOK(c) /\ ThreadOK(t)
  BY DEF IInv, TypeInv, CpuType
<1>2. PICK lk \in Lock : lk = want[t] /\ lk # None
  BY <1>1 DEF spin, IInv, TypeInv, ThreadType
<1>3. /\ owner[lk] = 0 /\ owner' = [owner EXCEPT ![lk] = c] /\ want' = [want EXCEPT ![t] = None]
      /\ UNCHANGED <<cpuvars, procvars, cur, run, pc, tpc, idx, tidx, saved, panicked>>
  BY <1>1, <1>2 DEF spin
<1>4. TypeInv'
  BY <1>3 DEF IInv, TypeInv, CpuType, ThreadType, ProcType, cpuvars, procvars
<1>5. owner'[lk] = c /\ \A m \in Lock : m # lk => owner'[m] = owner[m]
  BY <1>3 DEF IInv, TypeInv, CpuType
<1>6. want'[t] = None /\ \A u \in Thread : u # t => want'[u] = want[u]
  BY <1>3 DEF IInv, TypeInv, ThreadType
<1>7. Frame(c, t)
  BY <1>3, <1>5, <1>6 DEF Frame, cpuvars, procvars
<1>8. LocksOK(c)'
  <2>1. HasAt(t, Place(t), lk) /\ noff[c] = DepthAt(Place(t))
    BY <1>1, <1>2 DEF CpuOK, WantOK, LocksOK
  <2>2. \A m \in Lock : owner'[m] = c <=> HasAt(t, Place(t), m)
    BY <1>1, <1>2, <1>5, <2>1 DEF CpuOK, LocksOK
  <2>3. None \notin Lock
    BY Sets
  <2> QED
    BY SMTT(60), <1>1, <1>3, <1>6, <2>1, <2>2, <2>3 DEF LocksOK, HasAt, Place, cpuvars
<1>9. WantOK(c)' /\ IntrOK(c)'
  BY <1>1, <1>3, <1>6 DEF WantOK, IntrOK, CpuOK, cpuvars
<1>10. RunOK(c)'
  <2>1. t \in Proc => want'[Sched(c)] = want[Sched(c)]
    BY <1>6, Sets
  <2> QED
    BY <1>1, <1>3, <2>1 DEF RunOK, CpuOK, procvars
<1>11. PlaceOK(t)' /\ ~panicked'
  BY <1>1, <1>3 DEF ThreadOK, PlaceOK, procvars, IInv
<1> QED
  BY <1>1, <1>4, <1>7, <1>8, <1>9, <1>10, <1>11, FrameStep DEF CpuOK

\* An interrupt finds no lock held.
LEMMA InterruptStep ==
  ASSUME IInv, NEW c \in CPU, interrupt(c)
  PROVE  IInv'
<1>1. PICK t \in Thread : t = run[c] /\ CpuOK(c) /\ ThreadOK(t)
  BY DEF IInv, TypeInv, CpuType
<1>2. /\ tpc' = [tpc EXCEPT ![t] = "devintr"] /\ sie' = [sie EXCEPT ![c] = FALSE]
      /\ panicked' = (tpc[t] # "no") /\ sie[c]
      /\ UNCHANGED <<noff, intena, cur, run, owner, pc, want, idx, tidx, saved, procvars>>
  BY <1>1 DEF interrupt
<1>3. tpc[t] = "no" /\ noff[c] = 0 /\ DepthAt(pc[t]) = 0 /\ Place(t) = pc[t] /\ ~panicked'
  BY <1>1, <1>2 DEF CpuOK, IntrOK, LocksOK, Place
<1>4. pc[t] \in Plain
  BY SMTT(60), <1>3 DEF IInv, TypeInv, ThreadType, PcPlaces, DepthAt, TickPlaces, OwnPlaces, IdxPlaces, Plain
<1>5. TypeInv'
  BY <1>2 DEF IInv, TypeInv, CpuType, ThreadType, ProcType, TrapPlaces, procvars
<1>6. tpc'[t] = "devintr" /\ ~sie'[c] /\ \A u \in Thread : u # t => tpc'[u] = tpc[u]
  BY <1>2 DEF IInv, TypeInv, CpuType, ThreadType
<1>7. Frame(c, t)
  <2>1. \A d \in CPU : d # c => sie'[d] = sie[d]
    BY <1>2 DEF IInv, TypeInv, CpuType
  <2> QED
    BY <1>2, <1>6, <2>1 DEF Frame, procvars
<1>8. \A m : ~HasAt(t, pc[t], m) /\ ~HasAt(t, "devintr", m)'
  BY <1>4 DEF HasAt, Plain, TickPlaces, OwnPlaces, IdxPlaces
<1>9. Place(t)' = "devintr" /\ DepthAt("devintr") = 0
  BY <1>6 DEF Place, DepthAt, TickPlaces, OwnPlaces, IdxPlaces
<1>10. want[t] = None /\ \A m \in Lock : owner[m] # c
  BY <1>1, <1>3, <1>8 DEF CpuOK, LocksOK, WantOK
<1>11. LocksOK(c)' /\ WantOK(c)'
  BY <1>1, <1>2, <1>3, <1>8, <1>9, <1>10 DEF LocksOK, WantOK, HasAt
<1>12. IntrOK(c)'
  BY <1>1, <1>2, <1>3, <1>6 DEF IntrOK
<1>13. RunOK(c)'
  <2>1. t \in Proc => tpc'[Sched(c)] = tpc[Sched(c)]
    BY <1>6, Sets
  <2> QED
    BY <1>1, <1>2, <2>1 DEF RunOK, CpuOK, procvars
<1>14. PlaceOK(t)'
  BY <1>1, <1>2, <1>4, <1>6 DEF ThreadOK, PlaceOK, procvars
<1> QED
  BY <1>1, <1>3, <1>5, <1>7, <1>11, <1>12, <1>13, <1>14, FrameStep DEF CpuOK

LEMMA InvInit == Init => IInv
<1> SUFFICES ASSUME Init PROVE IInv
    OBVIOUS
<1>1. TypeInv
  BY SMTT(60), Sets DEF Init, TypeInv, CpuType, ThreadType, ProcType, PcPlaces, TrapPlaces
<1>2. ASSUME NEW c \in CPU PROVE CpuOK(c)
  <2>1. PICK t \in Thread : t = Sched(c) /\ t \notin Proc
    BY Sets
  <2>2. run[c] = t /\ pc[t] = "scheduler" /\ tpc[t] = "no" /\ want[t] = None /\ cur[c] = 0 /\ noff[c] = 0 /\ ~sie[c]
    BY <2>1 DEF Init
  <2>3. LocksOK(c) /\ WantOK(c)
    BY <2>2, Sets DEF Init, LocksOK, WantOK, HasAt, DepthAt, Place, TickPlaces, OwnPlaces, IdxPlaces
  <2> QED
    BY <2>1, <2>2, <2>3 DEF CpuOK, IntrOK, RunOK
<1>3. ASSUME NEW t \in Thread PROVE ThreadOK(t)
  BY Sets DEF Init, ThreadOK, PlaceOK, WaitOK, Place
<1>4. \A c, d \in CPU : run[c] = run[d] => c = d
  BY Sets DEF Init
<1> QED
  BY <1>1, <1>2, <1>3, <1>4 DEF Init, IInv

LEMMA InvStep ==
  ASSUME IInv, [Next]_vars
  PROVE  IInv'
<1>1. CASE UNCHANGED vars
  <2>1. UNCHANGED <<sie, noff, intena, cur, run, owner>> /\ UNCHANGED <<pc, tpc, want, idx, tidx>>
        /\ UNCHANGED <<saved, state, killed, n, elapsed, victim, panicked>>
    BY <1>1 DEF vars
  <2>2. TypeInv'
    BY <2>1 DEF IInv, TypeInv, CpuType, ThreadType, ProcType
  <2>3. ASSUME NEW c \in CPU PROVE CpuOK(c)'
    <3>1. PICK u \in Thread, v \in Thread : u = run[c] /\ v = Sched(c)
      BY Sets DEF IInv, TypeInv, CpuType
    <3>2. CpuOK(c) /\ Same(u) /\ Same(v) /\ SameCpu(c) /\ run'[c] = u /\ (u \in Proc => state'[u] = state[u])
      BY <2>1, <3>1 DEF IInv, Same, SameCpu
    <3> QED
      BY <3>1, <3>2, CpuKept
  <2>4. \A t \in Thread : ThreadOK(t)'
    BY <2>1 DEF IInv, ThreadOK, PlaceOK, WaitOK, Place
  <2> QED
    BY <2>1, <2>2, <2>3, <2>4 DEF IInv
<1>2. CASE Next
  <2>1. PICK c \in CPU :
          \/ Acquiring(c) \/ Releasing(c) \/ Moving(c) \/ spin(c) \/ interrupt(c) \/ sret(c) \/ choose(c)
          \/ yield(c) \/ sleep_sched(c) \/ zombie(c)
    BY <1>2 DEF Next, Acquiring, Releasing, Moving
  <2>2. CASE Acquiring(c) \/ Releasing(c) \/ Moving(c)
    BY <2>2, AcquireActs, ReleaseActs, MoveActs
  <2>3. CASE spin(c) \/ interrupt(c) \/ sret(c) \/ choose(c)
    BY <2>3, SpinStep, InterruptStep, SretStep, ChooseStep
  <2>4. CASE yield(c) \/ sleep_sched(c) \/ zombie(c)
    BY <2>4, SchedStep DEF yield, sleep_sched, zombie
  <2> QED
    BY <2>1, <2>2, <2>3, <2>4
<1> QED
  BY <1>1, <1>2

\* No panic() of spinlock.c or of sched() is reached, by any number of
\* processors and processes: no lock is acquired twice, and a process gives up
\* its processor with interrupts off and holding only its own lock.
THEOREM CpuNoPanic == Spec => []NoPanic
<1>1. IInv => NoPanic
  BY DEF IInv, NoPanic
<1> QED
  BY <1>1, InvInit, InvStep, PTL DEF Spec

\* A processor that spins for a lock and holds another holds tickslock, and
\* wants the lock of a process: wakeup() and sleep() take them in this order.
LEMMA LockOrder ==
  ASSUME IInv, NEW d \in CPU, NEW lk \in Lock, owner[lk] = d, want[run[d]] # None
  PROVE  lk = TICKS /\ want[run[d]] # TICKS /\ want[run[d]] \in Lock
<1>1. PICK t \in Thread : t = run[d]
  BY DEF IInv, TypeInv, CpuType
<1>2. LocksOK(d) /\ WantOK(d) /\ want[t] \in Lock
  BY <1>1 DEF IInv, CpuOK, TypeInv, ThreadType
<1>3. /\ HasAt(t, Place(t), lk) /\ HasAt(t, Place(t), want[t]) /\ want[t] # lk
      /\ Place(t) \in {"wake", "sleeplk"} => want[t] # TICKS
  BY <1>1, <1>2 DEF LocksOK, WantOK
<1>4. PICK l : l = Place(t)
  OBVIOUS
<1>5. l \in {"wake", "sleeplk"}
  BY <1>3, <1>4 DEF HasAt, TickPlaces, OwnPlaces, IdxPlaces
<1> QED
  BY <1>1, <1>2, <1>3, <1>4, <1>5 DEF HasAt, TickPlaces, OwnPlaces, IdxPlaces

\* Spin locks are never waited for in a circle, by any number of processors:
\* tickslock comes before the locks of processes, and nobody takes the lock of
\* a process while holding that of another.
THEOREM CpuNoSpinDeadlock == Spec => []NoSpinDeadlock
<1>1. IInv => NoSpinDeadlock
  <2> SUFFICES ASSUME IInv, NEW C \in (SUBSET CPU) \ {{}},
                      \A c \in C : want[run[c]] # None /\ owner[want[run[c]]] \in C
               PROVE  FALSE
    BY DEF NoSpinDeadlock
  <2>1. \A c \in C : want[run[c]] \in Lock
    BY SMTT(60) DEF IInv, TypeInv, CpuType, ThreadType
  <2>2. PICK c : c \in C
    <3>1. C # {}
      OBVIOUS
    <3> QED
      BY <3>1
  <2>3. PICK d \in C : owner[want[run[c]]] = d
    BY <2>2
  <2>4. want[run[d]] # TICKS
    BY SMTT(60), <2>1, <2>3, LockOrder
  <2>5. PICK b \in C : owner[want[run[d]]] = b
    BY <2>3
  <2> QED
    BY <2>1, <2>4, <2>5, LockOrder
<1> QED
  BY <1>1, InvInit, InvStep, PTL DEF Spec

-----------------------------------------------------------------------------
(* No tick is lost: what it takes beyond IInv.                              *)

\* Some processor is in wakeup(&ticks) and has not passed p.
Waking(p) == \E c \in CPU : tpc[run[c]] \in {"wakeup", "wake"} /\ tidx[run[c]] <= p

\* The loop of wakeup() starts from the first process.  A process on its way
\* into sleep() runs and has time left up to the release of tickslock; from
\* then on it has, or some processor will come to it.
LoopTick(t) == tpc[t] \notin {"wakeup", "wake"} => tidx[t] = 1
ProcTick(p) ==
  /\ pc[p] = "sleeplk" => elapsed[p] < n[p]
  /\ pc[p] = "sleeping" => want[p] = None
  /\ pc[p] \in {"sleeplk", "sleeping"} => \E c \in CPU : run[c] = p
  /\ (pc[p] = "sleeping" \/ state[p] = "SLEEPING") /\ elapsed[p] >= n[p] => Waking(p)
TInv == (\A t \in Thread : LoopTick(t)) /\ (\A p \in Proc : ProcTick(p))
TickInv == IInv /\ TInv

\* A step of c that leaves the other threads alone, in no loop of wakeup().
Apart(c, t) ==
  /\ \A u \in Thread : u # t => pc'[u] = pc[u] /\ tpc'[u] = tpc[u] /\ want'[u] = want[u] /\ tidx'[u] = tidx[u]
  /\ \A d \in CPU : d # c => run'[d] = run[d]
  /\ \A p \in Proc : p # t =>
       elapsed'[p] = elapsed[p] /\ n'[p] = n[p] /\ (state'[p] = "SLEEPING" => state[p] = "SLEEPING")
Aside(c, t) ==
  /\ Apart(c, t) /\ tidx'[t] = tidx[t]
  /\ tpc[t] \notin {"wakeup", "wake"} /\ tpc'[t] \notin {"wakeup", "wake"}

LEMMA WakingKept ==
  ASSUME IInv, NEW c \in CPU, NEW t, t = run[c], Aside(c, t), NEW p \in Proc, Waking(p)
  PROVE  Waking(p)'
<1>1. PICK d \in CPU : tpc[run[d]] \in {"wakeup", "wake"} /\ tidx[run[d]] <= p
  BY DEF Waking
<1>2. PICK u \in Thread : u = run[d]
  BY DEF IInv, TypeInv, CpuType
<1>3. d # c /\ u # t /\ run'[d] = u
  BY <1>1, <1>2 DEF Aside, Apart, IInv
<1> QED
  BY SMTT(60), <1>1, <1>2, <1>3 DEF Waking, Aside, Apart

LEMMA OthersTick ==
  ASSUME NEW c \in CPU, NEW t, t = run[c], Apart(c, t), NEW p \in Proc, p # t, p \in Thread, ProcTick(p),
         Waking(p) => Waking(p)'
  PROVE  ProcTick(p)'
<1>1. pc'[p] = pc[p] /\ want'[p] = want[p] /\ elapsed'[p] = elapsed[p] /\ n'[p] = n[p]
      /\ (state'[p] = "SLEEPING" => state[p] = "SLEEPING")
  BY DEF Apart
<1>2. pc[p] \in {"sleeplk", "sleeping"} => \E d \in CPU : run'[d] = p
  BY DEF Apart, ProcTick
<1> QED
  BY <1>1, <1>2 DEF ProcTick

LEMMA AsideTick ==
  ASSUME TickInv, NEW c \in CPU, NEW t \in Thread, t = run[c], Aside(c, t), t \in Proc => ProcTick(t)'
  PROVE  TInv'
<1>1. ASSUME NEW u \in Thread PROVE LoopTick(u)'
  <2>1. LoopTick(u)
    BY DEF TickInv, TInv
  <2> QED
    BY <2>1 DEF LoopTick, Aside, Apart
<1>2. ASSUME NEW p \in Proc, p # t PROVE ProcTick(p)'
  <2>1. Waking(p) => Waking(p)'
    BY WakingKept DEF TickInv
  <2>2. ProcTick(p) /\ p \in Thread
    BY Sets DEF TickInv, TInv
  <2> QED
    BY <1>2, <2>1, <2>2, OthersTick DEF Aside
<1> QED
  BY <1>1, <1>2 DEF TInv

\* Most steps are not near sleep() either.
Awake(c, t) == t \in Proc => pc'[t] \notin {"sleeplk", "sleeping"} /\ state'[t] # "SLEEPING"

LEMMA AwakeTick ==
  ASSUME TickInv, NEW c \in CPU, NEW t \in Thread, t = run[c], Aside(c, t), Awake(c, t)
  PROVE  TInv'
<1>1. t \in Proc => ProcTick(t)'
  BY DEF Awake, ProcTick
<1> QED
  BY <1>1, AsideTick

\* Such steps, by the places they lead from and to.
Near == {"wakeup", "wake", "sleeplk", "sleeping"}
Quiet(c) ==
  /\ \A u \in Thread : u # run[c] => want'[u] = want[u]
  /\ \A d \in CPU : d # c => run'[d] = run[d]
  /\ \A p \in Proc : p # run[c] => elapsed'[p] = elapsed[p] /\ n'[p] = n[p]
  /\ \A p \in Proc : state'[p] = "SLEEPING" => state[p] = "SLEEPING"
  /\ tidx' = tidx

LEMMA GotoTick ==
  ASSUME IInv, NEW c \in CPU, NEW l0, NEW l, At(c, l0), Goto(run[c], l), l0 \notin {"wakeup", "wake"},
         l \notin {"wakeup", "wake"}
  PROVE  LET t == run[c]
         IN  /\ t \in Thread /\ tpc[t] \notin {"wakeup", "wake"} /\ tpc'[t] \notin {"wakeup", "wake"}
             /\ \A u \in Thread : u # t => pc'[u] = pc[u] /\ tpc'[u] = tpc[u]
             /\ tpc[t] # "no" => pc'[t] = pc[t] /\ pc[t] \in Plain
             /\ tpc[t] = "no" => pc'[t] = l
<1>1. PICK t \in Thread : t = run[c]
  BY DEF IInv, TypeInv, CpuType
<1>2. pc \in [Thread -> PcPlaces] /\ tpc \in [Thread -> TrapPlaces] /\ (tpc[t] # "no" => pc[t] \in Plain)
  BY DEF IInv, TypeInv, ThreadType, ThreadOK, PlaceOK
<1>3. tpc[t] # "no" => tpc[t] = l0
  BY <1>1 DEF At
<1> QED
  BY <1>1, <1>2, <1>3 DEF Goto

LEMMA QuietTick ==
  ASSUME TickInv, NEW c \in CPU, NEW l0, NEW l, At(c, l0), Goto(run[c], l), l0 \notin {"wakeup", "wake"},
         l \notin Near, Quiet(c)
  PROVE  TInv'
<1>1. PICK t \in Thread : t = run[c]
  BY DEF TickInv, IInv, TypeInv, CpuType
<1>2. /\ tpc[t] \notin {"wakeup", "wake"} /\ tpc'[t] \notin {"wakeup", "wake"}
      /\ \A u \in Thread : u # t => pc'[u] = pc[u] /\ tpc'[u] = tpc[u]
      /\ tpc[t] # "no" => pc'[t] = pc[t] /\ pc[t] \in Plain
      /\ tpc[t] = "no" => pc'[t] = l
  BY <1>1, GotoTick DEF TickInv, Near
<1>3. Aside(c, t)
  BY <1>1, <1>2 DEF Aside, Apart, Quiet
<1>4. t \in Proc => state[t] = "RUNNING"
  BY <1>1 DEF TickInv, IInv, CpuOK, RunOK
<1>5. Awake(c, t)
  BY <1>1, <1>2, <1>4 DEF Awake, Quiet, Near, Plain
<1> QED
  BY <1>1, <1>3, <1>5, AwakeTick

\* The way into sleep().
LEMMA SleepTick ==
  ASSUME TickInv, NEW c \in CPU, sleep(c) \/ sleep_release(c) \/ sleep_sched(c)
  PROVE  TInv'
<1>1. PICK t \in Thread : t = run[c]
  BY DEF TickInv, IInv, TypeInv, CpuType
<1>2. PICK l0 \in {"slept", "sleeplk", "sleeping"}, l \in {"sleeplk", "sleeping", "woken"} :
        At(c, l0) /\ Goto(run[c], l)
  BY DEF sleep, sleep_release, sleep_sched, acquire, release, sched
<1>3. /\ tpc[t] \notin {"wakeup", "wake"} /\ tpc'[t] \notin {"wakeup", "wake"}
      /\ \A u \in Thread : u # t => pc'[u] = pc[u] /\ tpc'[u] = tpc[u]
  BY <1>1, <1>2, GotoTick DEF TickInv
<1>4. tpc[t] = "no" /\ tpc' = tpc /\ pc' = [pc EXCEPT ![t] = l] /\ pc[t] = l0 /\ want[t] = None /\ pc'[t] = l
  BY <1>1, <1>2 DEF At, Goto, TickInv, IInv, TypeInv, ThreadType, TrapPlaces
<1>5. /\ want \in [Thread -> Lock \cup {None}] /\ run \in [CPU -> Thread]
      /\ state \in [Proc -> {"RUNNABLE", "RUNNING", "SLEEPING", "ZOMBIE"}]
      /\ (t \in Proc => state[t] = "RUNNING" /\ elapsed[t] \in Nat /\ n[t] \in Nat)
  BY <1>1 DEF TickInv, IInv, TypeInv, CpuType, ThreadType, ProcType, CpuOK, RunOK
<1>6. Aside(c, t)
  <2>1. tidx' = tidx /\ elapsed' = elapsed /\ n' = n
    BY DEF sleep, sleep_release, sleep_sched, acquire, release, sched, procvars
  <2>2. \A u \in Thread : u # t => want'[u] = want[u]
    BY <1>1, <1>5 DEF sleep, sleep_release, sleep_sched, acquire, release, sched
  <2>3. \A d \in CPU : d # c => run'[d] = run[d]
    BY <1>1, <1>5 DEF sleep, sleep_release, sleep_sched, acquire, release, sched
  <2>4. \A p \in Proc : p # t => state'[p] = state[p]
    BY <1>1, <1>5 DEF sleep, sleep_release, sleep_sched, procvars
  <2> QED
    BY <1>3, <2>1, <2>2, <2>3, <2>4 DEF Aside, Apart
<1>7. ASSUME t \in Proc PROVE ProcTick(t)'
  <2>0. ProcTick(t)
    BY <1>7 DEF TickInv, TInv
  <2>1. CASE sleep(c)
    <3>1. elapsed' = elapsed /\ n' = n /\ state' = state /\ run' = run /\ elapsed[t] < n[t]
      BY SMTT(60), <1>1, <1>5, <1>7, <2>1 DEF sleep, acquire, procvars, Over
    <3>2. pc'[t] = "sleeplk"
      BY <1>1, <1>4, <2>1 DEF sleep, acquire, Goto, TickInv, IInv, TypeInv, ThreadType
    <3> QED
      BY <1>1, <1>5, <1>7, <3>1, <3>2 DEF ProcTick
  <2>2. CASE sleep_release(c)
    <3>1. elapsed' = elapsed /\ n' = n /\ state' = state /\ run' = run /\ want' = want
      BY <2>2 DEF sleep_release, release, procvars
    <3>2. pc[t] = "sleeplk" /\ pc'[t] = "sleeping"
      BY <1>1, <1>4, <2>2 DEF sleep_release, release, At, Goto, TickInv, IInv, TypeInv, ThreadType
    <3>3. elapsed[t] < n[t]
      BY <2>0, <3>2 DEF ProcTick
    <3> QED
      BY SMTT(60), <1>1, <1>4, <1>5, <1>7, <3>1, <3>2, <3>3 DEF ProcTick
  <2>3. CASE sleep_sched(c)
    <3>1. elapsed' = elapsed /\ n' = n
      BY <2>3 DEF sleep_sched
    <3>2. pc[t] = "sleeping" /\ pc'[t] = "woken"
      BY <1>1, <1>4, <2>3 DEF sleep_sched, sched, At, Goto, TickInv, IInv, TypeInv, ThreadType
    <3>3. elapsed[t] >= n[t] => Waking(t)'
      BY <1>1, <1>6, <1>7, <2>0, <3>2, WakingKept DEF ProcTick, TickInv
    <3> QED
      BY <3>1, <3>2, <3>3 DEF ProcTick
  <2> QED
    BY <2>1, <2>2, <2>3
<1> QED
  BY <1>1, <1>6, <1>7, AsideTick

\* Interrupts, and the loop for a lock.
LEMMA EdgeTick ==
  ASSUME TickInv, NEW c \in CPU, interrupt(c) \/ sret(c)
  PROVE  TInv'
<1>1. PICK t \in Thread : t = run[c]
  BY DEF TickInv, IInv, TypeInv, CpuType
<1>2. tpc \in [Thread -> TrapPlaces] /\ (t \in Proc => state[t] = "RUNNING") /\ (tpc[t] # "no" => pc[t] \in Plain)
      /\ IntrOK(c)
  BY <1>1 DEF TickInv, IInv, TypeInv, ThreadType, CpuOK, RunOK, ThreadOK, PlaceOK
<1>3. UNCHANGED <<run, pc, want, tidx, elapsed, n, state>>
  BY DEF interrupt, sret, procvars
<1>4. /\ tpc[t] \notin {"wakeup", "wake"} /\ tpc'[t] \notin {"wakeup", "wake"}
      /\ \A u \in Thread : u # t => tpc'[u] = tpc[u]
  BY <1>1, <1>2 DEF interrupt, sret, At, IntrOK
<1>5. Aside(c, t)
  BY <1>3, <1>4 DEF Aside, Apart
<1>6. ASSUME t \in Proc PROVE ProcTick(t)'
  <2>1. ProcTick(t)
    BY <1>6 DEF TickInv, TInv
  <2>2. Waking(t) => Waking(t)'
    BY <1>1, <1>5, <1>6, WakingKept DEF TickInv
  <2> QED
    BY <1>3, <2>1, <2>2 DEF ProcTick
<1> QED
  BY <1>1, <1>5, <1>6, AsideTick

LEMMA SpinTick ==
  ASSUME TickInv, NEW c \in CPU, spin(c)
  PROVE  TInv'
<1>1. UNCHANGED <<run, pc, tpc, tidx, elapsed, n, state>>
  BY DEF spin, procvars
<1>2. \A p \in Proc : want'[p] \in {want[p], None}
  BY Sets DEF spin, TickInv, IInv, TypeInv, ThreadType
<1>3. ASSUME NEW p \in Proc PROVE ProcTick(p)'
  <2>1. ProcTick(p) /\ (Waking(p) => Waking(p)')
    BY <1>1 DEF TickInv, TInv, Waking
  <2> QED
    BY <1>1, <1>2, <2>1 DEF ProcTick
<1>4. \A t \in Thread : LoopTick(t)'
  BY <1>1 DEF TickInv, TInv, LoopTick
<1> QED
  BY <1>3, <1>4 DEF TInv

\* The locks keep wakeup() and sleep() apart: nobody is between the test of
\* ticks and the release of tickslock while the clock ticks, and the process
\* that wakeup() looks at is not between that release and sched().
LEMMA TicksExcludes ==
  ASSUME TickInv, NEW c \in CPU, At(c, "clockintr"), NEW p \in Proc, pc[p] = "sleeplk"
  PROVE  FALSE
<1>1. PICK d \in CPU : run[d] = p
  BY DEF TickInv, TInv, ProcTick
<1>2. LocksOK(d) /\ WantOK(d) /\ ThreadOK(p) /\ TICKS \in Lock /\ None \notin Lock
  BY Sets DEF TickInv, IInv, CpuOK
<1>3. Place(p) = "sleeplk"
  BY <1>2 DEF ThreadOK, PlaceOK, Plain, Place
<1>4. owner[TICKS] = d
  BY <1>1, <1>2, <1>3 DEF LocksOK, WantOK, HasAt, TickPlaces
<1>5. owner[TICKS] = c /\ Place(run[c]) = "clockintr"
  BY <1>2, HereFacts DEF HasAt, TickPlaces, TickInv
<1> QED
  BY <1>1, <1>3, <1>4, <1>5

LEMMA WakeExcludes ==
  ASSUME TickInv, NEW c \in CPU, At(c, "wake"), NEW p \in Proc, p = tidx[run[c]], pc[p] = "sleeping"
  PROVE  FALSE
<1>1. PICK d \in CPU : run[d] = p
  BY DEF TickInv, TInv, ProcTick
<1>2. LocksOK(d) /\ ThreadOK(p) /\ p \in Lock /\ None \notin Lock /\ want[p] = None
  BY Sets DEF TickInv, IInv, CpuOK, TInv, ProcTick
<1>3. Place(p) = "sleeping"
  BY <1>2 DEF ThreadOK, PlaceOK, Plain, Place
<1>4. owner[p] = d
  BY <1>1, <1>2, <1>3 DEF LocksOK, HasAt, OwnPlaces
<1>5. owner[p] = c /\ Place(run[c]) = "wake"
  BY SMTT(60), <1>2, HereFacts DEF HasAt, TickInv
<1> QED
  BY <1>1, <1>3, <1>4, <1>5

\* clockintr() and the loop of wakeup().
LEMMA ClockTick ==
  ASSUME TickInv, NEW c \in CPU, clockintr(c)
  PROVE  TInv'
<1>1. PICK t \in Thread : t = run[c]
  BY DEF TickInv, IInv, TypeInv, CpuType
<1>2. tpc[t] = "clockintr" /\ tpc' = [tpc EXCEPT ![t] = "wakeup"] /\ pc' = pc
  BY <1>1 DEF clockintr, At, Goto, TickInv, IInv, TypeInv, ThreadType, PcPlaces
<1>3. tpc \in [Thread -> TrapPlaces] /\ run \in [CPU -> Thread] /\ tidx[t] = 1 /\ At(c, "clockintr")
  BY <1>1, <1>2 DEF clockintr, TickInv, TInv, LoopTick, IInv, TypeInv, ThreadType, CpuType
<1>4. UNCHANGED <<run, tidx, want, state, n>>
  BY DEF clockintr
<1>5. ASSUME NEW p \in Proc PROVE ProcTick(p)'
  <2>1. Waking(p)'
    BY SMTT(60), <1>1, <1>2, <1>3, <1>4, CpuConstants DEF Waking, Proc
  <2>2. ProcTick(p) /\ pc[p] # "sleeplk"
    BY <1>3, TicksExcludes DEF TickInv, TInv
  <2> QED
    BY <1>2, <1>4, <2>1, <2>2 DEF ProcTick
<1>6. \A u \in Thread : LoopTick(u)'
  BY <1>2, <1>3, <1>4 DEF TickInv, TInv, LoopTick
<1> QED
  BY <1>5, <1>6 DEF TInv

LEMMA LoopWakes ==
  ASSUME TickInv, NEW c \in CPU, wakeup(c) \/ wake(c)
  PROVE  TInv'
<1>1. PICK t \in Thread : t = run[c]
  BY DEF TickInv, IInv, TypeInv, CpuType
<1>2. PICK l0 \in {"wakeup", "wake"}, l \in {"wakeup", "wake", "trapend"} : At(c, l0) /\ Goto(run[c], l)
  BY DEF wakeup, wake, acquire, release
<1>3. tpc[t] = l0 /\ tpc' = [tpc EXCEPT ![t] = l] /\ pc' = pc
  BY <1>1, <1>2 DEF At, Goto, TickInv, IInv, TypeInv, ThreadType, PcPlaces
<1>4. /\ tpc \in [Thread -> TrapPlaces] /\ run \in [CPU -> Thread] /\ tidx \in [Thread -> Nat \ {0}]
      /\ want \in [Thread -> Lock \cup {None}] /\ state \in [Proc -> {"RUNNABLE", "RUNNING", "SLEEPING", "ZOMBIE"}]
      /\ pc[t] \in Plain /\ tpc'[t] = l
  BY <1>2, <1>3 DEF TickInv, IInv, TypeInv, ThreadType, CpuType, ProcType, ThreadOK, PlaceOK
<1>5. run' = run /\ elapsed' = elapsed /\ n' = n /\ (wakeup(c) => state' = state)
  BY DEF wakeup, wake, acquire, release, procvars
<1>6. \A u \in Thread : u # t => tidx'[u] = tidx[u] /\ want'[u] = want[u]
  BY <1>1, <1>4 DEF wakeup, wake, acquire, release
<1>7. \A p \in Proc : state'[p] = "SLEEPING" => state[p] = "SLEEPING"
  BY <1>4, <1>5 DEF wake
<1>8. Apart(c, t)
  BY <1>3, <1>4, <1>5, <1>6, <1>7 DEF Apart
<1>9. \/ tidx'[t] = tidx[t] /\ tpc'[t] = "wake"
      \/ tidx'[t] = 1 /\ tpc'[t] = "trapend" /\ tidx[t] \notin Proc
      \/ tidx'[t] = tidx[t] + 1 /\ tpc'[t] = "wakeup" /\ wake(c)
  <2>1. CASE wakeup(c) /\ tidx[t] \in Proc
    BY <1>1, <1>3, <1>4, <2>1 DEF wakeup, acquire, Goto, TickInv, IInv, TypeInv, ThreadType
  <2>2. CASE wakeup(c) /\ tidx[t] \notin Proc
    BY <1>1, <1>3, <1>4, <2>2 DEF wakeup, release, Goto, TickInv, IInv, TypeInv, ThreadType
  <2>3. CASE wake(c)
    BY <1>1, <1>3, <1>4, <2>3 DEF wake, release, Goto, TickInv, IInv, TypeInv, ThreadType
  <2> QED
    BY <2>1, <2>2, <2>3
<1>10. ASSUME NEW p \in Proc, Waking(p), ~(wake(c) /\ p = tidx[t]) PROVE Waking(p)'
  <2>1. PICK d \in CPU : tpc[run[d]] \in {"wakeup", "wake"} /\ tidx[run[d]] <= p
    BY <1>10 DEF Waking
  <2>2. CASE d = c
    <3>1. tidx[t] <= p /\ tidx[t] \in Nat \ {0} /\ p \in Nat
      BY <1>1, <1>4, <2>1, <2>2, Sets
    <3>2. tidx[t] \in Proc
      BY SMTT(60), <3>1, CpuConstants DEF Proc
    <3>3. tidx'[t] <= p /\ tpc'[t] \in {"wakeup", "wake"}
      BY SMTT(60), <1>9, <1>10, <3>1, <3>2
    <3> QED
      BY <1>1, <1>5, <3>3 DEF Waking
  <2>3. CASE d # c
    <3>1. PICK u \in Thread : u = run[d]
      BY <1>4
    <3>2. u # t
      BY <1>1, <2>3, <3>1 DEF TickInv, IInv
    <3>3. tpc'[u] = tpc[u] /\ tidx'[u] = tidx[u] /\ run'[d] = u
      BY SMTT(60), <1>3, <1>5, <1>6, <3>1, <3>2
    <3> QED
      BY <2>1, <3>1, <3>3 DEF Waking
  <2> QED
    BY <2>2, <2>3
<1>11. ASSUME NEW p \in Proc, wake(c), p = tidx[t] PROVE ProcTick(p)'
  <2>1. pc[p] # "sleeping" /\ state'[p] # "SLEEPING"
    BY <1>1, <1>4, <1>11, WakeExcludes DEF wake
  <2>2. ProcTick(p)
    BY DEF TickInv, TInv
  <2> QED
    BY <1>3, <1>5, <2>1, <2>2 DEF ProcTick
<1>12. ASSUME NEW p \in Proc, ~(wake(c) /\ p = tidx[t]) PROVE ProcTick(p)'
  <2>1. ProcTick(p) /\ (Waking(p) => Waking(p)') /\ p \in Thread
    BY <1>10, <1>12, Sets DEF TickInv, TInv
  <2>2. CASE p = t
    BY <1>3, <1>4, <1>5, <1>7, <2>1, <2>2 DEF ProcTick, Plain
  <2>3. CASE p # t
    BY <1>1, <1>8, <2>1, <2>3, OthersTick
  <2> QED
    BY <2>2, <2>3
<1>13. ASSUME NEW u \in Thread PROVE LoopTick(u)'
  BY SMTT(60), <1>3, <1>6, <1>9 DEF TickInv, TInv, LoopTick
<1> QED
  BY <1>11, <1>12, <1>13 DEF TInv

\* The steps that have nothing to do with it.
Elsewhere(c) ==
  \/ scheduler(c) \/ scan(c) \/ scan_end(c) \/ choose(c) \/ next_proc(c)
  \/ devintr(c) \/ trapend(c) \/ yield(c) \/ yielded(c) \/ forkret(c) \/ usertrapret(c)
  \/ (\E k \in 1 .. MAXN : sys_sleep(c, k)) \/ sleep_start(c) \/ sleep_over(c)
  \/ woken(c) \/ relock(c) \/ (\E q \in Proc : sys_kill(c, q))
  \/ kill(c) \/ kill_next(c) \/ kill_lock(c) \/ exit(c) \/ zombie(c)

LEMMA ElsewhereQuiet ==
  ASSUME IInv, NEW c \in CPU, Elsewhere(c)
  PROVE  Quiet(c)
<1>1. PICK t \in Thread : t = run[c]
  BY DEF IInv, TypeInv, CpuType
<1>2. /\ want \in [Thread -> Lock \cup {None}] /\ run \in [CPU -> Thread]
      /\ state \in [Proc -> {"RUNNABLE", "RUNNING", "SLEEPING", "ZOMBIE"}]
      /\ n \in [Proc -> Nat] /\ elapsed \in [Proc -> Nat]
  BY DEF IInv, TypeInv, CpuType, ThreadType, ProcType
<1>3. CASE \/ scan(c) \/ trapend(c) \/ relock(c) \/ kill_lock(c) \/ exit(c)
           \/ (\E k \in 1 .. MAXN : sys_sleep(c, k)) \/ (\E q \in Proc : sys_kill(c, q))
  BY <1>1, <1>2, <1>3 DEF Quiet, scan, trapend, relock, kill_lock, exit, sys_sleep, sys_kill, acquire, procvars
<1>4. CASE next_proc(c) \/ yielded(c) \/ forkret(c) \/ sleep_over(c) \/ woken(c) \/ kill_next(c)
  BY <1>1, <1>2, <1>4 DEF Quiet, next_proc, yielded, forkret, sleep_over, woken, kill_next, release, procvars
<1>5. CASE kill(c)
  BY <1>1, <1>2, <1>5 DEF Quiet, kill, release, procvars
<1>6. CASE scheduler(c) \/ scan_end(c) \/ usertrapret(c) \/ sleep_start(c)
  BY <1>1, <1>2, <1>6 DEF Quiet, scheduler, scan_end, usertrapret, sleep_start, procvars
<1>7. CASE devintr(c)
  BY <1>1, <1>2, <1>7 DEF Quiet, devintr, acquire, procvars
<1>8. CASE choose(c) \/ yield(c) \/ zombie(c)
  BY <1>1, <1>2, <1>8 DEF Quiet, choose, yield, zombie, sched, procvars
<1> QED
  BY <1>3, <1>4, <1>5, <1>6, <1>7, <1>8 DEF Elsewhere

\* Where each of these steps takes its thread.
Moves(c, l0, l) == At(c, l0) /\ Goto(run[c], l)
Far == {"scheduler", "scan", "choose", "back", "forkret", "usertrapret", "user", "sleep", "slept", "woken", "relock",
        "kill", "killnext", "zombie", "dead", "devintr", "clockintr", "trapend", "yield", "yielded", "sret"}
Passes(c) == \E l0, l \in Far : Moves(c, l0, l)

LEMMA ElsewherePasses ==
  ASSUME NEW c \in CPU, Elsewhere(c)
  PROVE  Passes(c)
<1>1. CASE scheduler(c)
  <2>1. Moves(c, "scheduler", "scan")
    BY <1>1 DEF Moves, scheduler
  <2> QED
    BY <2>1 DEF Passes, Far
<1>2. CASE scan(c)
  <2>1. Moves(c, "scan", "choose")
    BY <1>2 DEF Moves, scan, acquire
  <2> QED
    BY <2>1 DEF Passes, Far
<1>3. CASE scan_end(c)
  <2>1. Moves(c, "scan", "scheduler")
    BY <1>3 DEF Moves, scan_end
  <2> QED
    BY <2>1 DEF Passes, Far
<1>4. CASE choose(c)
  <2>1. Moves(c, "choose", "back")
    BY <1>4 DEF Moves, choose
  <2> QED
    BY <2>1 DEF Passes, Far
<1>5. CASE next_proc(c)
  <2>1. Moves(c, "choose", "scan") \/ Moves(c, "back", "scan")
    BY <1>5 DEF Moves, next_proc, release
  <2> QED
    BY <2>1 DEF Passes, Far
<1>6. CASE devintr(c)
  <2>1. Moves(c, "devintr", "clockintr") \/ Moves(c, "devintr", "trapend")
    BY <1>6 DEF Moves, devintr, acquire
  <2> QED
    BY <2>1 DEF Passes, Far
<1>7. CASE trapend(c)
  <2>1. Moves(c, "trapend", "yield")
    BY <1>7 DEF Moves, trapend, acquire
  <2> QED
    BY <2>1 DEF Passes, Far
<1>8. CASE yield(c)
  <2>1. Moves(c, "yield", "yielded")
    BY <1>8 DEF Moves, yield, sched
  <2> QED
    BY <2>1 DEF Passes, Far
<1>9. CASE yielded(c)
  <2>1. Moves(c, "yielded", "sret")
    BY <1>9 DEF Moves, yielded, release
  <2> QED
    BY <2>1 DEF Passes, Far
<1>10. CASE forkret(c)
  <2>1. Moves(c, "forkret", "usertrapret")
    BY <1>10 DEF Moves, forkret, release
  <2> QED
    BY <2>1 DEF Passes, Far
<1>11. CASE usertrapret(c)
  <2>1. Moves(c, "usertrapret", "user")
    BY <1>11 DEF Moves, usertrapret
  <2> QED
    BY <2>1 DEF Passes, Far
<1>12. CASE \E k \in 1 .. MAXN : sys_sleep(c, k)
  <2>1. Moves(c, "user", "sleep")
    BY <1>12 DEF Moves, sys_sleep, acquire
  <2> QED
    BY <2>1 DEF Passes, Far
<1>13. CASE sleep_start(c)
  <2>1. Moves(c, "sleep", "slept")
    BY <1>13 DEF Moves, sleep_start
  <2> QED
    BY <2>1 DEF Passes, Far
<1>14. CASE sleep_over(c)
  <2>1. Moves(c, "slept", "usertrapret")
    BY <1>14 DEF Moves, sleep_over, release
  <2> QED
    BY <2>1 DEF Passes, Far
<1>15. CASE woken(c)
  <2>1. Moves(c, "woken", "relock")
    BY <1>15 DEF Moves, woken, release
  <2> QED
    BY <2>1 DEF Passes, Far
<1>16. CASE relock(c)
  <2>1. Moves(c, "relock", "slept")
    BY <1>16 DEF Moves, relock, acquire
  <2> QED
    BY <2>1 DEF Passes, Far
<1>17. CASE \E q \in Proc : sys_kill(c, q)
  <2>1. Moves(c, "user", "kill")
    BY <1>17 DEF Moves, sys_kill, acquire
  <2> QED
    BY <2>1 DEF Passes, Far
<1>18. CASE kill(c)
  <2>1. Moves(c, "kill", "usertrapret")
    BY <1>18 DEF Moves, kill, release
  <2> QED
    BY <2>1 DEF Passes, Far
<1>19. CASE kill_next(c)
  <2>1. Moves(c, "kill", "killnext")
    BY <1>19 DEF Moves, kill_next, release
  <2> QED
    BY <2>1 DEF Passes, Far
<1>20. CASE kill_lock(c)
  <2>1. Moves(c, "killnext", "kill")
    BY <1>20 DEF Moves, kill_lock, acquire
  <2> QED
    BY <2>1 DEF Passes, Far
<1>21. CASE exit(c)
  <2>1. Moves(c, "usertrapret", "zombie") \/ Moves(c, "trapend", "zombie")
    BY <1>21 DEF Moves, exit, acquire
  <2> QED
    BY <2>1 DEF Passes, Far
<1>22. CASE zombie(c)
  <2>1. Moves(c, "zombie", "dead")
    BY <1>22 DEF Moves, zombie, sched
  <2> QED
    BY <2>1 DEF Passes, Far
<1> QED
  BY <1>1, <1>2, <1>3, <1>4, <1>5, <1>6, <1>7, <1>8, <1>9, <1>10, <1>11, <1>12,
     <1>13, <1>14, <1>15, <1>16, <1>17, <1>18, <1>19, <1>20, <1>21, <1>22 DEF Elsewhere

LEMMA ElsewhereTick ==
  ASSUME TickInv, NEW c \in CPU, Elsewhere(c)
  PROVE  TInv'
<1>1. Quiet(c)
  BY ElsewhereQuiet DEF TickInv
<1>2. PICK l0 \in Far, l \in Far : At(c, l0) /\ Goto(run[c], l)
  BY ElsewherePasses DEF Passes, Moves
<1>3. l0 \notin {"wakeup", "wake"} /\ l \notin Near
  BY DEF Far, Near
<1> QED
  BY <1>1, <1>2, <1>3, QuietTick

LEMMA TickStep ==
  ASSUME TickInv, [Next]_vars
  PROVE  TickInv'
<1>1. IInv'
  BY InvStep DEF TickInv
<1>2. CASE Next
  <2>1. PICK c \in CPU :
          \/ Elsewhere(c) \/ spin(c) \/ interrupt(c) \/ sret(c) \/ clockintr(c) \/ wakeup(c) \/ wake(c)
          \/ sleep(c) \/ sleep_release(c) \/ sleep_sched(c)
    BY <1>2 DEF Next, Elsewhere
  <2> QED
    BY <1>1, <2>1, ElsewhereTick, SpinTick, EdgeTick, ClockTick, LoopWakes, SleepTick DEF TickInv
<1>3. CASE UNCHANGED vars
  <2>1. UNCHANGED <<run, pc, tpc, want, tidx, elapsed, n, state>>
    BY <1>3 DEF vars, cpuvars, procvars
  <2>2. TInv'
    BY <2>1 DEF TickInv, TInv, LoopTick, ProcTick, Waking
  <2> QED
    BY <1>1, <2>2 DEF TickInv
<1> QED
  BY <1>2, <1>3

\* No tick is lost: a process that is asleep in sys_sleep() though its time is
\* up will be woken by a processor that is in the loop of wakeup() now.
THEOREM CpuTickNotLost == Spec => []TickNotLost
<1>1. Init => TickInv
  <2> SUFFICES ASSUME Init PROVE TInv
    BY InvInit DEF TickInv
  <2>1. \A t \in Thread : LoopTick(t)
    BY DEF Init, LoopTick
  <2>2. \A p \in Proc : pc[p] = "forkret" /\ state[p] = "RUNNABLE"
    BY Sets DEF Init
  <2> QED
    BY <2>1, <2>2 DEF TInv, ProcTick
<1>2. TickInv => TickNotLost
  BY DEF TickInv, TInv, ProcTick, Waking, TickNotLost
<1> QED
  BY <1>1, <1>2, TickStep, PTL DEF Spec

INSTANCE FiniteSetTheorems

\* The locks that a place implies, counted.
LEMMA DepthCounts ==
  ASSUME IInv, NEW c \in CPU, NEW t \in Thread, t = run[c]
  PROVE  LET H == {m \in Lock : HasAt(t, Place(t), m)}
         IN  IsFiniteSet(H) /\ Cardinality(H) = DepthAt(Place(t))
<1> DEFINE H == {m \in Lock : HasAt(t, Place(t), m)}
<1>1. PlaceOK(t) /\ TICKS \in Lock /\ TICKS \notin Proc /\ Proc \subseteq Lock
  BY Sets DEF IInv, ThreadOK
<1>2. PICK l : l = Place(t)
  OBVIOUS
<1>3. l \in OwnPlaces => t \in Proc
  BY <1>1, <1>2 DEF PlaceOK, Place, OwnPlaces, IInv, TypeInv, ThreadType, TrapPlaces
<1>4. l \in IdxPlaces => idx[t] \in Proc
  <2>1. l \in IdxPlaces => pc[t] = l
    BY <1>2 DEF Place, IdxPlaces, TrapPlaces, IInv, TypeInv, ThreadType
  <2>2. l = "kill" => idx[t] \in Proc
    BY <1>1, <2>1, KillIdx DEF IdxPlaces
  <2>3. l \in {"choose", "back"} => idx[t] \in Proc
    BY <1>1, <2>1 DEF PlaceOK, IdxPlaces
  <2> QED
    BY <2>2, <2>3 DEF IdxPlaces
<1>5. l = "wake" => tidx[t] \in Proc
  BY <1>1, <1>2 DEF PlaceOK, Place, IInv, TypeInv, ThreadType, PcPlaces
<1>6. CASE l \in {"wake", "sleeplk"}
  <2>1. PICK m \in Proc : H = {TICKS, m}
    BY <1>1, <1>2, <1>3, <1>5, <1>6 DEF HasAt, TickPlaces, OwnPlaces, IdxPlaces
  <2>2. m # TICKS /\ DepthAt(l) = 2
    BY <1>1, <1>6, <2>1 DEF DepthAt
  <2>3. H = {TICKS} \cup {m} /\ m \notin {TICKS}
    BY <2>1, <2>2
  <2>4. IsFiniteSet({TICKS}) /\ Cardinality({TICKS}) = 1
    BY FS_Singleton
  <2>5. IsFiniteSet({TICKS} \cup {m}) /\ Cardinality({TICKS} \cup {m}) = Cardinality({TICKS}) + 1
    BY <2>3, <2>4, FS_AddElement
  <2>6. Cardinality({TICKS} \cup {m}) = 2
    BY SMTT(60), <2>4, <2>5
  <2>7. IsFiniteSet(H) /\ Cardinality(H) = 2
    BY <2>3, <2>5, <2>6
  <2> QED
    BY <1>2, <2>2, <2>7
<1>7. CASE l \in (TickPlaces \cup OwnPlaces \cup IdxPlaces) \ {"wake", "sleeplk"}
  <2>1. \E m \in Lock : H = {m}
    <3>1. CASE l \in TickPlaces
      <4>1. H = {TICKS}
        BY <1>1, <1>2, <1>7, <3>1 DEF HasAt, TickPlaces, OwnPlaces, IdxPlaces
      <4> QED
        BY <1>1, <4>1
    <3>2. CASE l \in OwnPlaces
      <4>1. H = {t}
        BY <1>1, <1>2, <1>3, <1>7, <3>2 DEF HasAt, TickPlaces, OwnPlaces, IdxPlaces
      <4> QED
        BY <1>1, <1>3, <3>2, <4>1
    <3>3. CASE l \in IdxPlaces
      <4>1. H = {idx[t]}
        BY <1>1, <1>2, <1>4, <1>7, <3>3 DEF HasAt, TickPlaces, OwnPlaces, IdxPlaces
      <4> QED
        BY <1>1, <1>4, <3>3, <4>1
    <3> QED
      BY <1>7, <3>1, <3>2, <3>3
  <2>2. DepthAt(l) = 1
    BY <1>7 DEF DepthAt
  <2> QED
    BY <1>2, <2>1, <2>2, FS_Singleton
<1>8. CASE l \notin TickPlaces \cup OwnPlaces \cup IdxPlaces \cup {"wake", "sleeplk"}
  <2>1. H = {} /\ DepthAt(l) = 0
    BY <1>2, <1>8 DEF HasAt, DepthAt
  <2> QED
    BY <1>2, <2>1, FS_EmptySet
<1> QED
  BY <1>6, <1>7, <1>8

\* push_off() and pop_off() are matched in every thread, across traps and
\* context switches: a process runs with interrupts enabled exactly when it is
\* in no trap and holds no spin lock.
THEOREM CpuInterruptsExact == Spec => []InterruptsExact
<1>1. IInv => InterruptsExact
  <2> SUFFICES ASSUME IInv, NEW c \in CPU
               PROVE  /\ noff[c] = Cardinality({l \in Lock : owner[l] = c})
                                     + (IF want[run[c]] = None THEN 0 ELSE 1)
                      /\ sie[c] => noff[c] = 0 /\ tpc[run[c]] = "no"
                      /\ run[c] \in Proc /\ pc[run[c]] # "usertrapret" =>
                           (sie[c] <=> noff[c] = 0 /\ tpc[run[c]] = "no")
    BY DEF InterruptsExact
  <2>1. PICK t \in Thread : t = run[c]
    BY DEF IInv, TypeInv, CpuType
  <2>2. LocksOK(c) /\ WantOK(c) /\ IntrOK(c) /\ PlaceOK(t) /\ pc[t] \in PcPlaces
    BY <2>1 DEF IInv, CpuOK, ThreadOK, TypeInv, ThreadType
  <2> DEFINE H == {m \in Lock : HasAt(t, Place(t), m)}
             S == {m \in Lock : owner[m] = c}
  <2>3. IsFiniteSet(H) /\ Cardinality(H) = noff[c]
    BY <2>1, <2>2, DepthCounts DEF LocksOK
  <2>4. noff[c] = Cardinality(S) + (IF want[t] = None THEN 0 ELSE 1)
    <3>1. S = H \ {want[t]}
      BY <2>1, <2>2 DEF LocksOK
    <3>2. CASE want[t] = None
      <4>1. S = H
        BY <3>1, <3>2, Sets
      <4>2. Cardinality(H) \in Nat
        BY <2>3, FS_CardinalityType
      <4>3. noff[c] = Cardinality(S) /\ noff[c] \in Nat
        BY <2>3, <4>1, <4>2
      <4> HIDE DEF S
      <4> QED
        BY SMTT(60), <3>2, <4>3
    <3>3. CASE want[t] # None
      <4>1. want[t] \in H
        BY <2>1, <2>2, <3>3 DEF WantOK, IInv, TypeInv, ThreadType
      <4>2. Cardinality(S) = Cardinality(H) - 1 /\ Cardinality(H) \in Nat
        BY <2>3, <3>1, <4>1, FS_RemoveElement, FS_CardinalityType
      <4> QED
        BY SMTT(60), <2>3, <3>3, <4>2
    <3> QED
      BY <3>2, <3>3
  <2>5. sie[c] => noff[c] = 0 /\ tpc[t] = "no"
    BY <2>1, <2>2 DEF IntrOK
  <2>6. ASSUME t \in Proc, pc[t] # "usertrapret", noff[c] = 0, tpc[t] = "no" PROVE sie[c]
    <3>1. DepthAt(pc[t]) = 0
      BY <2>1, <2>2, <2>6 DEF LocksOK, Place
    <3>2. pc[t] \in Outer
      BY SMTT(60), <2>2, <2>6, <3>1 DEF DepthAt, TickPlaces, OwnPlaces, IdxPlaces, PcPlaces, Outer, PlaceOK
    <3> QED
      BY <2>1, <2>2, <2>6, <3>2 DEF IntrOK
  <2> QED
    BY <2>1, <2>4, <2>5, <2>6
<1> QED
  BY <1>1, InvInit, InvStep, PTL DEF Spec
=============================================================================
