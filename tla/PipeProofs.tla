----------------------------- MODULE PipeProofs -----------------------------
(***************************************************************************)
(* The safety properties of module Pipe, for any number of readers and     *)
(* writers, any ring and any width of its counters that PipeAssumption     *)
(* allows, and any number of bytes.                                        *)
(***************************************************************************)
EXTENDS Pipe, TLAPS

USE ZenonT(120)

-----------------------------------------------------------------------------
(* Remainders, as the ring uses them: free-running counters that wrap at   *)
(* the width of their type and index an array of a smaller size.           *)

\* Division with remainder.
LEMMA DivMod ==
  ASSUME NEW n \in Nat, NEW m \in Nat \ {0}
  PROVE  \E q \in Nat : \E r \in 0 .. m - 1 : n % m = r /\ n = m * q + r
<1>1. n \div m \in Nat /\ n % m \in 0 .. m - 1 /\ n = m * (n \div m) + (n % m)
  BY SMTT(60)
<1> QED
  BY <1>1

\* The remainder is the only one.
LEMMA Unique ==
  ASSUME NEW m \in Nat \ {0}, NEW q \in Int, NEW r \in 0 .. m - 1, NEW n \in Int, n = m * q + r
  PROVE  n % m = r
BY SMTT(60)

\* A counter may wrap before something is added to it.
LEMMA ModPlus ==
  ASSUME NEW n \in Nat, NEW m \in Nat \ {0}, NEW k \in Nat
  PROVE  ((n % m) + k) % m = (n + k) % m
<1>1. PICK q \in Nat, r \in 0 .. m - 1 : n % m = r /\ n = m * q + r
  BY DivMod
<1>2. PICK q2 \in Nat, r2 \in 0 .. m - 1 : (r + k) % m = r2 /\ r + k = m * q2 + r2
  <2>1. r + k \in Nat
    BY SMTT(60)
  <2> QED
    BY <2>1, DivMod
<1>3. n + k = m * (q + q2) + r2
  BY SMTT(60), <1>1, <1>2
<1>4. (n + k) % m = r2
  <2>1. q + q2 \in Int /\ n + k \in Int
    BY SMTT(60)
  <2> QED
    BY <1>3, <2>1, Unique
<1> QED
  BY <1>1, <1>2, <1>4

\* A counter that wraps at a multiple of the size of the ring finds the same
\* place in it as one that never wraps.
LEMMA ModMod ==
  ASSUME NEW n \in Nat, NEW m \in Nat \ {0}, NEW u \in Nat \ {0}, u % m = 0
  PROVE  (n % u) % m = n % m
<1>1. PICK q \in Nat, r \in 0 .. u-1 : n % u = r /\ n = u * q + r
  BY DivMod
<1>2. PICK q2 \in Nat : u = m * q2
  <2>1. u \in Nat
    OBVIOUS
  <2>2. \E q4 \in Nat : \E r4 \in 0 .. m - 1 : u % m = r4 /\ u = m * q4 + r4
    BY <2>1, DivMod
  <2>3. PICK q4 \in Nat : \E r4 \in 0 .. m - 1 : u % m = r4 /\ u = m * q4 + r4
    BY <2>2
  <2>4. u = m * q4
    BY SMTT(60), <2>3
  <2> QED
    BY <2>4
<1>3. PICK q3 \in Nat, r3 \in 0 .. m - 1 : r % m = r3 /\ r = m * q3 + r3
  <2>1. r \in Nat
    BY SMTT(60)
  <2> QED
    BY <2>1, DivMod
<1>4. n = (m * q2) * q + (m * q3 + r3)
  BY <1>1, <1>2, <1>3
<1>5. n = m * (q2 * q + q3) + r3
  BY SMTT(60), <1>4
<1>6. q2 * q + q3 \in Int
  BY SMTT(60)
<1>7. n % m = r3
  BY SMTT(60), <1>5, <1>6, Unique
<1> QED
  BY <1>1, <1>3, <1>7

\* The distance of two wrapped counters is the distance of the counters.
LEMMA ModDiff ==
  ASSUME NEW n \in Nat, NEW m \in Nat \ {0}, NEW d \in 0 .. m - 1
  PROVE  (((n + d) % m) - (n % m)) % m = d
<1>1. PICK q \in Nat, r \in 0 .. m - 1 : n % m = r /\ n = m * q + r
  BY DivMod
<1>2. PICK q2 \in Nat, r2 \in 0 .. m - 1 : (n + d) % m = r2 /\ n + d = m * q2 + r2
  <2>1. n + d \in Nat
    BY SMTT(60)
  <2> QED
    BY <2>1, DivMod
<1>3. r2 - r = m * (q - q2) + d /\ q - q2 \in Int /\ r2 - r \in Int
  BY SMTT(60), <1>1, <1>2
<1>4. (r2 - r) % m = d
  BY <1>3, Unique
<1> QED
  BY <1>1, <1>2, <1>4

\* Counters less than the size of the ring apart use different places.
LEMMA ModClose ==
  ASSUME NEW n \in Nat, NEW m \in Nat \ {0}, NEW d \in 1 .. m - 1
  PROVE  (n + d) % m # n % m
<1> SUFFICES ASSUME (n + d) % m = n % m PROVE FALSE
  OBVIOUS
<1>1. (((n + d) % m) - (n % m)) % m = d
  <2>1. d \in 0 .. m - 1
    BY SMTT(60)
  <2> QED
    BY <2>1, ModDiff
<1>2. n % m \in Int /\ 0 = m * 0 + 0
  BY SMTT(60)
<1>3. 0 % m = 0
  BY SMTT(60), <1>2, Unique
<1> QED
  BY SMTT(60), <1>1, <1>2, <1>3

-----------------------------------------------------------------------------
(* The inductive invariant.                                                *)

Places == Writing \cup Reading \cup {"idle", "close_r", "close_w"}

\* The places at which a process holds pi->lock.
Holding == {"w_loop", "w_sleep", "r_wait", "r_sleep", "r_copy"}

TypeInv ==
  /\ readopen \in BOOLEAN /\ writeopen \in BOOLEAN /\ freed \in BOOLEAN
  /\ rfd \subseteq Readers /\ wfd \subseteq Writers
  /\ pc \in [Proc -> Places]
  /\ want \in [Proc -> 0 .. MAXN]
  /\ killed \in [Proc -> BOOLEAN]

\* pi->lock has one holder, who is in its critical section.
LockInv ==
  /\ lock = {} \/ \E p \in Proc : lock = {p}
  /\ \A p \in Proc : pc[p] \in Holding => lock = {p}

\* A process in a call has the end open; an end is closed once, by the last.
EndInv ==
  /\ \A p \in Proc : pc[p] \in Reading => p \in rfd
  /\ \A p \in Proc : pc[p] \in Writing => p \in wfd
  /\ \A p \in Proc : pc[p] = "close_r" => rfd = {} /\ readopen
  /\ \A p \in Proc : pc[p] = "close_w" => wfd = {} /\ writeopen
  /\ \A p, q \in Proc : pc[p] = "close_r" /\ pc[q] = "close_r" => p = q
  /\ \A p, q \in Proc : pc[p] = "close_w" /\ pc[q] = "close_w" => p = q
  /\ ~readopen => rfd = {}
  /\ ~writeopen => wfd = {}
  /\ freed => ~readopen /\ ~writeopen

\* Whoever sleeps, or is about to, has reason to, unless the process in the
\* critical section has yet to call wakeup().
SleepInv ==
  \A p \in Proc :
    /\ killed[p] => p \in MayKill
    /\ pc[p] = "r_sleep" => Empty /\ writeopen
    /\ pc[p] = "w_sleep" => Full /\ readopen
    /\ pc[p] = "r_asleep" => (Empty /\ writeopen) \/ \E q \in Proc : pc[q] = "w_loop"
    /\ pc[p] = "w_asleep" => (Full /\ readopen) \/ \E q \in Proc : pc[q] = "r_copy"

\* The ring in terms of counters that do not wrap.
RingInv ==
  /\ data \in [0 .. PIPESIZE - 1 -> Nat]
  /\ rcount \in Nat /\ wcount \in Nat
  /\ rcount <= wcount /\ wcount <= rcount + PIPESIZE
  /\ nread = rcount % UINT /\ nwrite = wcount % UINT
  /\ \A i \in rcount .. wcount - 1 : data[i % PIPESIZE] = i + 1

-----------------------------------------------------------------------------
(* Types and the lock.                                                     *)

LEMMA TypeStep ==
  ASSUME TypeInv, [Next]_vars
  PROVE  TypeInv'
<1> USE DEF TypeInv, Places, Writing, Reading
<1>1. ASSUME NEW p \in Proc, NEW n \in 0 .. MAXN, pipewrite(p, n) \/ piperead(p, n)
      PROVE  TypeInv'
  BY <1>1 DEF pipewrite, piperead, Goto, endvars
<1>2. ASSUME NEW p \in Proc, write_acquire(p) \/ read_acquire(p) \/ sleep(p)
      PROVE  TypeInv'
  BY <1>2 DEF write_acquire, read_acquire, sleep, Goto, endvars
<1>3. ASSUME NEW p \in Proc, write_full(p)
      PROVE  TypeInv'
  BY SMTT(60), <1>3, PipeAssumption DEF write_full, Return, WakeAnd, Goto, endvars
<1>4. ASSUME NEW p \in Proc, write_byte(p)
      PROVE  TypeInv'
  BY SMTT(60), <1>4, PipeAssumption DEF write_byte, endvars
<1>5. ASSUME NEW p \in Proc, write_return(p) \/ read_return(p)
      PROVE  TypeInv'
  BY SMTT(60), <1>5, PipeAssumption DEF write_return, read_return, WakeAnd, endvars
<1>6. ASSUME NEW p \in Proc, read_wait(p)
      PROVE  TypeInv'
  BY SMTT(60), <1>6, PipeAssumption DEF read_wait, Return, Goto, endvars
<1>7. ASSUME NEW p \in Proc, read_byte(p)
      PROVE  TypeInv'
  BY SMTT(60), <1>7, PipeAssumption DEF read_byte, endvars
<1>8. ASSUME NEW p \in Proc, kill(p)
      PROVE  TypeInv'
  BY <1>8 DEF kill, endvars
<1>9. ASSUME NEW p \in Proc, fileclose(p)
      PROVE  TypeInv'
  BY <1>9 DEF fileclose, Goto
<1>10. ASSUME NEW p \in Proc, pipeclose(p)
       PROVE  TypeInv'
  BY <1>10 DEF pipeclose, WakeAnd
<1>11. CASE UNCHANGED vars
  BY <1>11 DEF vars
<1> QED
  BY <1>1, <1>2, <1>3, <1>4, <1>5, <1>6, <1>7, <1>8, <1>9, <1>10, <1>11 DEF Next, CallStep

LEMMA LockStep ==
  ASSUME TypeInv, LockInv, [Next]_vars
  PROVE  LockInv'
<1> USE DEF TypeInv, LockInv, Holding
<1>1. ASSUME NEW p \in Proc, NEW n \in 0 .. MAXN, pipewrite(p, n) \/ piperead(p, n)
      PROVE  LockInv'
  BY <1>1 DEF pipewrite, piperead, Goto
<1>2. ASSUME NEW p \in Proc, write_acquire(p) \/ read_acquire(p) \/ sleep(p)
      PROVE  LockInv'
  BY <1>2 DEF write_acquire, read_acquire, sleep, Goto
<1>3. ASSUME NEW p \in Proc, write_full(p)
      PROVE  LockInv'
  BY <1>3 DEF write_full, Return, WakeAnd, Goto
<1>4. ASSUME NEW p \in Proc, write_byte(p) \/ read_byte(p)
      PROVE  LockInv'
  BY <1>4 DEF write_byte, read_byte
<1>5. ASSUME NEW p \in Proc, write_return(p) \/ read_return(p)
      PROVE  LockInv'
  BY SMTT(60), <1>5 DEF write_return, read_return, WakeAnd
<1>6. ASSUME NEW p \in Proc, read_wait(p)
      PROVE  LockInv'
  BY <1>6 DEF read_wait, Return, Goto
<1>7. ASSUME NEW p \in Proc, kill(p)
      PROVE  LockInv'
  BY <1>7 DEF kill
<1>8. ASSUME NEW p \in Proc, fileclose(p)
      PROVE  LockInv'
  BY <1>8 DEF fileclose, Goto
<1>9. ASSUME NEW p \in Proc, pipeclose(p)
      PROVE  LockInv'
  BY <1>9 DEF pipeclose, WakeAnd
<1>10. CASE UNCHANGED vars
  BY <1>10 DEF vars
<1> QED
  BY <1>1, <1>2, <1>3, <1>4, <1>5, <1>6, <1>7, <1>8, <1>9, <1>10 DEF Next, CallStep

-----------------------------------------------------------------------------
(* Ends.                                                                   *)

LEMMA EndStep ==
  ASSUME TypeInv, LockInv, EndInv, [Next]_vars
  PROVE  EndInv'
<1> USE DEF TypeInv, EndInv, Reading, Writing
<1>1. ASSUME NEW p \in Proc, NEW n \in 0 .. MAXN, pipewrite(p, n) \/ piperead(p, n)
      PROVE  EndInv'
  BY SMTT(60), <1>1 DEF pipewrite, piperead, Goto, endvars
<1>2. ASSUME NEW p \in Proc, write_acquire(p) \/ read_acquire(p) \/ sleep(p)
      PROVE  EndInv'
  BY SMTT(60), <1>2 DEF write_acquire, read_acquire, sleep, Goto, endvars
<1>3. ASSUME NEW p \in Proc, write_full(p)
      PROVE  EndInv'
  BY SMTT(60), <1>3 DEF write_full, Return, WakeAnd, Goto, endvars
<1>4. ASSUME NEW p \in Proc, write_byte(p) \/ read_byte(p)
      PROVE  EndInv'
  BY SMTT(60), <1>4 DEF write_byte, read_byte, endvars
<1>5. ASSUME NEW p \in Proc, write_return(p) \/ read_return(p)
      PROVE  EndInv'
  BY SMTT(60), <1>5 DEF write_return, read_return, WakeAnd, endvars
<1>6. ASSUME NEW p \in Proc, read_wait(p)
      PROVE  EndInv'
  BY <1>6 DEF read_wait, Return, Goto, endvars
<1>7. ASSUME NEW p \in Proc, kill(p)
      PROVE  EndInv'
  BY <1>7 DEF kill, endvars
<1>8. ASSUME NEW p \in Proc, fileclose(p)
      PROVE  EndInv'
  <2>1. CASE p \in rfd /\ rfd' = rfd \ {p} /\ wfd' = wfd
    BY SMTT(60), <1>8, <2>1 DEF fileclose, Goto
  <2>2. CASE p \in wfd /\ wfd' = wfd \ {p} /\ rfd' = rfd
    BY SMTT(60), <1>8, <2>2 DEF fileclose, Goto
  <2> QED
    BY <1>8, <2>1, <2>2 DEF fileclose
<1>9. ASSUME NEW p \in Proc, pipeclose(p)
      PROVE  EndInv'
  <2>1. CASE pc[p] = "close_w"
    BY SMTT(60), <1>9, <2>1 DEF pipeclose, WakeAnd
  <2>2. CASE pc[p] = "close_r"
    BY SMTT(60), <1>9, <2>2 DEF pipeclose, WakeAnd
  <2> QED
    BY <1>9, <2>1, <2>2 DEF pipeclose
<1>10. CASE UNCHANGED vars
  BY <1>10 DEF vars
<1> QED
  BY <1>1, <1>2, <1>3, <1>4, <1>5, <1>6, <1>7, <1>8, <1>9, <1>10 DEF Next, CallStep

-----------------------------------------------------------------------------
(* Sleeping.  A killed writer returns from a full pipe without a wakeup    *)
(* (pipe.c:86), so that no writer may be killed here.                      *)

LEMMA SleepStep ==
  ASSUME MayKill \cap Writers = {}, TypeInv, LockInv, EndInv, SleepInv, [Next]_vars
  PROVE  SleepInv'
<1> USE DEF TypeInv, LockInv, Holding, SleepInv
<1>1. ASSUME NEW p \in Proc, NEW n \in 0 .. MAXN, pipewrite(p, n) \/ piperead(p, n)
      PROVE  SleepInv'
  BY <1>1 DEF pipewrite, piperead, Goto, endvars, ringvars, Empty, Full
<1>2. ASSUME NEW p \in Proc, write_acquire(p) \/ read_acquire(p)
      PROVE  SleepInv'
  BY <1>2 DEF write_acquire, read_acquire, Goto, endvars, ringvars, Empty, Full
<1>3. ASSUME NEW p \in Proc, write_full(p)
      PROVE  SleepInv'
  <2> USE <1>3 DEF write_full
  <2>1. CASE ~readopen \/ killed[p]
    <3>1. p \in wfd /\ ~killed[p]
      BY DEF EndInv, Writing
    <3>2. \A q \in Proc : pc[q] # "r_asleep"
      BY <2>1, <3>1 DEF EndInv, Reading
    <3> QED
      BY <2>1, <3>1, <3>2 DEF Return, Goto, endvars, ringvars, Empty, Full
  <2>2. CASE readopen /\ ~killed[p]
    BY <2>2 DEF WakeAnd, endvars, ringvars, Empty, Full
  <2> QED
    BY <2>1, <2>2
<1>4. ASSUME NEW p \in Proc, write_byte(p)
      PROVE  SleepInv'
  <2>1. lock = {p} /\ ~Full
    BY <1>4 DEF write_byte
  <2>2. \A q \in Proc : pc[q] \notin {"w_asleep", "r_sleep", "w_sleep"}
    BY <1>4, <2>1 DEF write_byte
  <2> QED
    BY <1>4, <2>2 DEF write_byte, endvars
<1>5. ASSUME NEW p \in Proc, read_byte(p)
      PROVE  SleepInv'
  <2>1. lock = {p} /\ ~Empty
    BY <1>5 DEF read_byte
  <2>2. \A q \in Proc : pc[q] \notin {"r_asleep", "r_sleep", "w_sleep"}
    BY <1>5, <2>1 DEF read_byte
  <2> QED
    BY <1>5, <2>2 DEF read_byte, endvars
<1>6. ASSUME NEW p \in Proc, write_return(p)
      PROVE  SleepInv'
  BY <1>6 DEF write_return, WakeAnd, endvars, ringvars, Empty, Full
<1>7. ASSUME NEW p \in Proc, read_return(p)
      PROVE  SleepInv'
  BY <1>7 DEF read_return, WakeAnd, endvars, ringvars, Empty, Full
<1>8. ASSUME NEW p \in Proc, read_wait(p)
      PROVE  SleepInv'
  BY <1>8 DEF read_wait, Return, Goto, endvars, ringvars, Empty, Full
<1>9. ASSUME NEW p \in Proc, sleep(p)
      PROVE  SleepInv'
  BY <1>9 DEF sleep, Goto, endvars, ringvars, Empty, Full
<1>10. ASSUME NEW p \in Proc, kill(p)
       PROVE  SleepInv'
  BY <1>10 DEF kill, endvars, ringvars, Empty, Full
<1>11. ASSUME NEW p \in Proc, fileclose(p)
       PROVE  SleepInv'
  BY SMTT(60), <1>11 DEF fileclose, Goto, ringvars, Empty, Full
<1>12. ASSUME NEW p \in Proc, pipeclose(p)
       PROVE  SleepInv'
  <2>1. \A q \in Proc : pc[q] \notin Holding
    BY <1>12 DEF pipeclose
  <2>2. CASE pc[p] = "close_w"
    BY SMTT(60), <1>12, <2>1, <2>2 DEF pipeclose, WakeAnd, ringvars, Empty, Full
  <2>3. CASE pc[p] = "close_r"
    BY SMTT(60), <1>12, <2>1, <2>3 DEF pipeclose, WakeAnd, ringvars, Empty, Full
  <2> QED
    BY <1>12, <2>2, <2>3 DEF pipeclose
<1>13. CASE UNCHANGED vars
  BY <1>13 DEF vars, Empty, Full
<1> QED
  BY <1>1, <1>2, <1>3, <1>4, <1>5, <1>6, <1>7, <1>8, <1>9, <1>10, <1>11, <1>12, <1>13
     DEF Next, CallStep

-----------------------------------------------------------------------------
(* The ring.                                                               *)

\* pipewrite()'s test for a full pipe works across the wrap of the counters.
LEMMA NotFull ==
  ASSUME RingInv, ~Full
  PROVE  wcount < rcount + PIPESIZE
<1> SUFFICES ASSUME wcount = rcount + PIPESIZE
             PROVE  FALSE
  BY SMTT(60), PipeAssumption DEF RingInv
<1>1. ((rcount % UINT) + PIPESIZE) % UINT = (rcount + PIPESIZE) % UINT
  BY ModPlus, PipeAssumption DEF RingInv
<1> QED
  BY <1>1 DEF RingInv, Full

LEMMA RingStep ==
  ASSUME RingInv, [Next]_vars
  PROVE  RingInv'
<1>1. CASE UNCHANGED ringvars
  BY <1>1 DEF RingInv, ringvars
<1>2. ASSUME NEW p \in Proc, write_byte(p)
      PROVE  RingInv'
  <2> DEFINE w == wcount
  <2>0. PIPESIZE \in Nat \ {0} /\ UINT \in Nat \ {0} /\ UINT % PIPESIZE = 0
    BY PipeAssumption
  <2>1. w < rcount + PIPESIZE /\ w \in Nat
    BY <1>2, NotFull DEF write_byte, RingInv
  <2>2. nwrite' = (w + 1) % UINT
    <3>1. ((w % UINT) + 1) % UINT = (w + 1) % UINT
      <4>1. PICK k \in Nat : k = 1
        BY SMTT(60)
      <4>2. ((w % UINT) + k) % UINT = (w + k) % UINT
        BY ModPlus, <2>0, <2>1
      <4> QED
        BY <4>1, <4>2
    <3> QED
      BY <1>2, <3>1 DEF write_byte, RingInv
  <2>3. nwrite % PIPESIZE = w % PIPESIZE /\ w % PIPESIZE \in 0 .. PIPESIZE - 1
    <3>1. (w % UINT) % PIPESIZE = w % PIPESIZE
      BY ModMod, <2>0, <2>1
    <3>2. w % PIPESIZE \in 0 .. PIPESIZE - 1
      <4>1. PICK q \in Nat, r \in 0 .. PIPESIZE - 1 : w % PIPESIZE = r /\ w = PIPESIZE * q + r
        BY DivMod, <2>0, <2>1
      <4> QED
        BY <4>1
    <3> QED
      BY <3>1, <3>2 DEF RingInv
  <2>4. data' = [data EXCEPT ![w % PIPESIZE] = w + 1]
    BY <1>2, <2>3 DEF write_byte
  <2>5. ASSUME NEW i \in rcount .. w
        PROVE  data'[i % PIPESIZE] = i + 1
    <3>1. CASE i = w
      BY <2>3, <2>4, <3>1 DEF RingInv
    <3>2. CASE i # w
      <4>1. i \in Nat /\ w - i \in 1 .. PIPESIZE - 1 /\ i + (w - i) = w
        BY SMTT(60), <2>1, <3>2, PipeAssumption DEF RingInv
      <4>2. w % PIPESIZE # i % PIPESIZE
        BY <4>1, ModClose, PipeAssumption
      <4>3. data[i % PIPESIZE] = i + 1 /\ i % PIPESIZE \in 0 .. PIPESIZE - 1
        <5>1. i \in rcount .. wcount - 1
          BY SMTT(60), <3>2, <4>1, <2>1 DEF RingInv
        <5>2. i % PIPESIZE \in 0 .. PIPESIZE - 1
          BY SMTT(60), <4>1, PipeAssumption
        <5> QED
          BY <5>1, <5>2 DEF RingInv
      <4> QED
        BY <2>4, <4>2, <4>3 DEF RingInv
    <3> QED
      BY <3>1, <3>2
  <2>6. /\ wcount' = w + 1 /\ rcount' = rcount /\ nread' = nread
        /\ rcount \in Nat /\ rcount <= w /\ nread = rcount % UINT
        /\ data \in [0 .. PIPESIZE - 1 -> Nat]
    BY <1>2 DEF write_byte, RingInv
  <2>7. data' \in [0 .. PIPESIZE - 1 -> Nat]
    BY SMTT(60), <2>1, <2>3, <2>4, <2>6
  <2>8. wcount' \in Nat /\ rcount <= wcount' /\ wcount' <= rcount + PIPESIZE /\ wcount' - 1 = w
    BY SMTT(60), <2>1, <2>6, PipeAssumption
  <2> HIDE DEF w
  <2> QED
    BY <2>2, <2>5, <2>6, <2>7, <2>8 DEF RingInv
<1>3. ASSUME NEW p \in Proc, read_byte(p)
      PROVE  RingInv'
  <2>1. rcount < wcount
    BY SMTT(60), <1>3 DEF read_byte, RingInv, Empty
  <2>2. ((rcount % UINT) + 1) % UINT = (rcount + 1) % UINT
    <3>1. rcount \in Nat /\ 1 \in Nat
      BY DEF RingInv
    <3> QED
      BY <3>1, ModPlus, PipeAssumption
  <2>3. /\ rcount' = rcount + 1 /\ nread' = (nread + 1) % UINT
        /\ data' = data /\ nwrite' = nwrite /\ wcount' = wcount
    BY <1>3 DEF read_byte
  <2>4. rcount' \in Nat /\ rcount' <= wcount /\ wcount <= rcount' + PIPESIZE
        /\ rcount' .. wcount - 1 \subseteq rcount .. wcount - 1
    BY SMTT(60), <2>1, <2>3, PipeAssumption DEF RingInv
  <2>5. nread' = rcount' % UINT
    BY <2>2, <2>3 DEF RingInv
  <2> QED
    BY <2>3, <2>4, <2>5 DEF RingInv
<1> QED
  BY <1>1, <1>2, <1>3 DEF Next, CallStep, vars, ringvars, pipewrite, write_acquire, write_full,
     write_return, piperead, read_acquire, read_wait, read_return, sleep, kill, fileclose, pipeclose

LEMMA RingIsFifo ==
  ASSUME RingInv
  PROVE  Fifo
<1> DEFINE d == wcount - rcount
<1>1. d \in 0 .. PIPESIZE /\ d \in 0 .. UINT - 1 /\ rcount \in Nat /\ rcount + d = wcount
  BY SMTT(60), PipeAssumption DEF RingInv
<1>2. (nwrite - nread) % UINT = d
  <2>1. (((rcount + d) % UINT) - (rcount % UINT)) % UINT = d
    BY <1>1, ModDiff, PipeAssumption
  <2> QED
    BY <1>1, <2>1 DEF RingInv
<1>3. ASSUME NEW k \in 0 .. d - 1
      PROVE  data[(nread + k) % PIPESIZE] = rcount + k + 1
  <2> DEFINE r == rcount % UINT
  <2>1. k \in Nat /\ r \in Nat /\ nread = r
    BY SMTT(60), <1>1, PipeAssumption DEF RingInv
  <2>2. (r + k) % PIPESIZE = ((r % PIPESIZE) + k) % PIPESIZE
    BY <2>1, ModPlus, PipeAssumption
  <2>3. r % PIPESIZE = rcount % PIPESIZE
    BY <1>1, ModMod, PipeAssumption
  <2>4. ((rcount % PIPESIZE) + k) % PIPESIZE = (rcount + k) % PIPESIZE
    BY <1>1, <2>1, ModPlus, PipeAssumption
  <2>5. data[(rcount + k) % PIPESIZE] = rcount + k + 1
    BY SMTT(60), <1>1, <2>1 DEF RingInv
  <2> QED
    BY <2>1, <2>2, <2>3, <2>4, <2>5
<1> QED
  BY <1>1, <1>2, <1>3 DEF Fifo

-----------------------------------------------------------------------------
(* Results.                                                                *)

\* Every byte put into the pipe is taken out once and in order, also when the
\* counters of pipe.c wrap, by any number of readers and writers.
THEOREM PipeIsFifo == Spec => []Fifo
<1>1. Init => RingInv
  <2> SUFFICES ASSUME Init PROVE RingInv
    OBVIOUS
  <2>1. 0 % UINT = 0
    <3>1. 0 = UINT * 0 + 0 /\ 0 \in 0 .. UINT - 1
      BY SMTT(60), PipeAssumption
    <3> QED
      BY SMTT(60), <3>1, Unique, PipeAssumption
  <2> QED
    BY SMTT(60), <2>1, PipeAssumption DEF Init, RingInv
<1>2. RingInv /\ [Next]_vars => RingInv'
  BY RingStep
<1>3. RingInv => Fifo
  BY RingIsFifo
<1> QED
  BY <1>1, <1>2, <1>3, PTL DEF Spec

\* The invariant of the control of pipe.c.
ControlInv == TypeInv /\ LockInv /\ EndInv

LEMMA ControlInit ==
  ASSUME Init
  PROVE  ControlInv
<1>1. TypeInv
  <2>1. pc \in [Proc -> Places]
    BY DEF Init, Places
  <2>2. want \in [Proc -> 0 .. MAXN]
    BY SMTT(60), PipeAssumption DEF Init
  <2>3. killed \in [Proc -> BOOLEAN]
    BY DEF Init
  <2> QED
    BY <2>1, <2>2, <2>3 DEF Init, TypeInv
<1>2. LockInv
  BY DEF Init, LockInv, Holding
<1>3. EndInv
  BY DEF Init, EndInv, Reading, Writing
<1> QED
  BY <1>1, <1>2, <1>3 DEF ControlInv

\* pipeclose() frees the pipe only when no process can use it any more.
THEOREM PipeFreedUnused == Spec => []FreedUnused
<1>1. Init => ControlInv
  BY ControlInit
<1>2. ControlInv /\ [Next]_vars => ControlInv'
  BY TypeStep, LockStep, EndStep DEF ControlInv
<1>3. ControlInv => FreedUnused
  BY DEF ControlInv, TypeInv, EndInv, FreedUnused, Places
<1> QED
  BY <1>1, <1>2, <1>3, PTL DEF Spec

\* No wakeup of pipe.c is lost, if no writer is killed.
THEOREM PipeSleepersNeeded ==
  ASSUME MayKill \cap Writers = {}
  PROVE  Spec => []SleepersNeeded
<1>1. Init => ControlInv /\ SleepInv
  <2> SUFFICES ASSUME Init PROVE ControlInv /\ SleepInv
    OBVIOUS
  <2>1. SleepInv
    BY DEF Init, SleepInv
  <2> QED
    BY <2>1, ControlInit
<1>2. ControlInv /\ SleepInv /\ [Next]_vars => (ControlInv /\ SleepInv)'
  BY TypeStep, LockStep, EndStep, SleepStep DEF ControlInv
<1>3. ControlInv /\ SleepInv => SleepersNeeded
  BY DEF ControlInv, SleepInv, LockInv, Holding, SleepersNeeded
<1> QED
  BY <1>1, <1>2, <1>3, PTL DEF Spec
=============================================================================
