----------------------------- MODULE BioProofs -----------------------------
(***************************************************************************)
(* The safety properties of module Bio, for any number of processes,       *)
(* buffers and blocks that BioAssumption allows.                           *)
(***************************************************************************)
EXTENDS Bio, FiniteSetTheorems, WellFoundedInduction, TLAPS

USE ZenonT(120)

TypeInv ==
  /\ blockno \in [Buf -> Block \cup {NoBlock}]
  /\ valid \in [Buf -> BOOLEAN]
  /\ refcnt \in [Buf -> Nat]
  /\ lock \in [Buf -> Proc \cup {NoProc}]
  /\ data \in [Buf -> Val] /\ disk \in [Block -> Val] /\ latest \in [Block -> Val]
  /\ pc \in [Proc -> Using \cup {"idle"}]
  /\ blk \in [Proc -> Block \cup {NoBlock}]
  /\ buf \in [Proc -> Buf]
  /\ \A p \in Proc : pc[p] \in Using => blk[p] \in Block
  /\ pins \subseteq Block
  /\ since \in Nat

\* Every buffer is on the list once.
ListInv ==
  /\ lru \in [Buf -> Buf]
  /\ \A i, j \in Buf : lru[i] = lru[j] => i = j
  /\ \A b \in Buf : \E i \in Buf : lru[i] = b

-----------------------------------------------------------------------------
(* The list.                                                               *)

\* A set of numbers up to N that is not empty has a greatest element.
LEMMA HasLast ==
  ASSUME NEW N \in Nat, NEW S \in SUBSET (1 .. N), S # {}
  PROVE  \E i \in S : \A j \in S : j <= i
<1> DEFINE R == OpToRel(<, Nat)
           T == {n \in Nat : N - n \in S}
<1>1. T \subseteq Nat /\ T # {}
  <2>1. PICK i \in S : TRUE
    OBVIOUS
  <2>2. N - i \in Nat /\ N - (N - i) = i
    BY SMTT(60)
  <2> QED
    BY <2>1, <2>2
<1>2. PICK n \in T : \A m \in T : ~(<<m, n>> \in R)
  BY <1>1, WFMin, NatLessThanWellFounded
<1>3. \A m \in T : n <= m
  <2> SUFFICES ASSUME NEW m \in T, m < n
               PROVE  FALSE
    BY SMTT(60)
  <2>1. <<m, n>> \in R
    BY <1>1 DEF OpToRel
  <2> QED
    BY <1>2, <2>1
<1>4. ASSUME NEW j \in S
      PROVE  j <= N - n
  <2>1. N - j \in Nat /\ N - (N - j) = j
    BY SMTT(60)
  <2>2. n <= N - j
    BY <1>3, <2>1
  <2> QED
    BY SMTT(60), <2>1, <2>2
<1> QED
  BY <1>4

\* bget() recycles a buffer of the list.
LEMMA LastOfIn ==
  ASSUME ListInv, NEW S \in SUBSET Buf, S # {}
  PROVE  LastOf(S) \in S
<1> DEFINE T == {i \in Buf : lru[i] \in S}
<1>1. T \in SUBSET (1 .. NBUF) /\ T # {}
  <2>1. PICK b \in S : b \in Buf
    OBVIOUS
  <2>2. PICK i \in Buf : lru[i] = b
    BY <2>1 DEF ListInv
  <2> QED
    BY <2>1, <2>2 DEF Buf
<1>2. PICK i \in T : \A j \in T : j <= i
  BY <1>1, HasLast, BioAssumption
<1>3. \A j \in i + 1 .. NBUF : lru[j] \notin S
  BY SMTT(60), <1>2, BioAssumption DEF Buf
<1>4. \E m \in Buf : lru[m] \in S /\ \A j \in m + 1 .. NBUF : lru[j] \notin S
  BY <1>2, <1>3
<1> QED
  BY <1>4 DEF LastOf

LEMMA FirstOfOne ==
  ASSUME ListInv, NEW b \in Buf
  PROVE  FirstOf({b}) = b
<1>1. PICK i \in Buf : lru[i] = b
  BY DEF ListInv
<1>2. \A j \in 1 .. i - 1 : lru[j] \notin {b}
  BY SMTT(60), <1>1, BioAssumption DEF ListInv, Buf
<1>3. \E m \in Buf : lru[m] \in {b} /\ \A j \in 1 .. m - 1 : lru[j] \notin {b}
  BY <1>1, <1>2
<1> QED
  BY <1>3 DEF FirstOf

\* The end of brelse() keeps every buffer on the list.
LEMMA ListStep ==
  ASSUME ListInv, TypeInv, [Next]_vars
  PROVE  ListInv'
<1>1. CASE UNCHANGED lru
  BY <1>1 DEF ListInv
<1>2. ASSUME NEW b \in Buf, lru' = MoveToFront(b)
      PROVE  ListInv'
  <2>1. PICK n \in Buf : lru[n] = b
    BY DEF ListInv
  <2>2. \A i \in Buf : (\E j \in 1 .. i - 1 : lru[j] = b) <=> n < i
    <3> SUFFICES ASSUME NEW i \in Buf
                 PROVE  (\E j \in 1 .. i - 1 : lru[j] = b) <=> n < i
      OBVIOUS
    <3>1. ASSUME NEW j \in 1 .. i - 1, lru[j] = b
          PROVE  n < i
      <4>1. j \in Buf /\ j < i
        BY SMTT(60), BioAssumption DEF Buf
      <4>2. j = n
        BY <2>1, <3>1, <4>1 DEF ListInv
      <4> QED
        BY <4>1, <4>2
    <3>2. ASSUME n < i
          PROVE  n \in 1 .. i - 1
      BY SMTT(60), <3>2, BioAssumption DEF Buf
    <3> QED
      BY <2>1, <3>1, <3>2
  <2>3. lru' = [i \in Buf |-> IF i = 1 THEN b ELSE IF n < i THEN lru[i] ELSE lru[i - 1]]
    BY <1>2, <2>2 DEF MoveToFront
  <2>4. \A i \in Buf : i # 1 => i - 1 \in Buf
    BY SMTT(60), BioAssumption DEF Buf
  <2>5. lru' \in [Buf -> Buf]
    BY <2>3, <2>4 DEF ListInv
  <2>6. ASSUME NEW i \in Buf, NEW j \in Buf, lru'[i] = lru'[j]
        PROVE  i = j
    <3> DEFINE from(x) == IF x = 1 THEN n ELSE IF n < x THEN x ELSE x - 1
    <3>1. \A x \in Buf : lru'[x] = lru[from(x)] /\ from(x) \in Buf
      BY <2>1, <2>3, <2>4
    <3>2. from(i) = from(j)
      BY SMTT(60), <2>6, <3>1 DEF ListInv
    <3> QED
      BY SMTT(60), <3>2, BioAssumption DEF Buf
  <2>7. ASSUME NEW c \in Buf
        PROVE  \E i \in Buf : lru'[i] = c
    <3>1. PICK m \in Buf : lru[m] = c
      BY DEF ListInv
    <3>2. CASE m = n
      <4>1. 1 \in Buf /\ lru'[1] = b
        BY SMTT(60), <2>3, BioAssumption DEF Buf
      <4> QED
        BY <2>1, <3>1, <3>2, <4>1
    <3>3. CASE n < m
      BY SMTT(60), <2>3, <3>1, <3>3, BioAssumption DEF Buf
    <3>4. CASE m < n
      <4>1. m + 1 \in Buf /\ m + 1 # 1 /\ ~(n < m + 1) /\ (m + 1) - 1 = m
        BY SMTT(60), <3>4, BioAssumption DEF Buf
      <4>2. lru'[m + 1] = c
        BY <2>3, <3>1, <4>1
      <4> QED
        BY <4>1, <4>2
    <3> QED
      BY SMTT(60), <3>2, <3>3, <3>4 DEF Buf
  <2> QED
    BY <2>5, <2>6, <2>7 DEF ListInv
<1>3. ASSUME NEW p \in Proc, brelse(p)
      PROVE  ListInv'
  BY <1>1, <1>2, <1>3 DEF brelse, TypeInv
<1> QED
  BY <1>1, <1>3 DEF Next, ProcStep, vars, cachevars, bget, acquiresleep, bread,
     releasesleep, bwrite, bpin, bunpin, recover_bunpin

-----------------------------------------------------------------------------
(* Types, and one buffer for a block.                                      *)

\* The remainder is the only one.
LEMMA Unique ==
  ASSUME NEW m \in Nat \ {0}, NEW q \in Int, NEW r \in 0 .. m - 1, NEW n \in Int, n = m * q + r
  PROVE  n % m = r
BY SMTT(60)

LEMMA RefArithmetic ==
  ASSUME NEW n \in Nat
  PROVE  /\ Incr(n) \in Nat /\ Decr(n) \in Nat
         /\ n + 1 < REFMOD => Incr(n) = n + 1
         /\ 0 < n /\ n < REFMOD => Decr(n) = n - 1
<1> USE BioAssumption DEF Incr, Decr
<1>1. REFMOD \in Nat \ {0}
  BY SMTT(60), FS_CardinalityType
<1>2. (n + 1) % REFMOD \in Nat
  <2>1. n + 1 \in Nat
    BY SMTT(60)
  <2> QED
    BY SMTT(60), <1>1, <2>1
<1>3. (n + REFMOD - 1) % REFMOD \in Nat
  <2>1. n + REFMOD - 1 \in Nat
    BY SMTT(60), <1>1
  <2> QED
    BY SMTT(60), <1>1, <2>1
<1>4. ASSUME n + 1 < REFMOD
      PROVE  (n + 1) % REFMOD = n + 1
  <2>1. n + 1 = REFMOD * 0 + (n + 1) /\ n + 1 \in 0 .. REFMOD - 1
    BY SMTT(60), <1>1, <1>4
  <2> QED
    BY SMTT(60), <1>1, <2>1, Unique
<1>5. ASSUME 0 < n, n < REFMOD
      PROVE  (n + REFMOD - 1) % REFMOD = n - 1
  <2>1. n + REFMOD - 1 = REFMOD * 1 + (n - 1) /\ n - 1 \in 0 .. REFMOD - 1
    BY SMTT(60), <1>1, <1>5
  <2>2. n + REFMOD - 1 \in Nat
    BY SMTT(60), <1>1
  <2> QED
    BY SMTT(60), <1>1, <2>1, <2>2, Unique
<1> QED
  BY <1>2, <1>3, <1>4, <1>5

\* bget() finds the buffer of the block, or one that nobody uses.
LEMMA BgetFinds ==
  ASSUME ListInv, TypeInv, OneBufferPerBlock, NEW k \in Block
  PROVE  /\ CachedIn(k) # {} => FirstOf(CachedIn(k)) \in CachedIn(k)
         /\ Free # {} => LastOf(Free) \in Free
<1>1. ASSUME NEW b \in CachedIn(k)
      PROVE  CachedIn(k) = {b}
  BY <1>1, BioAssumption DEF CachedIn, OneBufferPerBlock
<1>2. ASSUME NEW b \in CachedIn(k)
      PROVE  FirstOf(CachedIn(k)) = b
  BY <1>1, <1>2, FirstOfOne DEF CachedIn
<1>3. Free \in SUBSET Buf
  BY DEF Free
<1> QED
  BY <1>2, <1>3, LastOfIn

LEMMA TypeStep ==
  ASSUME ListInv, TypeInv, OneBufferPerBlock, [Next]_vars
  PROVE  TypeInv'
<1> USE DEF TypeInv, Using
<1>1. ASSUME NEW p \in Proc, NEW k \in Block, bget(p, k)
      PROVE  TypeInv'
  <2>1. CASE CachedIn(k) # {}
    <3>1. FirstOf(CachedIn(k)) \in Buf
      BY <2>1, BgetFinds DEF CachedIn
    <3>2. Incr(refcnt[FirstOf(CachedIn(k))]) \in Nat
      BY <3>1, RefArithmetic
    <3> QED
      BY SMTT(60), <1>1, <2>1, <3>1, <3>2 DEF bget
  <2>2. CASE CachedIn(k) = {} /\ Free # {}
    <3>1. LastOf(Free) \in Buf
      BY <2>2, BgetFinds DEF Free
    <3> DEFINE b == LastOf(Free)
    <3>2. /\ blockno' = [blockno EXCEPT ![b] = k] /\ valid' = [valid EXCEPT ![b] = FALSE]
          /\ refcnt' = [refcnt EXCEPT ![b] = 1] /\ buf' = [buf EXCEPT ![p] = b]
          /\ pc' = [pc EXCEPT ![p] = "lock"] /\ blk' = [blk EXCEPT ![p] = k]
          /\ since' = IF since = 0 THEN 0 ELSE since + 1
          /\ UNCHANGED <<lock, data, disk, pins, latest>>
      BY <1>1, <2>2 DEF bget
    <3>3. b \in Buf
      BY <3>1
    <3> HIDE DEF b
    <3> QED
      BY SMTT(60), <3>2, <3>3
  <2>3. CASE CachedIn(k) = {} /\ Free = {}
    BY SMTT(60), <1>1, <2>3 DEF bget
  <2> QED
    BY <2>1, <2>2, <2>3
<1>2. ASSUME NEW p \in Proc, acquiresleep(p)
      PROVE  TypeInv'
  BY SMTT(60), <1>2 DEF acquiresleep, cachevars, clientvars
<1>3. ASSUME NEW p \in Proc, bread(p)
      PROVE  TypeInv'
  BY <1>3 DEF bread, clientvars
<1>4. ASSUME NEW p \in Proc, releasesleep(p)
      PROVE  TypeInv'
  BY <1>4 DEF releasesleep, cachevars, clientvars
<1>5. ASSUME NEW p \in Proc, brelse(p)
      PROVE  TypeInv'
  <2>1. Decr(refcnt[buf[p]]) \in Nat /\ 1 \in Buf
    <3>1. refcnt[buf[p]] \in Nat
      OBVIOUS
    <3>2. 1 \in Buf
      BY SMTT(60), BioAssumption DEF Buf
    <3> QED
      BY <3>1, <3>2, RefArithmetic
  <2> QED
    BY <1>5, <2>1 DEF brelse
<1>6. ASSUME NEW p \in Proc, NEW v \in Val, bwrite(p, v)
      PROVE  TypeInv'
  BY <1>6 DEF bwrite, Modify, cachevars
<1>7. ASSUME NEW p \in Proc, NEW v \in Val, bpin(p, v)
      PROVE  TypeInv'
  <2>1. Incr(refcnt[buf[p]]) \in Nat
    BY RefArithmetic
  <2> QED
    BY <1>7, <2>1 DEF bpin, Modify, Holds
<1>8. ASSUME NEW p \in Proc, bunpin(p)
      PROVE  TypeInv'
  <2>1. Decr(refcnt[buf[p]]) \in Nat
    BY RefArithmetic
  <2> QED
    BY <1>8, <2>1 DEF bunpin
<1>9. ASSUME NEW p \in Proc, NEW v \in Val, recover_bunpin(p, v)
      PROVE  TypeInv'
  <2>1. Decr(refcnt[buf[p]]) \in Nat
    BY RefArithmetic
  <2> QED
    BY <1>9, <2>1 DEF recover_bunpin, Modify, Holds
<1>10. CASE UNCHANGED vars
  BY <1>10 DEF vars
<1> QED
  BY <1>1, <1>2, <1>3, <1>4, <1>5, <1>6, <1>7, <1>8, <1>9, <1>10 DEF Next, ProcStep

LEMMA OneBufferStep ==
  ASSUME TypeInv, OneBufferPerBlock, [Next]_vars
  PROVE  OneBufferPerBlock'
<1>1. CASE UNCHANGED blockno
  BY <1>1 DEF OneBufferPerBlock
<1>2. ASSUME NEW p \in Proc, NEW k \in Block, bget(p, k)
      PROVE  OneBufferPerBlock'
  BY SMTT(60), <1>1, <1>2 DEF bget, CachedIn, OneBufferPerBlock, TypeInv
<1> QED
  BY <1>1, <1>2 DEF Next, ProcStep, vars, cachevars, acquiresleep, bread,
     releasesleep, brelse, bwrite, bpin, bunpin, recover_bunpin

-----------------------------------------------------------------------------
(* Reference counts, locks and contents, after a boot that recovered       *)
(* nothing.                                                                *)

Users(b) == {p \in Proc : pc[p] \in Using /\ buf[p] = b}
Pinned(b) == IF blockno[b] \in pins THEN 1 ELSE 0

\* refcnt counts the processes that use the buffer, and the log.
RefInv == \A b \in Buf : refcnt[b] = Cardinality(Users(b)) + Pinned(b)

\* A locked buffer is locked by the process that is reading or changing it.
LockInv == \A p \in Proc : pc[p] \in {"fill", "held", "installed"} => lock[buf[p]] = p

\* A valid buffer has the last contents of its block; so has the disk, unless
\* the block is in the log, and then it is in a valid buffer.
DataInv ==
  /\ \A b \in Buf : valid[b] /\ blockno[b] \in Block => data[b] = latest[blockno[b]]
  /\ \A k \in Block \ pins : disk[k] = latest[k]
  /\ \A k \in pins : \E b \in Buf : blockno[b] = k /\ valid[b]
  /\ \A p \in Proc : pc[p] = "held" => valid[buf[p]]

CacheInv == BufferAlwaysMine /\ RefInv /\ LockInv /\ DataInv

LEMMA UsersFinite ==
  ASSUME NEW b
  PROVE  /\ IsFiniteSet(Users(b)) /\ Cardinality(Users(b)) \in Nat
         /\ Cardinality(Users(b)) <= Cardinality(Proc) /\ Cardinality(Proc) \in Nat
<1>1. Users(b) \in SUBSET Proc
  BY DEF Users
<1> QED
  BY <1>1, FS_Subset, FS_CardinalityType, BioAssumption

\* Nobody uses or has pinned a buffer that bget() recycles.
LEMMA FreeUnused ==
  ASSUME TypeInv, RefInv, NEW b \in Free
  PROVE  b \in Buf /\ Users(b) = {} /\ blockno[b] \notin pins
<1>1. b \in Buf /\ refcnt[b] = 0
  BY DEF Free
<1>2. Cardinality(Users(b)) = 0 /\ Pinned(b) = 0
  BY SMTT(60), <1>1, UsersFinite DEF RefInv, Pinned
<1> QED
  BY SMTT(60), <1>1, <1>2, UsersFinite, FS_EmptySet DEF Pinned

LEMMA BgetCached ==
  ASSUME ListInv, TypeInv, OneBufferPerBlock, CacheInv,
         NEW p \in Proc, NEW k \in Block, bget(p, k), CachedIn(k) # {}
  PROVE  CacheInv'
<1> DEFINE b == FirstOf(CachedIn(k))
<1>1. b \in Buf /\ blockno[b] = k
  BY BgetFinds DEF CachedIn
<1>2. /\ pc[p] = "idle"
      /\ refcnt' = [refcnt EXCEPT ![b] = Incr(@)] /\ buf' = [buf EXCEPT ![p] = b]
      /\ pc' = [pc EXCEPT ![p] = "lock"] /\ blk' = [blk EXCEPT ![p] = k]
      /\ UNCHANGED <<blockno, valid, lock, data, disk, pins, latest>>
  BY DEF bget
<1> HIDE DEF b
<1>3. BufferAlwaysMine'
  BY <1>1, <1>2 DEF BufferAlwaysMine, Mine, CacheInv, TypeInv
<1>4. LockInv'
  BY <1>1, <1>2 DEF LockInv, CacheInv, TypeInv
<1>5. DataInv'
  BY <1>1, <1>2 DEF DataInv, CacheInv, TypeInv
<1>6. ASSUME NEW c \in Buf
      PROVE  refcnt'[c] = Cardinality(Users(c)') + Pinned(c)'
  <2>1. Pinned(c)' = Pinned(c) /\ refcnt[c] = Cardinality(Users(c)) + Pinned(c)
        /\ Pinned(c) \in 0 .. 1 /\ refcnt[c] \in Nat
    BY SMTT(60), <1>2 DEF Pinned, CacheInv, RefInv, TypeInv
  <2>2. CASE c # b
    <3>1. Users(c)' = Users(c)
      BY <1>2, <2>2 DEF Users, Using, TypeInv
    <3> QED
      BY <1>2, <2>1, <2>2, <3>1 DEF TypeInv
  <2>3. CASE c = b
    <3>1. Users(c)' = Users(c) \cup {p} /\ p \notin Users(c)
      BY <1>2, <2>3 DEF Users, Using, TypeInv
    <3>2. Cardinality(Users(c) \cup {p}) = Cardinality(Users(c)) + 1
      BY <3>1, UsersFinite, FS_AddElement
    <3>3. Cardinality(Users(c)) + 1 <= Cardinality(Proc)
      <4>1. Users(c) \cup {p} \in SUBSET Proc
        BY DEF Users
      <4> QED
        BY <4>1, <3>2, FS_Subset, BioAssumption
    <3>4. refcnt[c] + 1 < REFMOD
      BY SMTT(60), <2>1, <3>3, UsersFinite, BioAssumption
    <3>5. refcnt'[c] = refcnt[c] + 1
      BY <1>2, <2>1, <2>3, <3>4, RefArithmetic DEF TypeInv
    <3> QED
      BY SMTT(60), <2>1, <3>1, <3>2, <3>5, UsersFinite
  <2> QED
    BY <2>2, <2>3
<1> QED
  BY <1>3, <1>4, <1>5, <1>6 DEF CacheInv, RefInv

LEMMA BgetRecycled ==
  ASSUME ListInv, TypeInv, OneBufferPerBlock, CacheInv,
         NEW p \in Proc, NEW k \in Block, bget(p, k), CachedIn(k) = {}, Free # {}
  PROVE  CacheInv'
<1> DEFINE b == LastOf(Free)
<1>1. b \in Buf /\ Users(b) = {} /\ blockno[b] \notin pins
  BY BgetFinds, FreeUnused DEF CacheInv
<1>2. /\ pc[p] = "idle"
      /\ blockno' = [blockno EXCEPT ![b] = k] /\ valid' = [valid EXCEPT ![b] = FALSE]
      /\ refcnt' = [refcnt EXCEPT ![b] = 1] /\ buf' = [buf EXCEPT ![p] = b]
      /\ pc' = [pc EXCEPT ![p] = "lock"] /\ blk' = [blk EXCEPT ![p] = k]
      /\ UNCHANGED <<lock, data, disk, pins, latest>>
  BY DEF bget
<1> HIDE DEF b
<1>3. \A q \in Proc : pc[q] \in Using => buf[q] # b
  BY <1>1 DEF Users
<1>4. k \notin pins
  BY DEF CacheInv, DataInv, CachedIn
<1>5. BufferAlwaysMine'
  BY <1>1, <1>2, <1>3 DEF BufferAlwaysMine, Mine, CacheInv, TypeInv, Using
<1>6. LockInv'
  BY <1>1, <1>2, <1>3 DEF LockInv, CacheInv, TypeInv, Using
<1>7. DataInv'
  BY SMTT(60), <1>1, <1>2, <1>3 DEF DataInv, CacheInv, TypeInv, Using
<1>8. ASSUME NEW c \in Buf
      PROVE  refcnt'[c] = Cardinality(Users(c)') + Pinned(c)'
  <2>1. CASE c # b
    <3>1. Users(c)' = Users(c) /\ Pinned(c)' = Pinned(c)
      BY <1>2, <2>1 DEF Users, Using, Pinned, TypeInv
    <3> QED
      BY <1>2, <2>1, <3>1 DEF TypeInv, CacheInv, RefInv
  <2>2. CASE c = b
    <3>1. Users(c)' = {p} /\ Pinned(c)' = 0 /\ refcnt'[c] = 1
      BY <1>1, <1>2, <1>3, <1>4, <2>2 DEF Users, Using, Pinned, TypeInv
    <3> QED
      <4>1. Cardinality({p}) = 1
        BY FS_Singleton
      <4> QED
        BY SMTT(60), <3>1, <4>1
  <2> QED
    BY <2>1, <2>2
<1> QED
  BY <1>5, <1>6, <1>7, <1>8 DEF CacheInv, RefInv

\* The steps of a process that uses its buffer.
LEMMA UserSteps ==
  ASSUME TypeInv, OneBufferPerBlock, CacheInv, NEW p \in Proc,
         acquiresleep(p) \/ bread(p) \/ releasesleep(p)
  PROVE  CacheInv'
<1>1. UNCHANGED <<blockno, refcnt, blk, buf, pins, latest, disk>>
  BY DEF acquiresleep, bread, releasesleep, cachevars, clientvars
<1>2. \A q \in Proc : pc'[q] \in Using <=> pc[q] \in Using
  BY DEF acquiresleep, bread, releasesleep, Using, TypeInv
<1>3. BufferAlwaysMine'
  BY <1>1, <1>2 DEF CacheInv, BufferAlwaysMine, Mine
<1>4. RefInv'
  <2>1. \A b \in Buf : Users(b)' = Users(b) /\ Pinned(b)' = Pinned(b)
    BY <1>1, <1>2 DEF Users, Pinned
  <2> QED
    BY <1>1, <2>1 DEF CacheInv, RefInv
<1>5. LockInv'
  <2>1. CASE acquiresleep(p)
    BY SMTT(60), <1>1, <2>1, BioAssumption DEF acquiresleep, CacheInv, LockInv, TypeInv
  <2>2. CASE bread(p)
    BY <1>1, <2>2 DEF bread, CacheInv, LockInv, TypeInv
  <2>3. CASE releasesleep(p)
    <3>1. pc[p] \in {"held", "installed"} /\ lock' = [lock EXCEPT ![buf[p]] = NoProc]
      BY <2>3 DEF releasesleep
    <3>2. ASSUME NEW q \in Proc, pc'[q] \in {"fill", "held", "installed"}
          PROVE  q # p /\ pc[q] = pc'[q]
      BY <2>3, <3>2 DEF releasesleep
    <3>3. ASSUME NEW q \in Proc, pc'[q] \in {"fill", "held", "installed"}
          PROVE  lock'[buf[q]] = q
      BY <3>1, <3>2, <3>3 DEF CacheInv, LockInv, TypeInv
    <3> QED
      BY <1>1, <3>3 DEF LockInv
  <2> QED
    BY <2>1, <2>2, <2>3
<1>6. DataInv'
  <2>1. CASE acquiresleep(p)
    BY SMTT(60), <1>1, <2>1 DEF acquiresleep, cachevars, CacheInv, DataInv, TypeInv
  <2>2. CASE bread(p) /\ valid[buf[p]]
    BY SMTT(60), <1>1, <2>2 DEF bread, CacheInv, DataInv, TypeInv
  <2>3. CASE bread(p) /\ ~valid[buf[p]]
    <3> DEFINE b == buf[p]
    <3>1. /\ b \in Buf /\ ~valid[b] /\ blockno[b] \in Block
          /\ data' = [data EXCEPT ![b] = disk[blockno[b]]]
          /\ valid' = [valid EXCEPT ![b] = TRUE]
          /\ pc' = [pc EXCEPT ![p] = "held"]
      BY <2>3 DEF bread, TypeInv
    <3>2. blockno[b] \notin pins
      BY SMTT(60), <3>1, BioAssumption DEF CacheInv, DataInv, OneBufferPerBlock
    <3>3. disk[blockno[b]] = latest[blockno[b]]
      BY <3>1, <3>2 DEF CacheInv, DataInv
    <3> HIDE DEF b
    <3>4. \A c \in Buf : valid'[c] /\ blockno'[c] \in Block => data'[c] = latest'[blockno'[c]]
      BY <1>1, <3>1, <3>3 DEF CacheInv, DataInv, TypeInv
    <3>5. \A q \in Proc : pc'[q] = "held" => valid'[buf'[q]]
      BY <1>1, <3>1 DEF CacheInv, DataInv, TypeInv, b
    <3> QED
      BY <1>1, <3>1, <3>4, <3>5 DEF CacheInv, DataInv, TypeInv
  <2>4. CASE releasesleep(p)
    BY <1>1, <2>4 DEF releasesleep, cachevars, CacheInv, DataInv, TypeInv
  <2> QED
    BY <2>1, <2>2, <2>3, <2>4
<1> QED
  BY <1>3, <1>4, <1>5, <1>6 DEF CacheInv

LEMMA BrelseStep ==
  ASSUME TypeInv, CacheInv, NEW p \in Proc, brelse(p)
  PROVE  CacheInv'
<1> DEFINE b == buf[p]
<1>1. /\ b \in Buf /\ pc[p] = "unlocked" /\ pc' = [pc EXCEPT ![p] = "idle"]
      /\ refcnt' = [refcnt EXCEPT ![b] = Decr(@)]
      /\ blk' = [blk EXCEPT ![p] = NoBlock] /\ buf' = [buf EXCEPT ![p] = 1]
      /\ UNCHANGED <<blockno, valid, lock, data, disk, pins, latest>>
  BY DEF brelse, TypeInv
<1>2. BufferAlwaysMine'
  BY <1>1 DEF CacheInv, BufferAlwaysMine, Mine, TypeInv, Using
<1>3. LockInv'
  BY <1>1 DEF CacheInv, LockInv, TypeInv
<1>4. DataInv'
  BY <1>1 DEF CacheInv, DataInv, TypeInv
<1>5. ASSUME NEW c \in Buf
      PROVE  refcnt'[c] = Cardinality(Users(c)') + Pinned(c)'
  <2>1. Pinned(c)' = Pinned(c) /\ refcnt[c] = Cardinality(Users(c)) + Pinned(c)
        /\ Pinned(c) \in 0 .. 1 /\ refcnt[c] \in Nat
    BY SMTT(60), <1>1 DEF Pinned, CacheInv, RefInv, TypeInv
  <2>2. CASE c # b
    <3>1. Users(c)' = Users(c)
      BY <1>1, <2>2 DEF Users, Using, TypeInv
    <3> QED
      BY <1>1, <2>1, <2>2, <3>1 DEF TypeInv
  <2>3. CASE c = b
    <3>1. Users(c)' = Users(c) \ {p} /\ p \in Users(c)
      BY <1>1, <2>3 DEF Users, Using, TypeInv
    <3>2. Cardinality(Users(c) \ {p}) = Cardinality(Users(c)) - 1
          /\ Cardinality(Users(c) \ {p}) \in Nat
      BY <3>1, UsersFinite, FS_RemoveElement, FS_CardinalityType
    <3>3. 0 < refcnt[c] /\ refcnt[c] < REFMOD
      BY SMTT(60), <2>1, <3>2, UsersFinite, BioAssumption
    <3>4. refcnt'[c] = refcnt[c] - 1
      BY <1>1, <2>1, <2>3, <3>3, RefArithmetic DEF TypeInv
    <3> QED
      BY SMTT(60), <2>1, <3>1, <3>2, <3>4, UsersFinite
  <2> QED
    BY <2>2, <2>3
<1> QED
  BY <1>2, <1>3, <1>4, <1>5 DEF CacheInv, RefInv

\* bwrite(), log_write() and install_trans() with a buffer they hold.
LEMMA ClientSteps ==
  ASSUME TypeInv, OneBufferPerBlock, CacheInv, NEW p \in Proc, NEW v \in Val,
         bwrite(p, v) \/ bpin(p, v) \/ bunpin(p),
         NEW b, b = buf[p], NEW k, k = blk[p]
  PROVE  CacheInv'
<1>1. pc[p] = "held" /\ b \in Buf /\ k \in Block
  BY DEF bwrite, bpin, bunpin, Holds, TypeInv, Using
<1>2. blockno[b] = k /\ valid[b] /\ p \in Users(b)
  BY <1>1 DEF Users, Using, CacheInv, DataInv, BufferAlwaysMine, Mine
<1>3. \A c \in Buf : blockno[c] = k => c = b
  BY <1>1, <1>2, BioAssumption DEF OneBufferPerBlock
<1>4. UNCHANGED <<blockno, valid, lock, pc, blk, buf>>
  BY DEF bwrite, bpin, bunpin, cachevars
<1>5. BufferAlwaysMine' /\ LockInv'
  BY <1>4 DEF CacheInv, BufferAlwaysMine, Mine, LockInv
<1>6. \A c \in Buf : Users(c)' = Users(c)
  BY <1>4 DEF Users
<1>7. ASSUME NEW n \in Nat, refcnt' = [refcnt EXCEPT ![b] = n], pins' \ {k} = pins \ {k},
             n = Cardinality(Users(b)) + Pinned(b)'
      PROVE  RefInv'
  <2>1. ASSUME NEW c \in Buf \ {b}
        PROVE  Pinned(c)' = Pinned(c)
    <3>1. blockno[c] # k
      BY <1>3
    <3>2. blockno[c] \in pins' <=> blockno[c] \in pins
      BY <1>7, <3>1
    <3> QED
      BY <1>4, <3>2 DEF Pinned
  <2>2. refcnt'[b] = n /\ \A c \in Buf \ {b} : refcnt'[c] = refcnt[c]
    BY <1>1, <1>7 DEF TypeInv
  <2>3. \A c \in Buf : refcnt'[c] = Cardinality(Users(c)) + Pinned(c)'
    BY <1>7, <2>1, <2>2 DEF CacheInv, RefInv
  <2> QED
    BY <1>6, <2>3 DEF RefInv
<1>8. RefInv'
  <2>1. /\ refcnt[b] = Cardinality(Users(b)) + Pinned(b) /\ refcnt[b] \in Nat
        /\ Cardinality(Users(b)) \in Nat /\ Cardinality(Users(b)) + 1 < REFMOD
    <3>1. refcnt[b] = Cardinality(Users(b)) + Pinned(b) /\ refcnt[b] \in Nat
      BY <1>1 DEF CacheInv, RefInv, TypeInv
    <3>2. /\ Cardinality(Users(b)) \in Nat /\ Cardinality(Proc) \in Nat
          /\ Cardinality(Users(b)) <= Cardinality(Proc)
      BY UsersFinite
    <3> QED
      BY SMTT(60), <3>1, <3>2, BioAssumption
  <2>2. CASE bpin(p, v) /\ k \notin pins
    <3>1. refcnt' = [refcnt EXCEPT ![b] = Incr(refcnt[b])] /\ pins' = pins \cup {k}
      BY <2>2 DEF bpin
    <3>2. Pinned(b) = 0 /\ Pinned(b)' = 1
      BY <1>2, <1>4, <2>2, <3>1 DEF Pinned
    <3>3. refcnt[b] + 1 < REFMOD
      BY SMTT(60), <2>1, <3>2
    <3>4. Incr(refcnt[b]) = refcnt[b] + 1
      BY <2>1, <3>3, RefArithmetic
    <3>5. refcnt[b] + 1 \in Nat /\ refcnt[b] + 1 = Cardinality(Users(b)) + Pinned(b)'
      BY SMTT(60), <2>1, <3>2
    <3> QED
      BY <1>7, <3>1, <3>4, <3>5
  <2>3. CASE bunpin(p)
    <3>1. refcnt' = [refcnt EXCEPT ![b] = Decr(refcnt[b])] /\ pins' = pins \ {k} /\ k \in pins
      BY <2>3 DEF bunpin
    <3>2. Pinned(b) = 1 /\ Pinned(b)' = 0
      BY <1>2, <1>4, <3>1 DEF Pinned
    <3>3. 0 < refcnt[b] /\ refcnt[b] < REFMOD
      BY SMTT(60), <2>1, <3>2
    <3>4. Decr(refcnt[b]) = refcnt[b] - 1
      BY <2>1, <3>3, RefArithmetic
    <3>5. refcnt[b] - 1 \in Nat /\ refcnt[b] - 1 = Cardinality(Users(b)) + Pinned(b)'
      BY SMTT(60), <2>1, <3>2
    <3> QED
      BY <1>7, <3>1, <3>4, <3>5
  <2>4. CASE bwrite(p, v) \/ (bpin(p, v) /\ k \in pins)
    <3>1. UNCHANGED <<refcnt, pins>>
      BY <2>4 DEF bwrite, bpin, cachevars
    <3> QED
      BY <1>4, <1>6, <3>1 DEF CacheInv, RefInv, Pinned
  <2> QED
    BY <2>2, <2>3, <2>4
<1>9. ASSUME NEW w, data' = [data EXCEPT ![b] = w], latest' = [latest EXCEPT ![k] = w]
      PROVE  \A c \in Buf : valid'[c] /\ blockno'[c] \in Block => data'[c] = latest'[blockno'[c]]
  <2>1. data'[b] = w /\ latest'[k] = w
    BY <1>1, <1>9 DEF TypeInv
  <2>2. \A c \in Buf \ {b} : data'[c] = data[c] /\ latest'[blockno[c]] = latest[blockno[c]]
    BY SMTT(60), <1>3, <1>9 DEF TypeInv
  <2> QED
    BY <1>2, <1>4, <2>1, <2>2 DEF CacheInv, DataInv
<1>10. DataInv'
  <2>1. \A q \in Proc : pc'[q] = "held" => valid'[buf'[q]]
    BY <1>4 DEF CacheInv, DataInv
  <2>2. pins' \subseteq pins \cup {k} =>
          \A c \in pins' : \E a \in Buf : blockno'[a] = c /\ valid'[a]
    BY <1>1, <1>2, <1>4 DEF CacheInv, DataInv
  <2>3. CASE bwrite(p, v)
    <3>1. /\ data' = [data EXCEPT ![b] = v] /\ latest' = [latest EXCEPT ![k] = v]
          /\ disk' = [disk EXCEPT ![k] = v] /\ pins' = pins
      BY <1>2, <2>3 DEF bwrite, Modify
    <3>2. \A c \in Block \ pins' : disk'[c] = latest'[c]
      BY <1>1, <3>1 DEF CacheInv, DataInv, TypeInv
    <3> QED
      BY <1>9, <2>1, <2>2, <3>1, <3>2 DEF DataInv
  <2>4. CASE bpin(p, v)
    <3>1. /\ data' = [data EXCEPT ![b] = v] /\ latest' = [latest EXCEPT ![k] = v]
          /\ disk' = disk /\ pins' = pins \cup {k}
      BY <2>4 DEF bpin, Modify
    <3>2. \A c \in Block \ pins' : disk'[c] = latest'[c]
      BY <1>1, <3>1 DEF CacheInv, DataInv, TypeInv
    <3> QED
      BY <1>9, <2>1, <2>2, <3>1, <3>2 DEF DataInv
  <2>5. CASE bunpin(p)
    <3>1. /\ data' = data /\ latest' = latest
          /\ disk' = [disk EXCEPT ![k] = data[b]] /\ pins' = pins \ {k}
      BY <1>2, <2>5 DEF bunpin
    <3>2. data[b] = latest[k]
      BY <1>1, <1>2 DEF CacheInv, DataInv
    <3>3. \A c \in Block \ pins' : disk'[c] = latest'[c]
      BY <1>1, <3>1, <3>2 DEF CacheInv, DataInv, TypeInv
    <3>4. \A c \in Buf : valid'[c] /\ blockno'[c] \in Block => data'[c] = latest'[blockno'[c]]
      BY <1>4, <3>1 DEF CacheInv, DataInv
    <3> QED
      BY <2>1, <2>2, <3>1, <3>3, <3>4 DEF DataInv
  <2> QED
    BY <2>3, <2>4, <2>5
<1> QED
  BY <1>5, <1>8, <1>10 DEF CacheInv

LEMMA CacheStep ==
  ASSUME ListInv, TypeInv, OneBufferPerBlock, CacheInv, since' = 0, [Next]_vars
  PROVE  CacheInv'
<1>1. ASSUME NEW p \in Proc, NEW k \in Block, bget(p, k)
      PROVE  CacheInv'
  <2>1. CASE CachedIn(k) = {} /\ Free = {}
    <3>1. UNCHANGED <<blockno, valid, refcnt, lock, data, disk, pc, buf, pins, latest>>
          /\ blk' = [blk EXCEPT ![p] = k] /\ pc[p] = "idle"
      BY <1>1, <2>1 DEF bget
    <3>2. BufferAlwaysMine'
      BY <3>1 DEF CacheInv, BufferAlwaysMine, Mine, TypeInv, Using
    <3> QED
      BY SMTT(60), <3>1, <3>2 DEF CacheInv, RefInv, Users, Pinned, LockInv, DataInv
  <2> QED
    BY <1>1, <2>1, BgetCached, BgetRecycled
<1>2. ASSUME NEW p \in Proc, ProcStep(p)
      PROVE  CacheInv'
  BY <1>2, UserSteps, BrelseStep DEF ProcStep
<1>3. ASSUME NEW p \in Proc, bunpin(p)
      PROVE  CacheInv'
  <2>1. data[buf[p]] \in Val
    BY DEF TypeInv
  <2> QED
    BY <1>3, <2>1, ClientSteps
<1>4. ASSUME NEW p \in Proc, NEW v \in Val, bwrite(p, v) \/ bpin(p, v)
      PROVE  CacheInv'
  BY <1>4, ClientSteps
<1>5. ASSUME NEW p \in Proc, NEW v \in Val, recover_bunpin(p, v)
      PROVE  FALSE
  BY SMTT(60), <1>5 DEF recover_bunpin
<1>6. CASE UNCHANGED vars
  BY SMTT(60), <1>6 DEF vars, CacheInv, BufferAlwaysMine, Mine, RefInv, Users, Pinned, LockInv, DataInv
<1> QED
  BY <1>1, <1>2, <1>3, <1>4, <1>5, <1>6 DEF Next

-----------------------------------------------------------------------------
(* Results.                                                                *)

IInv == ListInv /\ TypeInv /\ OneBufferPerBlock /\ (since = 0 => CacheInv)

LEMMA InvInit ==
  ASSUME Init
  PROVE  IInv
<1>1. ListInv
  <2>1. \A i \in Buf : NBUF + 1 - i \in Buf /\ NBUF + 1 - (NBUF + 1 - i) = i
    BY SMTT(60), BioAssumption DEF Buf
  <2>2. \A b \in Buf : \E i \in Buf : lru[i] = b
    BY <2>1 DEF Init
  <2>3. \A i, j \in Buf : lru[i] = lru[j] => i = j
    BY SMTT(60), BioAssumption DEF Init, Buf
  <2> QED
    BY <2>1, <2>2, <2>3 DEF Init, ListInv
<1>2. TypeInv
  <2>1. 1 \in Buf
    BY SMTT(60), BioAssumption DEF Buf
  <2> QED
    BY <2>1 DEF Init, TypeInv, Using
<1>3. OneBufferPerBlock
  BY DEF Init, OneBufferPerBlock
<1>4. BufferAlwaysMine /\ LockInv
  BY DEF Init, BufferAlwaysMine, Mine, LockInv, Using
<1>5. DataInv
  BY BioAssumption DEF Init, DataInv
<1>6. RefInv
  <2>1. \A b \in Buf : Users(b) = {} /\ Pinned(b) = 0 /\ refcnt[b] = 0
    BY DEF Init, Users, Using, Pinned
  <2> QED
    BY SMTT(60), <2>1, FS_EmptySet DEF RefInv
<1> QED
  BY <1>1, <1>2, <1>3, <1>4, <1>5, <1>6 DEF IInv, CacheInv

LEMMA InvStep ==
  ASSUME IInv, [Next]_vars
  PROVE  IInv'
<1>1. ListInv' /\ TypeInv' /\ OneBufferPerBlock'
  BY ListStep, TypeStep, OneBufferStep DEF IInv
<1>2. since' = 0 => since = 0
  <2>1. since \in Nat
    BY DEF IInv, TypeInv
  <2>2. ASSUME NEW p \in Proc, NEW k \in Block, bget(p, k)
        PROVE  since' = IF since = 0 THEN 0 ELSE since + 1
    BY <2>2 DEF bget
  <2>3. ASSUME NEW p \in Proc, NEW v \in Val, recover_bunpin(p, v)
        PROVE  since' # 0
    <3>1. since' = IF since = 0 THEN 1 ELSE since
      BY <2>3 DEF recover_bunpin
    <3> QED
      BY SMTT(60), <3>1
  <2> QED
    <3>1. ASSUME NEW p \in Proc, ProcStep(p) \/ bunpin(p)
          PROVE  since' = since
      BY <3>1 DEF ProcStep, clientvars, acquiresleep, bread, releasesleep, brelse, bunpin
    <3>2. ASSUME NEW p \in Proc, NEW v \in Val, bwrite(p, v) \/ bpin(p, v)
          PROVE  since' = since
      BY <3>2 DEF bwrite, bpin
    <3> QED
      BY SMTT(60), <2>1, <2>2, <2>3, <3>1, <3>2 DEF Next, vars
<1> QED
  BY <1>1, <1>2, CacheStep DEF IInv

\* No block of the disk is ever cached in two buffers of bio.c, so the sleep
\* lock of its buffer is the lock of the block; also after a recovery.
THEOREM BioOneBuffer == Spec => []OneBufferPerBlock
<1>1. IInv => OneBufferPerBlock
  BY DEF IInv
<1> QED
  BY <1>1, InvInit, InvStep, PTL DEF Spec

\* Between bread() and brelse() a process has the buffer of the block it asked
\* for: refcnt keeps bget() from recycling it.
THEOREM BioBufferIsMine == Spec => []BufferIsMine
<1>1. IInv => BufferIsMine
  BY DEF IInv, CacheInv, BufferIsMine, BufferAlwaysMine
<1> QED
  BY <1>1, InvInit, InvStep, PTL DEF Spec

\* Whoever holds a buffer sees the last contents any process gave its block.
THEOREM BioSeesLatest == Spec => []SeesLatest
<1>1. IInv => SeesLatest
  <2> SUFFICES ASSUME IInv, since = 0, NEW p \in Proc, pc[p] = "held"
               PROVE  data[buf[p]] = latest[blk[p]]
    BY DEF SeesLatest
  <2>1. buf[p] \in Buf /\ blk[p] \in Block /\ valid[buf[p]] /\ blockno[buf[p]] = blk[p]
    BY DEF IInv, TypeInv, CacheInv, DataInv, BufferAlwaysMine, Mine, Using
  <2> QED
    BY <2>1 DEF IInv, CacheInv, DataInv
<1> QED
  BY <1>1, InvInit, InvStep, PTL DEF Spec
=============================================================================
