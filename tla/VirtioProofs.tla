---------------------------- MODULE VirtioProofs ----------------------------
(***************************************************************************)
(* The safety properties of module Virtio, for any number of processes,    *)
(* sectors and values and any number of descriptors that VirtioAssumption  *)
(* allows.                                                                 *)
(***************************************************************************)
EXTENDS Virtio, TLAPS

USE ZenonT(120)

-----------------------------------------------------------------------------
(* Rings of NUM elements: the avail ring and the used ring.                *)

\* The remainder is the only one.
LEMMA Unique ==
  ASSUME NEW m \in Nat \ {0}, NEW q \in Int, NEW z \in 0 .. m - 1, NEW n \in Int, n = m * q + z
  PROVE  n % m = z
BY SMTT(60)

\* A counter that is a step or two off its range.
LEMMA ModNear ==
  ASSUME NEW m \in Nat \ {0}, NEW x \in Int, -m <= x, x < 2 * m
  PROVE  /\ x < 0 => x % m = x + m
         /\ 0 <= x /\ x < m => x % m = x
         /\ m <= x => x % m = x - m
<1>1. ASSUME x < 0 PROVE x % m = x + m
  <2>1. -1 \in Int /\ x + m \in 0 .. m - 1 /\ x = m * (-1) + (x + m)
    BY SMTT(60), <1>1
  <2> QED
    BY SMTT(60), <2>1, Unique
<1>2. ASSUME 0 <= x, x < m PROVE x % m = x
  <2>1. 0 \in Int /\ x \in 0 .. m - 1 /\ x = m * 0 + x
    BY SMTT(60), <1>2
  <2> QED
    BY SMTT(60), <2>1, Unique
<1>3. ASSUME m <= x PROVE x % m = x - m
  <2>1. 1 \in Int /\ x - m \in 0 .. m - 1 /\ x = m * 1 + (x - m)
    BY SMTT(60), <1>3
  <2> QED
    BY SMTT(60), <2>1, Unique
<1> QED
  BY <1>1, <1>2, <1>3

Dist(a, b) == (b - a) % NUM
Ring(f, a, k) == f[(a + k) % NUM]
Elems(f, a, b) == {Ring(f, a, k) : k \in 0 .. Dist(a, b) - 1}
Inj(f, a, b) == \A j, k \in 0 .. Dist(a, b) - 1 : Ring(f, a, j) = Ring(f, a, k) => j = k

LEMMA DistIs ==
  ASSUME NEW a \in Desc, NEW b \in Desc
  PROVE  /\ Dist(a, b) = IF a <= b THEN b - a ELSE b - a + NUM
         /\ Dist(a, b) \in 0 .. NUM - 1
<1>1. NUM \in Nat \ {0}
  BY SMTT(60), VirtioAssumption
<1>2. PICK x \in Int : x = b - a /\ -NUM <= x /\ x < 2 * NUM /\ x < NUM
  BY SMTT(60), <1>1 DEF Desc
<1>3. (x < 0 => x % NUM = x + NUM) /\ (0 <= x /\ x < NUM => x % NUM = x)
  BY <1>1, <1>2, ModNear
<1> QED
  BY SMTT(60), <1>1, <1>2, <1>3 DEF Dist, Desc

LEMMA SpotIs ==
  ASSUME NEW a \in Desc, NEW k \in 0 .. NUM - 1
  PROVE  /\ (a + k) % NUM = IF a + k < NUM THEN a + k ELSE a + k - NUM
         /\ (a + k) % NUM \in Desc
<1>1. NUM \in Nat \ {0}
  BY SMTT(60), VirtioAssumption
<1>2. PICK x \in Int : x = a + k /\ -NUM <= x /\ x < 2 * NUM /\ 0 <= x
  BY SMTT(60), <1>1 DEF Desc
<1>3. (0 <= x /\ x < NUM => x % NUM = x) /\ (NUM <= x => x % NUM = x - NUM)
  BY <1>1, <1>2, ModNear
<1> QED
  BY SMTT(60), <1>1, <1>2, <1>3 DEF Desc

\* An element is added at b.
Puts(f, g, b, x) == g[b] = x /\ \A c \in Desc : c # b => g[c] = f[c]

LEMMA RingPut ==
  ASSUME NEW f \in [Desc -> Desc], NEW a \in Desc, NEW b \in Desc, NEW x \in Desc, Dist(a, b) + 1 < NUM,
         NEW g, Puts(f, g, b, x)
  PROVE  /\ (b + 1) % NUM \in Desc
         /\ Dist(a, (b + 1) % NUM) = Dist(a, b) + 1
         /\ Ring(g, a, Dist(a, b)) = x
         /\ \A k \in 0 .. Dist(a, b) - 1 : Ring(g, a, k) = Ring(f, a, k)
<1>1. NUM \in Nat \ {0} /\ 1 \in 0 .. NUM - 1
  BY SMTT(60), VirtioAssumption
<1>2. PICK b1 \in Desc : b1 = (b + 1) % NUM /\ b1 = IF b + 1 < NUM THEN b + 1 ELSE b + 1 - NUM
  BY <1>1, SpotIs
<1>3. PICK d \in 0 .. NUM - 1 : d = Dist(a, b) /\ d = IF a <= b THEN b - a ELSE b - a + NUM
  BY DistIs
<1>4. Dist(a, b1) = IF a <= b1 THEN b1 - a ELSE b1 - a + NUM
  BY DistIs
<1>5. d + 1 < NUM
  BY <1>3
<1>6. Dist(a, b1) = d + 1
  <2>1. b1 = IF b + 1 < NUM THEN b + 1 ELSE b + 1 - NUM
    BY <1>2
  <2>2. d = IF a <= b THEN b - a ELSE b - a + NUM
    BY <1>3
  <2>3. PICK z : z = Dist(a, b1) /\ z = IF a <= b1 THEN b1 - a ELSE b1 - a + NUM
    BY <1>4
  <2>4. a \in Int /\ b \in Int /\ 0 <= a /\ a < NUM /\ 0 <= b /\ b < NUM
    BY SMTT(60), <1>1 DEF Desc
  <2>5. z = d + 1
    <3>1. CASE b + 1 < NUM
      <4>1. b1 = b + 1 /\ (a <= b \/ ~(a <= b))
        BY <2>1, <3>1
      <4> QED
        BY SMTT(60), <1>1, <1>5, <2>2, <2>3, <2>4, <4>1
    <3>2. CASE ~(b + 1 < NUM)
      <4>1. b1 = b + 1 - NUM
        BY <2>1, <3>2
      <4> QED
        BY SMTT(60), <1>1, <1>5, <2>2, <2>3, <2>4, <3>2, <4>1
    <3> QED
      BY <3>1, <3>2
  <2> QED
    BY <2>3, <2>5
<1>7. (a + d) % NUM = b
  <2>1. (a + d) % NUM = IF a + d < NUM THEN a + d ELSE a + d - NUM
    BY SpotIs
  <2> QED
    BY SMTT(60), <1>1, <1>3, <2>1 DEF Desc
<1>8. ASSUME NEW k \in 0 .. d - 1 PROVE (a + k) % NUM # b /\ (a + k) % NUM \in Desc
  <2>1. k \in 0 .. NUM - 1
    BY SMTT(60), <1>1
  <2>2. (a + k) % NUM = (IF a + k < NUM THEN a + k ELSE a + k - NUM) /\ (a + k) % NUM \in Desc
    BY <2>1, SpotIs
  <2>3. PICK z \in Desc : z = (a + k) % NUM
    BY <2>2
  <2>4. z = IF a + k < NUM THEN a + k ELSE a + k - NUM
    BY <2>2, <2>3
  <2>5. z # b
    BY SMTT(60), <1>1, <1>3, <2>4 DEF Desc
  <2> QED
    BY <2>2, <2>3, <2>5
<1>9. Ring(g, a, d) = x
  BY <1>7 DEF Ring, Puts
<1>10. \A k \in 0 .. d - 1 : Ring(g, a, k) = Ring(f, a, k)
  BY <1>8 DEF Ring, Puts
<1> QED
  BY <1>2, <1>3, <1>6, <1>9, <1>10

LEMMA ElemsPut ==
  ASSUME NEW f \in [Desc -> Desc], NEW a \in Desc, NEW b \in Desc, NEW x \in Desc, Dist(a, b) + 1 < NUM,
         Inj(f, a, b), x \notin Elems(f, a, b),
         NEW g, Puts(f, g, b, x), NEW b1, b1 = (b + 1) % NUM
  PROVE  b1 \in Desc /\ Elems(g, a, b1) = Elems(f, a, b) \cup {x} /\ Inj(g, a, b1)
<1>0. /\ (b + 1) % NUM \in Desc
      /\ Dist(a, (b + 1) % NUM) = Dist(a, b) + 1
      /\ Ring(g, a, Dist(a, b)) = x
      /\ \A k \in 0 .. Dist(a, b) - 1 : Ring(g, a, k) = Ring(f, a, k)
  BY SMTT(60), RingPut
<1>1. PICK d \in Nat : d = Dist(a, b) /\ Dist(a, b1) = d + 1 /\ Ring(g, a, d) = x
                       /\ \A k \in 0 .. d - 1 : Ring(g, a, k) = Ring(f, a, k)
  <2>1. \A d \in 0 .. NUM - 1 : d \in Nat
    BY SMTT(60), VirtioAssumption
  <2> QED
    BY <1>0, <2>1, DistIs
<1>2. \A k : k \in 0 .. (d + 1) - 1 <=> k \in 0 .. d - 1 \/ k = d
  BY SMTT(60)
<1>3. Elems(g, a, b1) = Elems(f, a, b) \cup {x}
  BY <1>1, <1>2 DEF Elems
<1>4. \A k \in 0 .. d - 1 : Ring(f, a, k) # x
  BY <1>1 DEF Elems
<1>5. Inj(g, a, b1)
  BY SMTT(60), <1>1, <1>2, <1>4 DEF Inj
<1> QED
  BY <1>0, <1>3, <1>5

\* The element at a is removed.
LEMMA ElemsGet ==
  ASSUME NEW f \in [Desc -> Desc], NEW a \in Desc, NEW b \in Desc, a # b, Inj(f, a, b)
  PROVE  /\ (a + 1) % NUM \in Desc
         /\ f[a] \in Elems(f, a, b)
         /\ Elems(f, (a + 1) % NUM, b) = Elems(f, a, b) \ {f[a]}
         /\ Inj(f, (a + 1) % NUM, b)
<1>1. NUM \in Nat \ {0} /\ 1 \in 0 .. NUM - 1 /\ 0 \in 0 .. NUM - 1
  BY SMTT(60), VirtioAssumption
<1>2. PICK a1 \in Desc : a1 = (a + 1) % NUM /\ a1 = IF a + 1 < NUM THEN a + 1 ELSE a + 1 - NUM
  BY <1>1, SpotIs
<1>3. PICK d \in 0 .. NUM - 1 : d = Dist(a, b) /\ d = IF a <= b THEN b - a ELSE b - a + NUM
  BY DistIs
<1>4. Dist(a1, b) = IF a1 <= b THEN b - a1 ELSE b - a1 + NUM
  BY DistIs
<1>5. Dist(a1, b) = d - 1 /\ 0 \in 0 .. d - 1
  <2>1. a1 = IF a + 1 < NUM THEN a + 1 ELSE a + 1 - NUM
    BY <1>2
  <2>2. d = IF a <= b THEN b - a ELSE b - a + NUM
    BY <1>3
  <2>3. PICK z : z = Dist(a1, b) /\ z = IF a1 <= b THEN b - a1 ELSE b - a1 + NUM
    BY <1>4
  <2>4. a \in Int /\ b \in Int /\ 0 <= a /\ a < NUM /\ 0 <= b /\ b < NUM
    BY SMTT(60), <1>1 DEF Desc
  <2>5. z = d - 1
    <3>1. CASE a + 1 < NUM
      <4>1. a1 = a + 1
        BY <2>1, <3>1
      <4> QED
        BY SMTT(60), <1>1, <2>2, <2>3, <2>4, <4>1
    <3>2. CASE ~(a + 1 < NUM)
      <4>1. a1 = a + 1 - NUM
        BY <2>1, <3>2
      <4> QED
        BY SMTT(60), <1>1, <2>2, <2>3, <2>4, <3>2, <4>1
    <3> QED
      BY <3>1, <3>2
  <2>6. 0 \in 0 .. d - 1
    BY SMTT(60), <1>1, <2>2, <2>4
  <2> QED
    BY <2>3, <2>5, <2>6
<1>6. Ring(f, a, 0) = f[a]
  <2>1. (a + 0) % NUM = a
    <3>1. PICK z : z = (a + 0) % NUM /\ z = IF a + 0 < NUM THEN a + 0 ELSE a + 0 - NUM
      BY <1>1, SpotIs
    <3>2. z = IF a + 0 < NUM THEN a + 0 ELSE a + 0 - NUM
      BY <3>1
    <3>3. z = a
      BY SMTT(60), <1>1, <3>2 DEF Desc
    <3> QED
      BY <3>1, <3>3
  <2> QED
    BY <2>1 DEF Ring
<1>7. ASSUME NEW k \in 0 .. (d - 1) - 1 PROVE k + 1 \in 0 .. d - 1 /\ k + 1 # 0 /\ Ring(f, a1, k) = Ring(f, a, k + 1)
  <2>1. k \in 0 .. NUM - 1 /\ k + 1 \in 0 .. NUM - 1 /\ k + 1 \in 0 .. d - 1 /\ k + 1 # 0
    BY SMTT(60), <1>1
  <2>2. PICK u : u = (a1 + k) % NUM /\ u = IF a1 + k < NUM THEN a1 + k ELSE a1 + k - NUM
    BY <2>1, SpotIs
  <2>3. PICK v : v = (a + (k + 1)) % NUM /\ v = IF a + (k + 1) < NUM THEN a + (k + 1) ELSE a + (k + 1) - NUM
    BY <2>1, SpotIs
  <2>4. u = v
    <3>1. a1 = IF a + 1 < NUM THEN a + 1 ELSE a + 1 - NUM
      BY <1>2
    <3>2. u = IF a1 + k < NUM THEN a1 + k ELSE a1 + k - NUM
      BY <2>2
    <3>3. v = IF a + (k + 1) < NUM THEN a + (k + 1) ELSE a + (k + 1) - NUM
      BY <2>3
    <3>4. a \in Int /\ 0 <= a /\ a < NUM /\ k \in Int /\ 0 <= k /\ k < NUM
      BY SMTT(60), <1>1, <2>1 DEF Desc
    <3>5. CASE a + 1 < NUM
      <4>1. a1 = a + 1
        BY <3>1, <3>5
      <4> QED
        BY SMTT(60), <1>1, <3>2, <3>3, <3>4, <4>1
    <3>6. CASE ~(a + 1 < NUM)
      <4>1. a1 = a + 1 - NUM
        BY <3>1, <3>6
      <4> QED
        BY SMTT(60), <1>1, <3>2, <3>3, <3>4, <3>6, <4>1
    <3> QED
      BY <3>5, <3>6
  <2> QED
    BY <2>1, <2>2, <2>3, <2>4 DEF Ring
<1>8. ASSUME NEW k \in 0 .. d - 1, k # 0 PROVE \E j \in 0 .. (d - 1) - 1 : k = j + 1
  <2>1. k - 1 \in 0 .. (d - 1) - 1 /\ k = (k - 1) + 1
    BY SMTT(60), <1>1, <1>8
  <2> QED
    BY <2>1
<1>9. \A j, k \in 0 .. d - 1 : Ring(f, a, j) = Ring(f, a, k) => j = k
  BY <1>3 DEF Inj
<1>10. f[a] \in Elems(f, a, b)
  BY <1>3, <1>5, <1>6 DEF Elems
<1>11. ASSUME NEW x \in Elems(f, a1, b) PROVE x \in Elems(f, a, b) \ {f[a]}
  <2>1. PICK k \in 0 .. (d - 1) - 1 : x = Ring(f, a1, k)
    BY <1>5, <1>11 DEF Elems
  <2>2. k + 1 \in 0 .. d - 1 /\ k + 1 # 0 /\ x = Ring(f, a, k + 1)
    BY <1>7, <2>1
  <2>3. x # f[a]
    BY <1>5, <1>6, <1>9, <2>2
  <2> QED
    BY <1>3, <2>2, <2>3 DEF Elems
<1>12. ASSUME NEW x \in Elems(f, a, b), x # f[a] PROVE x \in Elems(f, a1, b)
  <2>1. PICK k \in 0 .. d - 1 : x = Ring(f, a, k)
    BY <1>3, <1>12 DEF Elems
  <2>2. PICK j \in 0 .. (d - 1) - 1 : k = j + 1
    BY <1>6, <1>8, <1>12, <2>1
  <2>3. x = Ring(f, a1, j)
    BY <1>7, <2>1, <2>2
  <2> QED
    BY <1>5, <2>3 DEF Elems
<1>13. Inj(f, a1, b)
  <2> SUFFICES ASSUME NEW j \in 0 .. (d - 1) - 1, NEW k \in 0 .. (d - 1) - 1, Ring(f, a1, j) = Ring(f, a1, k)
               PROVE  j = k
    BY <1>5 DEF Inj
  <2>1. j + 1 = k + 1
    BY <1>7, <1>9
  <2> QED
    BY SMTT(60), <2>1
<1>14. Elems(f, a1, b) = Elems(f, a, b) \ {f[a]}
  BY <1>11, <1>12
<1> QED
  BY <1>2, <1>10, <1>13, <1>14

-----------------------------------------------------------------------------
(* Facts about finite sets, which the end of the module proves.            *)

\* A ring that two descriptors are not in has a place left.
Room ==
  \A f \in [Desc -> Desc] : \A a, b, x, y \in Desc :
    Inj(f, a, b) /\ x # y /\ x \notin Elems(f, a, b) /\ y \notin Elems(f, a, b) => Dist(a, b) + 1 < NUM

\* alloc3_desc() finds three descriptors if there are three.
Three ==
  Cardinality(FreeDesc) >= 3 =>
    LET i0 == alloc_desc(FreeDesc)
        i1 == alloc_desc(FreeDesc \ {i0})
        i2 == alloc_desc(FreeDesc \ {i0, i1})
    IN  /\ i0 \in Desc /\ i1 \in Desc /\ i2 \in Desc
        /\ free[i0] /\ free[i1] /\ free[i2]
        /\ i0 # i1 /\ i0 # i2 /\ i1 # i2

-----------------------------------------------------------------------------
(* The inductive invariant.                                                *)

Maybe == Request \cup {NoProc}

TypeInv ==
  /\ free \in [Desc -> BOOLEAN] /\ next \in [Desc -> Desc \cup {NUM}]
  /\ info \in [Desc -> Proc \cup {NoProc}] /\ req \in [Desc -> Maybe]
  /\ ring \in [Desc -> Desc] /\ elems \in [Desc -> Desc]
  /\ availidx \in Desc /\ devidx \in Desc /\ usedid \in Desc /\ usedidx \in Desc
  /\ bdisk \in [Proc -> BOOLEAN] /\ bdata \in [Proc -> Val] /\ disk \in [Block -> Val]
  /\ inflight \subseteq Desc
  /\ pc \in [Proc -> {"idle", "start", "nodesc", "asleep", "awake"}]
  /\ head \in [Proc -> Desc] /\ op \in [Proc -> Maybe]

\* What free_chain(i) visits if the links are nx.
ChainOf(nx, i) ==
  {i} \cup (IF nx[i] = NUM THEN {} ELSE {nx[i]} \cup (IF nx[nx[i]] = NUM THEN {} ELSE {nx[nx[i]]}))

\* A request has a chain of its own.
Mine(p) ==
  /\ info[head[p]] = p
  /\ next[head[p]] \in Desc /\ next[head[p]] # head[p]
  /\ \A c \in ChainOf(next, head[p]) : ~free[c]
ChainInv ==
  /\ \A p \in Requesting : Mine(p)
  /\ \A p, q \in Requesting : p # q => ChainOf(next, head[p]) \cap ChainOf(next, head[q]) = {}

\* The calls are for different sectors: the caller has locked the buffer.
OpInv ==
  /\ \A p \in Proc : pc[p] # "idle" => op[p] \in Request /\ op[p].b = p
  /\ \A p, q \in Proc : p # q /\ pc[p] # "idle" /\ pc[q] # "idle" => op[p].blk # op[q].blk

\* A request is in at most one place: in the part of the avail ring that the
\* device has not taken, in its hands, or in the part of the used ring that the
\* handler has not seen; and then its process has not been told.
Waiting == Elems(ring, devidx, availidx)
Done == Elems(elems, usedidx, usedid)
Pending(i) == \E p \in Requesting : head[p] = i /\ req[i] = op[p] /\ bdisk[p]
QueueInv ==
  /\ Inj(ring, devidx, availidx) /\ Inj(elems, usedidx, usedid)
  /\ Waiting \cap inflight = {} /\ Waiting \cap Done = {} /\ inflight \cap Done = {}
  /\ \A i \in Waiting \cup inflight \cup Done : Pending(i)

\* A transfer is over when the request is in the used ring, and stays so.
DataInv ==
  \A p \in Requesting : ~bdisk[p] \/ head[p] \in Done => bdata[p] = disk[op[p].blk]

IInv == TypeInv /\ ChainInv /\ OpInv /\ QueueInv /\ DataInv /\ ~panicked

ringvars == <<ring, devidx, availidx, elems, usedidx, usedid, inflight>>
chainvars == <<free, next, info, head, req>>

LEMMA KeepQueues ==
  ASSUME QueueInv, UNCHANGED ringvars, \A i \in Waiting \cup inflight \cup Done : Pending(i) => Pending(i)'
  PROVE  QueueInv' /\ Waiting' = Waiting /\ Done' = Done
<1>1. UNCHANGED <<ring, devidx, availidx, elems, usedidx, usedid, inflight>>
  BY DEF ringvars
<1>2. Waiting' = Waiting /\ Done' = Done
  BY <1>1 DEF Waiting, Done
<1>3. Inj(ring, devidx, availidx)' /\ Inj(elems, usedidx, usedid)'
  BY <1>1 DEF QueueInv
<1> QED
  BY <1>1, <1>2, <1>3 DEF QueueInv

LEMMA KeepChains ==
  ASSUME ChainInv, UNCHANGED <<free, next, info, head>>, Requesting' \subseteq Requesting
  PROVE  ChainInv'
<1>1. ASSUME NEW p \in Requesting' PROVE Mine(p)'
  BY <1>1 DEF ChainInv, Mine
<1>2. ASSUME NEW p \in Requesting', NEW q \in Requesting', p # q
      PROVE  ChainOf(next', head'[p]) \cap ChainOf(next', head'[q]) = {}
  BY <1>2 DEF ChainInv
<1> QED
  BY <1>1, <1>2 DEF ChainInv

\* Steps that only move processes between places of the same kind.
Quiet ==
  /\ UNCHANGED <<ringvars, chainvars, op, bdisk, bdata, disk, panicked>>
  /\ pc' \in [Proc -> {"idle", "start", "nodesc", "asleep", "awake"}]
  /\ \A p \in Proc : /\ pc'[p] \in {"asleep", "awake"} <=> pc[p] \in {"asleep", "awake"}
                     /\ pc'[p] = "idle" <=> pc[p] = "idle"

LEMMA QuietStep ==
  ASSUME IInv, Quiet
  PROVE  IInv'
<1>1. Requesting' = Requesting
  BY DEF Requesting, Quiet
<1>2. /\ UNCHANGED <<ring, devidx, availidx, elems, usedidx, usedid, inflight>> /\ UNCHANGED ringvars
      /\ UNCHANGED <<free, next, info, head, req, op, bdisk, bdata, disk, panicked>>
  BY DEF Quiet, ringvars, chainvars
<1>3. TypeInv'
  BY <1>2 DEF TypeInv, IInv, Quiet
<1>4. ChainInv'
  BY <1>1, <1>2, KeepChains DEF IInv
<1>5. OpInv'
  BY <1>2 DEF OpInv, IInv, Quiet
<1>6. \A i : Pending(i)' <=> Pending(i)
  BY <1>1, <1>2 DEF Pending
<1>7. QueueInv' /\ Done' = Done
  BY <1>2, <1>6, KeepQueues DEF IInv
<1>8. DataInv'
  BY <1>1, <1>2, <1>7 DEF DataInv, IInv
<1> QED
  BY <1>2, <1>3, <1>4, <1>5, <1>7, <1>8 DEF IInv

LEMMA CallStep ==
  ASSUME IInv, NEW p \in Proc, NEW k \in Block, NEW w \in BOOLEAN, NEW v \in Val, virtio_disk_rw(p, k, w, v)
  PROVE  IInv'
<1>1. /\ pc[p] = "idle" /\ pc' = [pc EXCEPT ![p] = "start"]
      /\ op' = [op EXCEPT ![p] = [blk |-> k, write |-> w, b |-> p]]
      /\ bdata' = IF w THEN [bdata EXCEPT ![p] = v] ELSE bdata
      /\ \A q \in Proc \ {p} : pc[q] # "idle" => op[q].blk # k
      /\ UNCHANGED <<ringvars, free, next, info, head, req, bdisk, disk, panicked>>
  BY DEF virtio_disk_rw, devvars, drvvars, ringvars
<1>2. UNCHANGED <<ring, devidx, availidx, elems, usedidx, usedid, inflight>>
  BY <1>1 DEF ringvars
<1>3. PICK o \in Request : o = [blk |-> k, write |-> w, b |-> p] /\ o.b = p /\ o.blk = k
  <2>1. PICK o : o = [blk |-> k, write |-> w, b |-> p]
    OBVIOUS
  <2>2. o \in Request /\ o.b = p /\ o.blk = k
    BY SMTT(60), <2>1 DEF Request
  <2> QED
    BY <2>1, <2>2
<1>4. pc'[p] = "start" /\ op'[p] = o /\ \A q \in Proc \ {p} : pc'[q] = pc[q] /\ op'[q] = op[q] /\ bdata'[q] = bdata[q]
  BY <1>1, <1>3 DEF IInv, TypeInv
<1>5. Requesting' = Requesting /\ p \notin Requesting
  BY <1>1, <1>4 DEF Requesting
<1>6. TypeInv'
  <2>1. pc' \in [Proc -> {"idle", "start", "nodesc", "asleep", "awake"}] /\ op' \in [Proc -> Maybe]
    BY <1>1, <1>3 DEF IInv, TypeInv, Maybe
  <2>2. bdata' \in [Proc -> Val]
    BY <1>1 DEF IInv, TypeInv
  <2> QED
    BY <1>1, <1>2, <2>1, <2>2 DEF IInv, TypeInv
<1>7. ChainInv'
  BY <1>1, <1>5, KeepChains DEF IInv
<1>8. OpInv'
  <2>1. ASSUME NEW q \in Proc, pc'[q] # "idle" PROVE op'[q] \in Request /\ op'[q].b = q
    <3>1. CASE q = p
      BY <1>3, <1>4, <3>1
    <3>2. CASE q # p
      BY <1>4, <2>1, <3>2 DEF OpInv, IInv
    <3> QED
      BY <3>1, <3>2
  <2>2. ASSUME NEW q \in Proc, q # p, pc'[q] # "idle" PROVE op'[q].blk # op'[p].blk
    <3>1. pc'[q] = pc[q] /\ op'[q] = op[q]
      BY <1>4, <2>2
    <3>2. op[q].blk # k
      BY <1>1, <2>2, <3>1
    <3> QED
      BY <1>3, <1>4, <3>1, <3>2
  <2>3. ASSUME NEW q \in Proc, NEW t \in Proc, q # t, pc'[q] # "idle", pc'[t] # "idle"
        PROVE  op'[q].blk # op'[t].blk
    <3>1. CASE q = p
      BY <2>2, <2>3, <3>1
    <3>2. CASE t = p
      BY <2>2, <2>3, <3>2
    <3>3. CASE q # p /\ t # p
      BY <1>4, <2>3, <3>3 DEF OpInv, IInv
    <3> QED
      BY <3>1, <3>2, <3>3
  <2> QED
    BY <2>1, <2>3 DEF OpInv
<1>9. ASSUME NEW i, Pending(i) PROVE Pending(i)'
  <2>1. PICK q \in Requesting : head[q] = i /\ req[i] = op[q] /\ bdisk[q]
    BY <1>9 DEF Pending
  <2>2. q \in Proc \ {p}
    BY <1>5, <2>1 DEF Requesting
  <2> QED
    BY <1>1, <1>4, <1>5, <2>1, <2>2 DEF Pending
<1>10. QueueInv' /\ Done' = Done
  BY <1>1, <1>9, KeepQueues DEF IInv
<1>11. DataInv'
  <2> SUFFICES ASSUME NEW q \in Requesting, ~bdisk[q] \/ head[q] \in Done PROVE bdata'[q] = disk[op'[q].blk]
    BY <1>1, <1>5, <1>10 DEF DataInv
  <2>1. q \in Proc \ {p}
    BY <1>5 DEF Requesting
  <2> QED
    BY <1>4, <2>1 DEF DataInv, IInv
<1> QED
  BY <1>1, <1>6, <1>7, <1>8, <1>10, <1>11 DEF IInv

\* The descriptors of a request that is somewhere in the queues.
LEMMA HeadBusy ==
  ASSUME IInv, NEW i, Pending(i)
  PROVE  \E p \in Requesting :
           /\ p \in Proc /\ head[p] = i /\ req[i] = op[p] /\ bdisk[p] /\ info[i] = p
           /\ i \in Desc /\ ~free[i] /\ next[i] \in Desc /\ next[i] # i /\ next[i] \in ChainOf(next, i)
<1>1. PICK p \in Requesting : head[p] = i /\ req[i] = op[p] /\ bdisk[p]
  BY DEF Pending
<1>2. p \in Proc
  BY DEF Requesting
<1>3. i \in Desc /\ Mine(p)
  BY <1>1, <1>2 DEF IInv, TypeInv, ChainInv
<1>4. i \in ChainOf(next, i)
  BY DEF ChainOf
<1>5. next[i] \in ChainOf(next, i)
  <2>1. NUM \notin Desc
    BY SMTT(60), VirtioAssumption DEF Desc
  <2> QED
    BY <1>1, <1>3, <2>1 DEF ChainOf, Mine
<1> QED
  BY <1>1, <1>2, <1>3, <1>4, <1>5 DEF Mine

LEMMA DeviceTakeStep ==
  ASSUME IInv, device_take
  PROVE  IInv'
<1>1. /\ devidx # availidx /\ inflight' = inflight \cup {ring[devidx]} /\ devidx' = (devidx + 1) % NUM
      /\ UNCHANGED <<ring, availidx, elems, usedidx, usedid>>
      /\ UNCHANGED <<free, next, info, head, req, op, bdisk, bdata, disk, pc, panicked>>
  BY DEF device_take, drvvars
<1>2. ring \in [Desc -> Desc] /\ devidx \in Desc /\ availidx \in Desc
  BY DEF IInv, TypeInv
<1>3. PICK x \in Desc : x = ring[devidx]
  BY <1>2
<1>4. /\ devidx' \in Desc /\ x \in Waiting /\ Waiting' = Waiting \ {x}
      /\ Inj(ring, devidx, availidx)'
  BY <1>1, <1>2, <1>3, ElemsGet DEF IInv, QueueInv, Waiting
<1>5. TypeInv'
  BY <1>1, <1>3, <1>4 DEF IInv, TypeInv
<1>6. Requesting' = Requesting /\ Done' = Done /\ Inj(elems, usedidx, usedid)'
  BY <1>1 DEF Requesting, Done, IInv, QueueInv
<1>7. ChainInv'
  BY <1>1, <1>6, KeepChains DEF IInv
<1>8. OpInv'
  BY <1>1 DEF IInv, OpInv
<1>9. \A i : Pending(i)' <=> Pending(i)
  BY <1>1, <1>6 DEF Pending
<1>10. QueueInv'
  BY <1>1, <1>3, <1>4, <1>6, <1>9 DEF IInv, QueueInv
<1>11. DataInv'
  BY <1>1, <1>6 DEF IInv, DataInv
<1> QED
  BY <1>1, <1>5, <1>7, <1>8, <1>10, <1>11 DEF IInv

LEMMA IntrStep ==
  ASSUME IInv, NEW p \in Proc, virtio_disk_intr(p)
  PROVE  IInv'
<1>1. /\ usedidx # usedid /\ info[elems[usedidx]] = p
      /\ bdisk' = [bdisk EXCEPT ![p] = FALSE]
      /\ pc' = [pc EXCEPT ![p] = IF @ = "asleep" THEN "awake" ELSE @]
      /\ usedidx' = (usedidx + 1) % NUM
      /\ UNCHANGED <<ring, devidx, availidx, elems, usedid, inflight>>
      /\ UNCHANGED <<free, next, info, head, req, op, bdata, disk, panicked>>
  BY DEF virtio_disk_intr, devvars, drvvars
<1>2. elems \in [Desc -> Desc] /\ usedidx \in Desc /\ usedid \in Desc
  BY DEF IInv, TypeInv
<1>3. PICK x \in Desc : x = elems[usedidx]
  BY <1>2
<1>4. /\ usedidx' \in Desc /\ x \in Done /\ Done' = Done \ {x}
      /\ Inj(elems, usedidx, usedid)'
  <2>1. Inj(elems, usedidx, usedid)
    BY DEF IInv, QueueInv
  <2>2. /\ (usedidx + 1) % NUM \in Desc
        /\ elems[usedidx] \in Elems(elems, usedidx, usedid)
        /\ Elems(elems, (usedidx + 1) % NUM, usedid) = Elems(elems, usedidx, usedid) \ {elems[usedidx]}
        /\ Inj(elems, (usedidx + 1) % NUM, usedid)
    BY <1>1, <1>2, <2>1, ElemsGet
  <2>3. elems' = elems /\ usedid' = usedid /\ usedidx' = (usedidx + 1) % NUM
    BY <1>1
  <2>4. Done' = Elems(elems, (usedidx + 1) % NUM, usedid)
    BY <2>3 DEF Done
  <2>5. Inj(elems, usedidx, usedid)'
    BY <2>2, <2>3 DEF Inj, Ring, Dist
  <2> QED
    BY <1>3, <2>2, <2>3, <2>4, <2>5 DEF Done
<1>5. p \in Requesting /\ head[p] = x
  BY <1>1, <1>3, <1>4, HeadBusy DEF IInv, QueueInv
<1>6. pc[p] \in {"asleep", "awake"} /\ pc'[p] = "awake" /\ \A q \in Proc : q # p => pc'[q] = pc[q]
  BY <1>1, <1>5 DEF Requesting, IInv, TypeInv
<1>7. /\ Requesting' = Requesting
      /\ \A q \in Proc : pc'[q] = "idle" <=> pc[q] = "idle"
  BY <1>6 DEF Requesting
<1>8. ~bdisk'[p] /\ \A q \in Proc : q # p => bdisk'[q] = bdisk[q]
  BY <1>1 DEF IInv, TypeInv
<1>9. TypeInv'
  <2>1. pc' \in [Proc -> {"idle", "start", "nodesc", "asleep", "awake"}] /\ bdisk' \in [Proc -> BOOLEAN]
    BY <1>1 DEF IInv, TypeInv
  <2> QED
    BY <1>1, <1>4, <2>1 DEF IInv, TypeInv
<1>10. ChainInv'
  BY <1>1, <1>7, KeepChains DEF IInv
<1>11. OpInv'
  BY <1>1, <1>7 DEF IInv, OpInv
<1>12. Waiting' = Waiting /\ Inj(ring, devidx, availidx)'
  BY <1>1 DEF Waiting, IInv, QueueInv
<1>13. ASSUME NEW i, Pending(i), i # x PROVE Pending(i)'
  <2>1. PICK q \in Requesting : head[q] = i /\ req[i] = op[q] /\ bdisk[q]
    BY <1>13 DEF Pending
  <2>2. q # p /\ q \in Proc
    BY <1>5, <1>13, <2>1 DEF Requesting
  <2> QED
    BY <1>1, <1>7, <1>8, <2>1, <2>2 DEF Pending
<1>14. \A i \in Waiting \cup inflight \cup (Done \ {x}) : i # x
  BY <1>4 DEF IInv, QueueInv
<1>15. QueueInv'
  BY <1>1, <1>4, <1>12, <1>13, <1>14 DEF IInv, QueueInv
<1>16. DataInv'
  <2> SUFFICES ASSUME NEW q \in Requesting, ~bdisk'[q] \/ head[q] \in Done PROVE bdata[q] = disk[op[q].blk]
    BY <1>1, <1>4, <1>7 DEF DataInv
  <2>1. CASE q = p
    BY <1>4, <1>5, <2>1 DEF IInv, DataInv
  <2>2. CASE q # p
    BY <1>8, <2>2 DEF IInv, DataInv, Requesting
  <2> QED
    BY <2>1, <2>2
<1> QED
  BY <1>1, <1>9, <1>10, <1>11, <1>15, <1>16 DEF IInv

LEMMA DeviceFinishStep ==
  ASSUME Room, IInv, NEW i \in Desc, device_finish(i)
  PROVE  IInv'
<1>1. /\ i \in inflight /\ inflight' = inflight \ {i}
      /\ elems' = [elems EXCEPT ![usedid] = i] /\ usedid' = (usedid + 1) % NUM
      /\ UNCHANGED <<ring, devidx, availidx, usedidx>>
      /\ UNCHANGED <<free, next, info, head, req, op, bdisk, pc, panicked>>
  BY DEF device_finish, drvvars
<1>2. PICK q \in Requesting :
        /\ q \in Proc /\ head[q] = i /\ req[i] = op[q] /\ next[i] \in Desc /\ next[i] # i
        /\ next[i] \in ChainOf(next, i)
  BY <1>1, HeadBusy DEF IInv, QueueInv
<1>3. op[q] \in Request /\ op[q].b = q /\ op[q].blk \in Block
  BY <1>2 DEF IInv, OpInv, Requesting, Request
<1>4. i \notin Done /\ next[i] \notin Done
  <2>1. i \notin Done
    BY <1>1 DEF IInv, QueueInv
  <2>2. ASSUME next[i] \in Done PROVE FALSE
    <3>1. PICK t \in Requesting : head[t] = next[i]
      BY <2>2, HeadBusy DEF IInv, QueueInv
    <3>2. t # q
      BY <1>2, <3>1
    <3>3. next[i] \in ChainOf(next, head[t])
      BY <3>1 DEF ChainOf
    <3> QED
      BY <1>2, <3>2, <3>3 DEF IInv, ChainInv
  <2> QED
    BY <2>1, <2>2
<1>5. elems \in [Desc -> Desc] /\ usedidx \in Desc /\ usedid \in Desc /\ Inj(elems, usedidx, usedid)
  BY DEF IInv, TypeInv, QueueInv
<1>6. Dist(usedidx, usedid) + 1 < NUM
  BY <1>2, <1>4, <1>5 DEF Done, Room
<1>7. usedid' \in Desc /\ Done' = Done \cup {i} /\ Inj(elems, usedidx, usedid)'
  <2>1. PICK g, b1 : g = elems' /\ b1 = usedid'
    OBVIOUS
  <2>2. Puts(elems, g, usedid, i)
    BY <1>1, <1>5, <2>1 DEF Puts
  <2>3. b1 \in Desc /\ Elems(g, usedidx, b1) = Elems(elems, usedidx, usedid) \cup {i} /\ Inj(g, usedidx, b1)
    BY SMTT(60), <1>1, <1>4, <1>5, <1>6, <2>1, <2>2, ElemsPut DEF Done
  <2> QED
    BY <1>1, <2>1, <2>3 DEF Done
<1>8. Requesting' = Requesting /\ Waiting' = Waiting /\ Inj(ring, devidx, availidx)'
  BY <1>1 DEF Requesting, Waiting, IInv, QueueInv
<1>9. /\ bdata' \in [Proc -> Val] /\ disk' \in [Block -> Val]
      /\ bdata'[q] = disk'[op[q].blk]
      /\ \A t \in Proc : t # q => bdata'[t] = bdata[t]
      /\ \A k \in Block : k # op[q].blk => disk'[k] = disk[k]
  <2>1. CASE disk' = [disk EXCEPT ![op[q].blk] = bdata[q]] /\ bdata' = bdata
    BY <1>2, <1>3, <2>1 DEF IInv, TypeInv
  <2>2. CASE bdata' = [bdata EXCEPT ![q] = disk[op[q].blk]] /\ disk' = disk
    BY <1>2, <1>3, <2>2 DEF IInv, TypeInv
  <2> QED
    BY <1>2, <1>3, <2>1, <2>2 DEF device_finish
<1>10. TypeInv'
  <2>1. elems' \in [Desc -> Desc] /\ inflight' \subseteq Desc
    BY <1>1 DEF IInv, TypeInv
  <2> QED
    BY <1>1, <1>7, <1>9, <2>1 DEF IInv, TypeInv
<1>11. ChainInv'
  BY <1>1, <1>8, KeepChains DEF IInv
<1>12. OpInv'
  BY <1>1 DEF IInv, OpInv
<1>13. \A c : Pending(c)' <=> Pending(c)
  BY <1>1, <1>8 DEF Pending
<1>14. QueueInv'
  BY <1>1, <1>7, <1>8, <1>13 DEF IInv, QueueInv
<1>15. DataInv'
  <2> SUFFICES ASSUME NEW t \in Requesting, ~bdisk[t] \/ head[t] \in Done \cup {i}
               PROVE  bdata'[t] = disk'[op[t].blk]
    BY <1>1, <1>7, <1>8 DEF DataInv
  <2>1. CASE t = q
    BY <1>9, <2>1
  <2>2. CASE t # q
    <3>1. t \in Proc /\ pc[t] # "idle" /\ pc[q] # "idle"
      BY <1>2 DEF Requesting
    <3>2. op[t].blk \in Block /\ op[t].blk # op[q].blk
      BY <1>2, <2>2, <3>1 DEF IInv, OpInv, Request
    <3>3. head[t] # i
      BY <1>2, <2>2 DEF IInv, ChainInv, Mine
    <3>4. bdata[t] = disk[op[t].blk]
      BY <3>3 DEF IInv, DataInv
    <3> QED
      BY <1>9, <2>2, <3>1, <3>2, <3>4
  <2> QED
    BY <2>1, <2>2
<1> QED
  BY <1>1, <1>10, <1>11, <1>12, <1>14, <1>15 DEF IInv

\* virtio_disk_rw() returns.
LEMMA ReturnStep ==
  ASSUME IInv, NEW p \in Proc, finish(p), ~bdisk[p]
  PROVE  IInv'
<1>1. /\ pc[p] = "awake"
      /\ info' = [info EXCEPT ![head[p]] = NoProc]
      /\ panicked' = (\E i \in Chain(head[p]) : free[i])
      /\ free' = [i \in Desc |-> free[i] \/ i \in Chain(head[p])]
      /\ pc' = [q \in Proc |-> IF q = p THEN "idle" ELSE IF pc[q] = "nodesc" THEN "start" ELSE pc[q]]
      /\ op' = [op EXCEPT ![p] = NoProc]
      /\ UNCHANGED ringvars
      /\ UNCHANGED <<next, req, head, bdisk, bdata, disk>>
  BY DEF finish, devvars, ringvars
<1>2. p \in Requesting /\ Chain(head[p]) = ChainOf(next, head[p])
  BY <1>1 DEF Requesting, Chain, ChainOf
<1>3. ~panicked'
  BY <1>1, <1>2 DEF IInv, ChainInv, Mine
<1>4. /\ pc'[p] = "idle"
      /\ \A q \in Proc : q # p => /\ pc'[q] = (IF pc[q] = "nodesc" THEN "start" ELSE pc[q])
                                  /\ op'[q] = op[q]
  BY <1>1 DEF IInv, TypeInv
<1>5. Requesting' = Requesting \ {p}
  BY <1>4 DEF Requesting
<1>6. TypeInv'
  <2>1. pc' \in [Proc -> {"idle", "start", "nodesc", "asleep", "awake"}]
    BY <1>1 DEF IInv, TypeInv
  <2>2. info' \in [Desc -> Proc \cup {NoProc}] /\ free' \in [Desc -> BOOLEAN]
    BY <1>1 DEF IInv, TypeInv
  <2>3. op' \in [Proc -> Maybe]
    BY <1>1 DEF IInv, TypeInv, Maybe
  <2> QED
    BY <1>1, <2>1, <2>2, <2>3 DEF IInv, TypeInv, ringvars
<1>7. ChainInv'
  <2>1. ASSUME NEW q \in Requesting, q # p PROVE Mine(q)'
    <3>1. Mine(q) /\ Mine(p) /\ ChainOf(next, head[p]) \cap ChainOf(next, head[q]) = {}
      BY <1>2, <2>1 DEF IInv, ChainInv
    <3>2. head[q] # head[p]
      BY <2>1, <3>1 DEF Mine
    <3>3. info'[head[q]] = q
      BY <1>1, <2>1, <3>1, <3>2 DEF IInv, TypeInv, Mine, Requesting
    <3>4. \A c \in ChainOf(next, head[q]) : c \in Desc => ~free'[c]
      BY <1>1, <1>2, <3>1 DEF Mine
    <3>5. ChainOf(next, head[q]) \subseteq Desc
      BY DEF ChainOf, IInv, TypeInv, Requesting
    <3> QED
      BY <1>1, <3>1, <3>3, <3>4, <3>5 DEF Mine
  <2> QED
    BY <1>1, <1>5, <2>1 DEF IInv, ChainInv
<1>8. OpInv'
  <2>1. ASSUME NEW q \in Proc, pc'[q] # "idle" PROVE q # p /\ pc[q] # "idle" /\ op'[q] = op[q]
    <3>1. q # p
      BY <1>4, <2>1
    <3>2. pc'[q] = (IF pc[q] = "nodesc" THEN "start" ELSE pc[q]) /\ op'[q] = op[q]
      BY <1>4, <3>1
    <3>3. pc[q] # "idle"
      <4>1. CASE pc[q] = "nodesc"
        BY <4>1
      <4>2. CASE pc[q] # "nodesc"
        BY <2>1, <3>2, <4>2
      <4> QED
        BY <4>1, <4>2
    <3> QED
      BY <3>1, <3>2, <3>3
  <2>2. ASSUME NEW q \in Proc, pc'[q] # "idle" PROVE op'[q] \in Request /\ op'[q].b = q
    <3>1. pc[q] # "idle" /\ op'[q] = op[q]
      BY <2>1, <2>2
    <3> QED
      BY <3>1 DEF IInv, OpInv
  <2>3. ASSUME NEW q \in Proc, NEW t \in Proc, q # t, pc'[q] # "idle", pc'[t] # "idle"
        PROVE  op'[q].blk # op'[t].blk
    <3>1. pc[q] # "idle" /\ op'[q] = op[q] /\ pc[t] # "idle" /\ op'[t] = op[t]
      BY <2>1, <2>3
    <3> QED
      BY <2>3, <3>1 DEF IInv, OpInv
  <2> QED
    BY <2>2, <2>3 DEF OpInv
<1>9. ASSUME NEW i, Pending(i) PROVE Pending(i)'
  <2>1. PICK q \in Requesting : head[q] = i /\ req[i] = op[q] /\ bdisk[q]
    BY <1>9 DEF Pending
  <2>2. q # p /\ q \in Proc
    BY <2>1 DEF Requesting
  <2> QED
    BY <1>1, <1>4, <1>5, <2>1, <2>2 DEF Pending
<1>10. QueueInv' /\ Done' = Done
  BY <1>1, <1>9, KeepQueues DEF IInv
<1>11. DataInv'
  <2> SUFFICES ASSUME NEW q \in Requesting, q # p, ~bdisk[q] \/ head[q] \in Done
               PROVE  bdata[q] = disk[op'[q].blk]
    BY <1>1, <1>5, <1>10 DEF DataInv
  <2> QED
    BY <1>4 DEF IInv, DataInv, Requesting
<1> QED
  BY <1>3, <1>6, <1>7, <1>8, <1>10, <1>11 DEF IInv

\* alloc3_desc() has found descriptors for the request.
LEMMA SubmitStep ==
  ASSUME Room, Three, IInv, NEW p \in Proc, submit(p)
  PROVE  IInv'
<1>1. PICK i0 \in Desc, i1 \in Desc, i2 \in Desc :
        /\ free[i0] /\ free[i1] /\ free[i2] /\ i0 # i1 /\ i0 # i2 /\ i1 # i2
        /\ free' = [free EXCEPT ![i0] = FALSE, ![i1] = FALSE, ![i2] = FALSE]
        /\ next' = [next EXCEPT ![i0] = i1, ![i1] = i2, ![i2] = NUM]
        /\ req' = [req EXCEPT ![i0] = op[p]]
        /\ info' = [info EXCEPT ![i0] = p]
        /\ ring' = [ring EXCEPT ![availidx] = i0]
        /\ head' = [head EXCEPT ![p] = i0]
  <2>1. Cardinality(FreeDesc) >= 3
    BY DEF submit
  <2> QED
    BY <2>1 DEF submit, Three
<1>2. /\ pc[p] = "start" /\ pc' = [pc EXCEPT ![p] = "asleep"]
      /\ bdisk' = [bdisk EXCEPT ![p] = TRUE] /\ availidx' = (availidx + 1) % NUM
      /\ UNCHANGED <<devidx, elems, usedidx, usedid, inflight>>
      /\ UNCHANGED <<op, bdata, disk, panicked>>
  BY DEF submit, devvars
<1>3. NUM \notin Desc
  BY SMTT(60), VirtioAssumption DEF Desc
<1>4. /\ free'[i0] = FALSE /\ free'[i1] = FALSE /\ free'[i2] = FALSE
      /\ \A c \in Desc : ~free[c] => ~free'[c] /\ next'[c] = next[c] /\ req'[c] = req[c] /\ info'[c] = info[c]
      /\ next'[i0] = i1 /\ next'[i1] = i2 /\ next'[i2] = NUM /\ req'[i0] = op[p] /\ info'[i0] = p
  BY <1>1 DEF IInv, TypeInv
<1>5. /\ pc'[p] = "asleep" /\ bdisk'[p] /\ head'[p] = i0
      /\ \A q \in Proc : q # p => pc'[q] = pc[q] /\ bdisk'[q] = bdisk[q] /\ head'[q] = head[q]
  BY <1>1, <1>2 DEF IInv, TypeInv
<1>6. Requesting' = Requesting \cup {p} /\ p \notin Requesting
  BY <1>2, <1>5 DEF Requesting
<1>7. ChainOf(next', head'[p]) = {i0, i1, i2}
  <2>1. i1 # NUM /\ i2 # NUM
    BY <1>3
  <2>2. ChainOf(next', i0) = {i0} \cup ({i1} \cup {i2})
    BY <1>4, <2>1 DEF ChainOf
  <2>3. {i0} \cup ({i1} \cup {i2}) = {i0, i1, i2}
    OBVIOUS
  <2> QED
    BY <1>5, <2>2, <2>3
<1>8. ASSUME NEW q \in Requesting
      PROVE  /\ head[q] \in Desc /\ ~free[head[q]] /\ head'[q] = head[q]
             /\ ChainOf(next', head'[q]) = ChainOf(next, head[q])
             /\ ChainOf(next, head[q]) \subseteq Desc
             /\ \A c \in ChainOf(next, head[q]) : ~free[c]
  <2>1. q \in Proc /\ q # p /\ Mine(q) /\ head[q] \in Desc /\ next[head[q]] \in Desc
    BY <1>6 DEF Requesting, IInv, TypeInv, ChainInv, Mine
  <2>2. head[q] \in ChainOf(next, head[q]) /\ next[head[q]] \in ChainOf(next, head[q])
    BY <1>3, <2>1 DEF ChainOf
  <2>3. ~free[head[q]] /\ ~free[next[head[q]]] /\ head'[q] = head[q]
    BY <1>5, <2>1, <2>2 DEF Mine
  <2>4. next'[head[q]] = next[head[q]] /\ next'[next[head[q]]] = next[next[head[q]]]
    BY <1>4, <2>1, <2>3
  <2>5. ChainOf(next', head'[q]) = ChainOf(next, head[q])
    BY <2>3, <2>4 DEF ChainOf
  <2>6. ChainOf(next, head[q]) \subseteq Desc
    BY <2>1 DEF ChainOf, IInv, TypeInv
  <2> QED
    BY <2>1, <2>3, <2>5, <2>6 DEF Mine
<1>9. \A i : Pending(i) => i \in Desc /\ ~free[i]
  BY HeadBusy
<1>10. i0 \notin Waiting \cup inflight \cup Done /\ i1 \notin Waiting
  BY <1>1, <1>9 DEF IInv, QueueInv
<1>11. ring \in [Desc -> Desc] /\ devidx \in Desc /\ availidx \in Desc /\ Inj(ring, devidx, availidx)
  BY DEF IInv, TypeInv, QueueInv
<1>12. Dist(devidx, availidx) + 1 < NUM
  BY <1>1, <1>10, <1>11 DEF Waiting, Room
<1>13. availidx' \in Desc /\ Waiting' = Waiting \cup {i0} /\ Inj(ring, devidx, availidx)'
  <2>1. PICK g, b1 : g = ring' /\ b1 = availidx'
    OBVIOUS
  <2>2. Puts(ring, g, availidx, i0)
    BY <1>1, <1>11, <2>1 DEF Puts
  <2>3. b1 \in Desc /\ Elems(g, devidx, b1) = Elems(ring, devidx, availidx) \cup {i0} /\ Inj(g, devidx, b1)
    BY SMTT(60), <1>2, <1>10, <1>11, <1>12, <2>1, <2>2, ElemsPut DEF Waiting
  <2> QED
    BY <1>2, <2>1, <2>3 DEF Waiting
<1>14. Done' = Done /\ Inj(elems, usedidx, usedid)'
  BY <1>2 DEF Done, IInv, QueueInv
<1>15. TypeInv'
  <2>1. pc' \in [Proc -> {"idle", "start", "nodesc", "asleep", "awake"}] /\ bdisk' \in [Proc -> BOOLEAN]
    BY <1>2 DEF IInv, TypeInv
  <2>2. head' \in [Proc -> Desc] /\ ring' \in [Desc -> Desc] /\ info' \in [Desc -> Proc \cup {NoProc}]
    BY <1>1 DEF IInv, TypeInv
  <2>3. op[p] \in Maybe
    BY DEF IInv, TypeInv
  <2>4. req' \in [Desc -> Maybe]
    BY <1>1, <2>3 DEF IInv, TypeInv
  <2>5. free' \in [Desc -> BOOLEAN] /\ next' \in [Desc -> Desc \cup {NUM}]
    BY <1>1 DEF IInv, TypeInv
  <2> QED
    BY <1>2, <1>13, <2>1, <2>2, <2>4, <2>5 DEF IInv, TypeInv
<1>16. ChainInv'
  <2>1. ASSUME NEW q \in Requesting PROVE Mine(q)'
    <3>1. Mine(q)
      BY DEF IInv, ChainInv
    <3>2. PICK h \in Desc : h = head[q] /\ head'[q] = h /\ ~free[h]
      BY <1>8
    <3>3. info'[h] = q /\ next'[h] \in Desc /\ next'[h] # h
      BY <1>4, <3>1, <3>2 DEF Mine
    <3>4. \A c \in ChainOf(next', head'[q]) : ~free'[c]
      <4>1. \A c \in ChainOf(next, head[q]) : c \in Desc /\ ~free[c]
        BY <1>8, <3>1 DEF Mine
      <4>2. ChainOf(next', head'[q]) = ChainOf(next, head[q])
        BY <1>8
      <4> QED
        BY <1>4, <4>1, <4>2
    <3> QED
      BY <3>2, <3>3, <3>4 DEF Mine
  <2>2. Mine(p)'
    <3>1. \A c \in {i0, i1, i2} : ~free'[c]
      BY <1>4
    <3>2. info'[i0] = p /\ next'[i0] \in Desc /\ next'[i0] # i0
      BY <1>1, <1>4
    <3> QED
      BY <1>5, <1>7, <3>1, <3>2 DEF Mine
  <2>3. ASSUME NEW q \in Requesting PROVE ChainOf(next', head'[p]) \cap ChainOf(next', head'[q]) = {}
    BY <1>1, <1>7, <1>8
  <2>4. ASSUME NEW q \in Requesting, NEW t \in Requesting, q # t
        PROVE  ChainOf(next', head'[q]) \cap ChainOf(next', head'[t]) = {}
    <3>1. ChainOf(next, head[q]) \cap ChainOf(next, head[t]) = {}
      BY <2>4 DEF IInv, ChainInv
    <3> QED
      BY <1>8, <3>1
  <2>5. ASSUME NEW q \in Requesting', NEW t \in Requesting', q # t
        PROVE  ChainOf(next', head'[q]) \cap ChainOf(next', head'[t]) = {}
    <3>1. CASE q = p
      BY <1>6, <2>3, <2>5, <3>1
    <3>2. CASE t = p
      BY <1>6, <2>3, <2>5, <3>2
    <3>3. CASE q # p /\ t # p
      BY <1>6, <2>4, <2>5, <3>3
    <3> QED
      BY <3>1, <3>2, <3>3
  <2>6. \A q \in Requesting' : Mine(q)'
    BY <1>6, <2>1, <2>2
  <2> QED
    BY <2>5, <2>6 DEF ChainInv
<1>17. OpInv'
  BY <1>2, <1>5 DEF IInv, OpInv
<1>18. Pending(i0)'
  BY <1>2, <1>4, <1>5, <1>6 DEF Pending
<1>19. ASSUME NEW i, Pending(i) PROVE Pending(i)'
  <2>1. PICK q \in Requesting : head[q] = i /\ req[i] = op[q] /\ bdisk[q]
    BY <1>19 DEF Pending
  <2>2. q # p /\ q \in Proc /\ i \in Desc /\ ~free[i]
    BY <1>6, <1>9, <1>19, <2>1 DEF Requesting
  <2>3. q \in Requesting' /\ head'[q] = i /\ bdisk'[q]
    BY <1>5, <1>6, <2>1, <2>2
  <2>4. req'[i] = op'[q]
    BY <1>2, <1>4, <2>1, <2>2
  <2> QED
    BY <2>3, <2>4 DEF Pending
<1>20. QueueInv'
  BY <1>2, <1>10, <1>13, <1>14, <1>18, <1>19 DEF IInv, QueueInv
<1>21. DataInv'
  <2> SUFFICES ASSUME NEW q \in Requesting', ~bdisk'[q] \/ head'[q] \in Done
               PROVE  bdata[q] = disk[op[q].blk]
    BY <1>2, <1>14 DEF DataInv
  <2>1. q # p
    BY <1>5, <1>10
  <2>2. q \in Requesting /\ q \in Proc
    BY <1>6, <2>1 DEF Requesting
  <2> QED
    BY <1>5, <2>1, <2>2 DEF IInv, DataInv
<1> QED
  BY <1>2, <1>15, <1>16, <1>17, <1>20, <1>21 DEF IInv

-----------------------------------------------------------------------------
(* Initial states and steps.                                               *)

LEMMA InitIInv == Init => IInv
<1> SUFFICES ASSUME Init PROVE IInv
  OBVIOUS
<1>1. Start \in Desc /\ 0 \in Desc /\ NUM - 1 \in Int
  BY SMTT(60), VirtioAssumption DEF Desc
<1>2. Requesting = {}
  BY DEF Init, Requesting
<1>3. Elems(ring, devidx, availidx) = {} /\ Inj(ring, devidx, availidx)
      /\ Elems(elems, usedidx, usedid) = {} /\ Inj(elems, usedidx, usedid)
  <2>1. devidx = Start /\ availidx = Start /\ usedidx = Start /\ usedid = Start
    BY DEF Init
  <2>2. Dist(Start, Start) = 0
    <3>1. Dist(Start, Start) = IF Start <= Start THEN Start - Start ELSE Start - Start + NUM
      BY <1>1, DistIs
    <3> QED
      BY SMTT(60), <1>1, <3>1 DEF Desc
  <2>3. 0 .. Dist(Start, Start) - 1 = {}
    BY SMTT(60), <2>2
  <2> QED
    BY <2>1, <2>3 DEF Elems, Inj
<1>4. TypeInv
  <2>1. free \in [Desc -> BOOLEAN] /\ next \in [Desc -> Desc \cup {NUM}]
        /\ info \in [Desc -> Proc \cup {NoProc}] /\ req \in [Desc -> Maybe]
    BY DEF Init, Maybe
  <2>2. ring \in [Desc -> Desc] /\ elems \in [Desc -> Desc] /\ head \in [Proc -> Desc]
    BY <1>1 DEF Init
  <2>3. bdisk \in [Proc -> BOOLEAN] /\ bdata \in [Proc -> Val] /\ disk \in [Block -> Val]
    BY DEF Init
  <2>4. pc \in [Proc -> {"idle", "start", "nodesc", "asleep", "awake"}] /\ op \in [Proc -> Maybe]
    BY DEF Init, Maybe
  <2> QED
    BY <1>1, <2>1, <2>2, <2>3, <2>4 DEF Init, TypeInv
<1>5. OpInv
  BY DEF Init, OpInv
<1>6. QueueInv
  BY <1>3 DEF Init, QueueInv, Waiting, Done
<1> QED
  BY <1>2, <1>4, <1>5, <1>6 DEF Init, IInv, ChainInv, DataInv

LEMMA NextIInv == Room /\ Three /\ IInv /\ [Next]_vars => IInv'
<1> SUFFICES ASSUME Room, Three, IInv, [Next]_vars PROVE IInv'
  OBVIOUS
<1>1. ASSUME NEW p \in Proc, NEW k \in Block, NEW v \in Val, NEW w \in BOOLEAN, virtio_disk_rw(p, k, w, v)
      PROVE  IInv'
  BY <1>1, CallStep
<1>2. ASSUME NEW p \in Proc, submit(p) PROVE IInv'
  BY <1>2, SubmitStep
<1>3. ASSUME NEW p \in Proc, alloc3_desc_fails(p) PROVE IInv'
  <2>1. /\ pc[p] = "start"
        /\ pc' = [q \in Proc |-> CASE q = p -> "nodesc"
                                   [] pc[q] = "nodesc" /\ FreeDesc # {} -> "start"
                                   [] OTHER -> pc[q]]
    BY <1>3 DEF alloc3_desc_fails
  <2>2. ASSUME NEW q \in Proc
        PROVE  \/ q = p /\ pc'[q] = "nodesc"
               \/ pc[q] = "nodesc" /\ pc'[q] = "start"
               \/ pc'[q] = pc[q]
    BY <2>1
  <2>3. pc' \in [Proc -> {"idle", "start", "nodesc", "asleep", "awake"}]
    BY <2>1, <2>2 DEF IInv, TypeInv
  <2>4. UNCHANGED <<ringvars, chainvars, op, bdisk, bdata, disk, panicked>>
    BY <1>3 DEF alloc3_desc_fails, devvars, drvvars, ringvars, chainvars
  <2> QED
    BY <2>1, <2>2, <2>3, <2>4, QuietStep DEF Quiet
<1>4. ASSUME NEW p \in Proc, finish(p) PROVE IInv'
  <2>1. CASE ~bdisk[p]
    BY <1>4, <2>1, ReturnStep
  <2>2. CASE bdisk[p]
    <3>1. pc[p] = "awake" /\ pc' = [pc EXCEPT ![p] = "asleep"] /\ UNCHANGED <<free, info, op, panicked>>
      BY <1>4, <2>2 DEF finish
    <3>2. UNCHANGED <<ringvars, chainvars, op, bdisk, bdata, disk, panicked>>
      BY <1>4, <3>1 DEF finish, devvars, ringvars, chainvars
    <3>3. pc' \in [Proc -> {"idle", "start", "nodesc", "asleep", "awake"}]
      BY <3>1 DEF IInv, TypeInv
    <3>4. pc'[p] = "asleep" /\ \A q \in Proc : q # p => pc'[q] = pc[q]
      BY <3>1 DEF IInv, TypeInv
    <3> QED
      BY <3>1, <3>2, <3>3, <3>4, QuietStep DEF Quiet
  <2> QED
    BY <2>1, <2>2
<1>5. ASSUME NEW p \in Proc, kill(p) PROVE IInv'
  <2>1. pc[p] \in {"nodesc", "asleep"} /\ pc' = [pc EXCEPT ![p] = IF @ = "nodesc" THEN "start" ELSE "awake"]
    BY <1>5 DEF kill
  <2>2. UNCHANGED <<ringvars, chainvars, op, bdisk, bdata, disk, panicked>>
    BY <1>5 DEF kill, devvars, drvvars, ringvars, chainvars
  <2>3. pc' \in [Proc -> {"idle", "start", "nodesc", "asleep", "awake"}]
    BY <2>1 DEF IInv, TypeInv
  <2>4. /\ pc'[p] = IF pc[p] = "nodesc" THEN "start" ELSE "awake"
        /\ \A q \in Proc : q # p => pc'[q] = pc[q]
    BY <2>1 DEF IInv, TypeInv
  <2> QED
    BY <2>1, <2>2, <2>3, <2>4, QuietStep DEF Quiet
<1>6. ASSUME NEW p \in Proc, virtio_disk_intr(p) PROVE IInv'
  BY <1>6, IntrStep
<1>7. CASE intr_done \/ intr_ack \/ UNCHANGED vars
  <2>1. UNCHANGED <<ringvars, chainvars, op, bdisk, bdata, disk, panicked>> /\ pc' = pc
    BY <1>7 DEF intr_done, intr_ack, vars, devvars, drvvars, ringvars, chainvars
  <2> QED
    BY <2>1, QuietStep DEF Quiet, IInv, TypeInv
<1>8. CASE device_take
  BY <1>8, DeviceTakeStep
<1>9. ASSUME NEW i \in Desc, device_finish(i) PROVE IInv'
  BY <1>9, DeviceFinishStep
<1> QED
  BY <1>1, <1>2, <1>3, <1>4, <1>5, <1>6, <1>7, <1>8, <1>9 DEF Next

LEMMA Intact == IInv => RequestsIntact
<1> SUFFICES ASSUME IInv PROVE RequestsIntact
  OBVIOUS
<1>1. \A i : Chain(i) = ChainOf(next, i)
  BY DEF Chain, ChainOf
<1>2. Given = inflight \cup Waiting
  BY DEF Given, Waiting, Elems, Ring, Dist
<1>3. \A i \in Given : \E p \in Requesting : head[p] = i /\ req[i] = op[p]
  BY <1>2 DEF IInv, QueueInv, Pending
<1>4. ASSUME NEW p \in Requesting
      PROVE  /\ info[head[p]] = p
             /\ \A c \in Chain(head[p]) : ~free[c]
             /\ \A q \in Requesting \ {p} : Chain(head[p]) \cap Chain(head[q]) = {}
  BY <1>1 DEF IInv, ChainInv, Mine
<1> QED
  BY <1>3, <1>4 DEF RequestsIntact, IInv

-----------------------------------------------------------------------------
(* Sleeping for descriptors.                                               *)

\* A step that frees no descriptor and sends nobody to sleep for one.
LEMMA NeedKept ==
  ASSUME DescriptorsNeeded, free' = free, \A p \in Proc : pc'[p] = "nodesc" => pc[p] = "nodesc"
  PROVE  DescriptorsNeeded'
<1>1. FreeDesc' = FreeDesc
  BY DEF FreeDesc
<1> QED
  BY <1>1 DEF DescriptorsNeeded

LEMMA NextNeed == Cardinality(FreeDesc) \in Nat /\ IInv /\ DescriptorsNeeded /\ [Next]_vars => DescriptorsNeeded'
<1> SUFFICES ASSUME Cardinality(FreeDesc) \in Nat, IInv, DescriptorsNeeded, [Next]_vars PROVE DescriptorsNeeded'
  OBVIOUS
<1>1. ASSUME NEW p \in Proc, NEW k \in Block, NEW v \in Val, NEW w \in BOOLEAN, virtio_disk_rw(p, k, w, v)
      PROVE  DescriptorsNeeded'
  <2>1. free' = free /\ pc' = [pc EXCEPT ![p] = "start"]
    BY <1>1 DEF virtio_disk_rw, drvvars
  <2>2. \A q \in Proc : pc'[q] = "nodesc" => pc[q] = "nodesc"
    BY <2>1 DEF IInv, TypeInv
  <2> QED
    BY <2>1, <2>2, NeedKept
<1>2. ASSUME NEW p \in Proc, submit(p) PROVE DescriptorsNeeded'
  <2>1. Cardinality(FreeDesc) >= 3 /\ pc' = [pc EXCEPT ![p] = "asleep"]
    BY <1>2 DEF submit
  <2>2. \A q \in Proc : pc'[q] = "nodesc" => pc[q] = "nodesc"
    BY <2>1 DEF IInv, TypeInv
  <2>3. ~(Cardinality(FreeDesc) < 3)
    BY SMTT(60), <2>1
  <2> QED
    BY <2>2, <2>3 DEF DescriptorsNeeded
<1>3. ASSUME NEW p \in Proc, alloc3_desc_fails(p) PROVE DescriptorsNeeded'
  <2>1. Cardinality(FreeDesc) < 3 /\ free' = free
    BY <1>3 DEF alloc3_desc_fails, drvvars
  <2>2. FreeDesc' = FreeDesc
    BY <2>1 DEF FreeDesc
  <2> QED
    BY <2>1, <2>2 DEF DescriptorsNeeded
<1>4. ASSUME NEW p \in Proc, finish(p) PROVE DescriptorsNeeded'
  <2>1. CASE ~bdisk[p]
    <3>1. pc' = [q \in Proc |-> IF q = p THEN "idle" ELSE IF pc[q] = "nodesc" THEN "start" ELSE pc[q]]
      BY <1>4, <2>1 DEF finish
    <3>2. \A q \in Proc : pc'[q] # "nodesc"
      BY <3>1
    <3> QED
      BY <3>2 DEF DescriptorsNeeded
  <2>2. CASE bdisk[p]
    <3>1. free' = free /\ pc' = [pc EXCEPT ![p] = "asleep"]
      BY <1>4, <2>2 DEF finish
    <3>2. \A q \in Proc : pc'[q] = "nodesc" => pc[q] = "nodesc"
      BY <3>1 DEF IInv, TypeInv
    <3> QED
      BY <3>1, <3>2, NeedKept
  <2> QED
    BY <2>1, <2>2
<1>5. ASSUME NEW p \in Proc, kill(p) PROVE DescriptorsNeeded'
  <2>1. free' = free /\ pc' = [pc EXCEPT ![p] = IF @ = "nodesc" THEN "start" ELSE "awake"]
    BY <1>5 DEF kill, drvvars
  <2>2. \A q \in Proc : pc'[q] = "nodesc" => pc[q] = "nodesc"
    BY <2>1 DEF IInv, TypeInv
  <2> QED
    BY <2>1, <2>2, NeedKept
<1>6. ASSUME NEW p \in Proc, virtio_disk_intr(p) PROVE DescriptorsNeeded'
  <2>1. free' = free /\ pc' = [pc EXCEPT ![p] = IF @ = "asleep" THEN "awake" ELSE @]
    BY <1>6 DEF virtio_disk_intr, drvvars
  <2>2. \A q \in Proc : pc'[q] = "nodesc" => pc[q] = "nodesc"
    BY <2>1 DEF IInv, TypeInv
  <2> QED
    BY <2>1, <2>2, NeedKept
<1>7. CASE intr_done \/ intr_ack \/ device_take \/ UNCHANGED vars \/ \E i \in Desc : device_finish(i)
  <2>1. free' = free /\ pc' = pc
    BY <1>7 DEF intr_done, intr_ack, device_take, device_finish, vars, drvvars
  <2> QED
    BY <2>1, NeedKept
<1> QED
  BY <1>1, <1>2, <1>3, <1>4, <1>5, <1>6, <1>7 DEF Next

-----------------------------------------------------------------------------
(* Finite sets of descriptors.                                             *)

INSTANCE FiniteSetTheorems
INSTANCE WellFoundedInduction

\* A ring that two descriptors are not in has a place left.
LEMMA ElemsRoom ==
  ASSUME NEW f \in [Desc -> Desc], NEW a \in Desc, NEW b \in Desc, Inj(f, a, b),
         NEW x \in Desc, NEW y \in Desc, x # y, x \notin Elems(f, a, b), y \notin Elems(f, a, b)
  PROVE  Dist(a, b) + 1 < NUM
<1>1. NUM \in Nat /\ NUM >= 3
  BY VirtioAssumption
<1>2. PICK d \in 0 .. NUM - 1 : d = Dist(a, b)
  BY DistIs
<1>3. IsFiniteSet(Desc) /\ Cardinality(Desc) = NUM
  <2>1. NUM - 1 \in Int /\ 0 \in Int /\ ~(0 > NUM - 1) /\ (NUM - 1) - 0 + 1 = NUM
    BY SMTT(60), <1>1
  <2>2. PICK n \in Int, z \in Int : n = NUM - 1 /\ z = 0
    BY <2>1
  <2>3. IsFiniteSet(z .. n) /\ Cardinality(z .. n) = IF z > n THEN 0 ELSE n - z + 1
    BY FS_Interval
  <2> QED
    BY <2>1, <2>2, <2>3 DEF Desc
<1>4. IsFiniteSet(0 .. d - 1) /\ Cardinality(0 .. d - 1) = d
  <2>1. d - 1 \in Int /\ 0 \in Int
    BY SMTT(60), <1>1
  <2>2. PICK n \in Int, z \in Int : n = d - 1 /\ z = 0
    BY <2>1
  <2>3. IsFiniteSet(z .. n) /\ Cardinality(z .. n) = IF z > n THEN 0 ELSE n - z + 1
    BY FS_Interval
  <2>4. (IF z > n THEN 0 ELSE n - z + 1) = d
    BY SMTT(60), <1>1, <2>2
  <2> QED
    BY <2>2, <2>3, <2>4
<1>5. PICK T : T = (Desc \ {x}) \ {y}
  OBVIOUS
<1>6. IsFiniteSet(T) /\ Cardinality(T) = NUM - 2
  <2>1. IsFiniteSet(Desc \ {x}) /\ Cardinality(Desc \ {x}) = NUM - 1
    BY <1>3, FS_RemoveElement
  <2>2. y \in Desc \ {x}
    OBVIOUS
  <2>3. IsFiniteSet(T) /\ Cardinality(T) = (NUM - 1) - 1
    <3>1. PICK S : S = Desc \ {x} /\ IsFiniteSet(S) /\ Cardinality(S) = NUM - 1
      BY <2>1
    <3>2. IsFiniteSet(S \ {y}) /\ Cardinality(S \ {y}) = IF y \in S THEN Cardinality(S) - 1 ELSE Cardinality(S)
      BY <3>1, FS_RemoveElement
    <3>3. y \in S /\ T = S \ {y}
      BY <1>5, <2>2, <3>1
    <3> QED
      BY <3>1, <3>2, <3>3
  <2> QED
    BY SMTT(60), <1>1, <2>3
<1>7. PICK g : g = [k \in 0 .. d - 1 |-> Ring(f, a, k)]
  OBVIOUS
<1>8. g \in [0 .. d - 1 -> T]
  <2>1. ASSUME NEW k \in 0 .. d - 1 PROVE Ring(f, a, k) \in T
    <3>1. k \in 0 .. NUM - 1
      BY SMTT(60), <1>1
    <3>2. Ring(f, a, k) \in Desc
      BY <3>1, SpotIs DEF Ring
    <3>3. Ring(f, a, k) \in Elems(f, a, b)
      BY <1>2 DEF Elems
    <3> QED
      BY <1>5, <3>2, <3>3
  <2> QED
    BY <1>7, <2>1
<1>9. \A j, k \in 0 .. d - 1 : g[j] = g[k] => j = k
  BY <1>2, <1>7 DEF Inj
<1>10. ~(NUM - 2 < d)
  <2> SUFFICES ASSUME NUM - 2 < d PROVE FALSE
    OBVIOUS
  <2>1. \E j, k \in 0 .. d - 1 : j # k /\ g[j] = g[k]
    BY <1>4, <1>6, <1>8, FS_PigeonHole
  <2> QED
    BY <1>9, <2>1
<1> QED
  BY SMTT(60), <1>1, <1>2, <1>10

LEMMA RoomHolds == Room
BY ElemsRoom DEF Room

\* alloc_desc() finds a descriptor if there is one.
LEMMA Least ==
  ASSUME NEW S \in SUBSET Desc, S # {}
  PROVE  alloc_desc(S) \in S
<1> DEFINE R == OpToRel(<, Nat)
<1>1. S \subseteq Nat
  BY SMTT(60), VirtioAssumption DEF Desc
<1>2. PICK n \in S : \A m \in S : ~(<<m, n>> \in R)
  BY <1>1, WFMin, NatLessThanWellFounded
<1>3. \A m \in S : n <= m
  <2> SUFFICES ASSUME NEW m \in S, m < n
               PROVE  FALSE
    BY SMTT(60), <1>1
  <2>1. <<m, n>> \in R
    BY <1>1 DEF OpToRel
  <2> QED
    BY <1>2, <2>1
<1> QED
  BY <1>3 DEF alloc_desc

LEMMA FreeFinite == IsFiniteSet(FreeDesc)
<1>1. NUM - 1 \in Int /\ 0 \in Int
  BY SMTT(60), VirtioAssumption
<1>2. IsFiniteSet(Desc)
  BY <1>1, FS_Interval DEF Desc
<1>3. FreeDesc \subseteq Desc
  BY DEF FreeDesc
<1> QED
  BY <1>2, <1>3, FS_Subset

\* alloc3_desc() finds three if there are three.
LEMMA AllocThree ==
  ASSUME Cardinality(FreeDesc) >= 3
  PROVE  LET i0 == alloc_desc(FreeDesc)
             i1 == alloc_desc(FreeDesc \ {i0})
             i2 == alloc_desc(FreeDesc \ {i0, i1})
         IN  /\ i0 \in Desc /\ i1 \in Desc /\ i2 \in Desc
             /\ free[i0] /\ free[i1] /\ free[i2]
             /\ i0 # i1 /\ i0 # i2 /\ i1 # i2
<1>1. PICK F : F = FreeDesc
  OBVIOUS
<1>2. F \in SUBSET Desc /\ (\A i \in F : free[i]) /\ Cardinality(F) >= 3
  BY <1>1 DEF FreeDesc
<1>3. IsFiniteSet(F)
  BY <1>1, FreeFinite
<1>4. PICK n \in Nat : n = Cardinality(F)
  BY <1>3, FS_CardinalityType
<1>5. n >= 3 /\ n # 0 /\ n - 1 # 0 /\ n - 1 - 1 # 0
  <2>1. n >= 3
    BY <1>2, <1>4
  <2> QED
    BY SMTT(60), <2>1
<1>6. PICK i0 \in F : i0 = alloc_desc(F)
  <2>1. F # {}
    BY <1>4, <1>5, FS_EmptySet
  <2> QED
    BY <1>2, <2>1, Least
<1>7. IsFiniteSet(F \ {i0}) /\ Cardinality(F \ {i0}) = n - 1
  BY <1>3, <1>4, FS_RemoveElement
<1>8. PICK i1 \in F \ {i0} : i1 = alloc_desc(F \ {i0})
  <2>1. F \ {i0} # {}
    BY <1>5, <1>7, FS_EmptySet
  <2> QED
    BY <1>2, <2>1, Least
<1>9. IsFiniteSet((F \ {i0}) \ {i1}) /\ Cardinality((F \ {i0}) \ {i1}) = n - 1 - 1
  BY <1>7, FS_RemoveElement
<1>10. PICK i2 \in F \ {i0, i1} : i2 = alloc_desc(F \ {i0, i1})
  <2>1. F \ {i0, i1} = (F \ {i0}) \ {i1}
    OBVIOUS
  <2>2. F \ {i0, i1} # {}
    BY <1>5, <1>9, <2>1, FS_EmptySet
  <2> QED
    BY <1>2, <2>2, Least
<1> QED
  BY <1>1, <1>2, <1>6, <1>8, <1>10

LEMMA ThreeHolds == Three
BY AllocThree DEF Three

-----------------------------------------------------------------------------
(* The theorems.                                                           *)

\* The queues of the driver and the device keep what the properties rest on.
THEOREM VirtioInvariant == Spec => []IInv
<1>1. IInv /\ [Next]_vars => IInv'
  BY NextIInv, RoomHolds, ThreeHolds
<1> QED
  BY <1>1, InitIInv, PTL DEF Spec

\* For any number of processes and descriptors the device only works on
\* descriptors of a request whose process is still in virtio_disk_rw(), no two
\* requests share a descriptor, and free_desc() does not panic.
THEOREM VirtioRequestsIntact == Spec => []RequestsIntact
BY Intact, VirtioInvariant, PTL

\* Whatever the order in which the device finishes requests, the buffer and its
\* sector agree from the moment virtio_disk_intr() clears b->disk until
\* virtio_disk_rw() returns.
THEOREM VirtioTransferComplete == Spec => []TransferComplete
<1>1. IInv => TransferComplete
  BY DEF IInv, DataInv, TransferComplete, Requesting
<1> QED
  BY <1>1, VirtioInvariant, PTL

\* A process sleeps on disk.free[0] only while fewer than three descriptors are
\* free: free_desc() wakes every such process when a request ends.
THEOREM VirtioDescriptorsNeeded == Spec => []DescriptorsNeeded
<1>1. Init => DescriptorsNeeded
  BY DEF Init, DescriptorsNeeded
<1>2. Cardinality(FreeDesc) \in Nat
  BY FreeFinite, FS_CardinalityType
<1>3. IInv /\ DescriptorsNeeded /\ [Next]_vars => DescriptorsNeeded'
  BY <1>2, NextNeed
<1> QED
  BY <1>1, <1>3, VirtioInvariant, PTL DEF Spec
============================================================================
