--------------------------- MODULE ConsoleProofs ----------------------------
(***************************************************************************)
(* The safety properties of module Console, for any number of readers and  *)
(* writers, any sizes of the two buffers and any width of the indices that *)
(* ConsoleAssumption allows.                                               *)
(***************************************************************************)
EXTENDS Console, TLAPS

USE ZenonT(120)

-----------------------------------------------------------------------------
(* Remainders, as a ring uses them.                                        *)

\* Division with remainder.
LEMMA DivMod ==
  ASSUME NEW n \in Nat, NEW m \in Nat \ {0}
  PROVE  \E q \in Nat : \E z \in 0 .. m - 1 : n % m = z /\ n = m * q + z
<1>1. n \div m \in Nat /\ n % m \in 0 .. m - 1 /\ n = m * (n \div m) + (n % m)
  BY SMTT(60)
<1> QED
  BY <1>1

\* The remainder is the only one.
LEMMA Unique ==
  ASSUME NEW m \in Nat \ {0}, NEW q \in Int, NEW z \in 0 .. m - 1, NEW n \in Int, n = m * q + z
  PROVE  n % m = z
BY SMTT(60)

\* A counter may wrap before something is added to it.
LEMMA ModPlus ==
  ASSUME NEW n \in Nat, NEW m \in Nat \ {0}, NEW k \in Nat
  PROVE  ((n % m) + k) % m = (n + k) % m
<1>1. PICK q \in Nat, z \in 0 .. m - 1 : n % m = z /\ n = m * q + z
  BY DivMod
<1>2. PICK q2 \in Nat, r2 \in 0 .. m - 1 : (z + k) % m = r2 /\ z + k = m * q2 + r2
  <2>1. z + k \in Nat
    BY SMTT(60)
  <2> QED
    BY <2>1, DivMod
<1>3. n + k = m * (q + q2) + r2
  BY SMTT(60), <1>1, <1>2
<1>4. (n + k) % m = r2
  <2>1. q + q2 \in Int /\ n + k \in Int
    BY SMTT(60)
  <2> QED
    BY <1>3, <2>1, Unique
<1> QED
  BY <1>1, <1>2, <1>4

\* A counter that wraps at a multiple of the size of the ring finds the same
\* place in it as one that never wraps.
LEMMA ModMod ==
  ASSUME NEW n \in Nat, NEW m \in Nat \ {0}, NEW u \in Nat \ {0}, u % m = 0
  PROVE  (n % u) % m = n % m
<1>1. PICK q \in Nat, z \in 0 .. u-1 : n % u = z /\ n = u * q + z
  BY DivMod
<1>2. PICK q2 \in Nat : u = m * q2
  <2>1. u \in Nat
    OBVIOUS
  <2>2. \E q4 \in Nat : \E r4 \in 0 .. m - 1 : u % m = r4 /\ u = m * q4 + r4
    BY <2>1, DivMod
  <2>3. PICK q4 \in Nat : \E r4 \in 0 .. m - 1 : u % m = r4 /\ u = m * q4 + r4
    BY <2>2
  <2>4. u = m * q4
    BY SMTT(60), <2>3
  <2> QED
    BY <2>4
<1>3. PICK q3 \in Nat, r3 \in 0 .. m - 1 : z % m = r3 /\ z = m * q3 + r3
  <2>1. z \in Nat
    BY SMTT(60)
  <2> QED
    BY <2>1, DivMod
<1>4. n = (m * q2) * q + (m * q3 + r3)
  BY <1>1, <1>2, <1>3
<1>5. n = m * (q2 * q + q3) + r3
  BY SMTT(60), <1>4
<1>6. q2 * q + q3 \in Int
  BY SMTT(60)
<1>7. n % m = r3
  BY SMTT(60), <1>5, <1>6, Unique
<1> QED
  BY <1>1, <1>3, <1>7

\* The distance of two wrapped counters is the distance of the counters.
LEMMA ModDiff ==
  ASSUME NEW n \in Nat, NEW m \in Nat \ {0}, NEW d \in 0 .. m - 1
  PROVE  (((n + d) % m) - (n % m)) % m = d
<1>1. PICK q \in Nat, z \in 0 .. m - 1 : n % m = z /\ n = m * q + z
  BY DivMod
<1>2. PICK q2 \in Nat, r2 \in 0 .. m - 1 : (n + d) % m = r2 /\ n + d = m * q2 + r2
  <2>1. n + d \in Nat
    BY SMTT(60)
  <2> QED
    BY <2>1, DivMod
<1>3. r2 - z = m * (q - q2) + d /\ q - q2 \in Int /\ r2 - z \in Int
  BY SMTT(60), <1>1, <1>2
<1>4. (r2 - z) % m = d
  BY <1>3, Unique
<1> QED
  BY <1>1, <1>2, <1>4

\* Counters less than the size of the ring apart use different places.
LEMMA ModClose ==
  ASSUME NEW n \in Nat, NEW m \in Nat \ {0}, NEW d \in 1 .. m - 1
  PROVE  (n + d) % m # n % m
<1> SUFFICES ASSUME (n + d) % m = n % m PROVE FALSE
  OBVIOUS
<1>1. (((n + d) % m) - (n % m)) % m = d
  <2>1. d \in 0 .. m - 1
    BY SMTT(60)
  <2> QED
    BY <2>1, ModDiff
<1>2. n % m \in Int /\ 0 = m * 0 + 0
  BY SMTT(60)
<1>3. 0 % m = 0
  BY SMTT(60), <1>2, Unique
<1> QED
  BY SMTT(60), <1>1, <1>2, <1>3

\* A counter that is a step or two off its range.
LEMMA ModNear ==
  ASSUME NEW m \in Nat \ {0}, NEW x \in Int, -m <= x, x < 2 * m
  PROVE  /\ x < 0 => x % m = x + m
         /\ 0 <= x /\ x < m => x % m = x
         /\ m <= x => x % m = x - m
<1>1. ASSUME x < 0 PROVE x % m = x + m
  <2>1. -1 \in Int /\ x + m \in 0 .. m - 1 /\ x = m * (-1) + (x + m)
    BY SMTT(60), <1>1
  <2> QED
    BY SMTT(60), <2>1, Unique
<1>2. ASSUME 0 <= x, x < m PROVE x % m = x
  <2>1. 0 \in Int /\ x \in 0 .. m - 1 /\ x = m * 0 + x
    BY SMTT(60), <1>2
  <2> QED
    BY SMTT(60), <2>1, Unique
<1>3. ASSUME m <= x PROVE x % m = x - m
  <2>1. 1 \in Int /\ x - m \in 0 .. m - 1 /\ x = m * 1 + (x - m)
    BY SMTT(60), <1>3
  <2> QED
    BY SMTT(60), <2>1, Unique
<1> QED
  BY <1>1, <1>2, <1>3

-----------------------------------------------------------------------------
(* The transmit buffer.                                                    *)

\* Buffer t with indices tw and tr holds the bytes from s + 1 to wr.
Flow(t, tw, tr, s, wr) ==
  /\ s + ((tw - tr) % TX_SIZE) = wr
  /\ \A k \in 0 .. ((tw - tr) % TX_SIZE) - 1 : t[(tr + k) % TX_SIZE] = s + k + 1

TxType ==
  /\ tx \in [0 .. TX_SIZE - 1 -> Nat]
  /\ tx_w \in 0 .. TX_SIZE - 1 /\ tx_r \in 0 .. TX_SIZE - 1
  /\ written \in Nat /\ sent \in Nat

OutInv ==
  /\ TxType
  /\ Flow(tx, tx_w, tx_r, sent, written)
  /\ tx_w # tx_r => busy \/ irq \/ handler = "rx"

\* The places from tr on: how many there are up to tw, and which they are.
LEMMA Places ==
  ASSUME NEW tw \in 0 .. TX_SIZE - 1, NEW tr \in 0 .. TX_SIZE - 1
  PROVE  /\ (tw - tr) % TX_SIZE = IF tr <= tw THEN tw - tr ELSE tw - tr + TX_SIZE
         /\ \A k \in 0 .. TX_SIZE : (tr + k) % TX_SIZE = IF tr + k < TX_SIZE THEN tr + k ELSE tr + k - TX_SIZE
<1>1. TX_SIZE \in Nat \ {0}
  BY SMTT(60), ConsoleAssumption
<1>2. tw - tr \in Int /\ -TX_SIZE <= tw - tr /\ tw - tr < 2 * TX_SIZE /\ tw - tr < TX_SIZE
  BY SMTT(60), <1>1
<1>3. (tw - tr) % TX_SIZE = IF tr <= tw THEN tw - tr ELSE tw - tr + TX_SIZE
  <2>1. /\ tw - tr < 0 => (tw - tr) % TX_SIZE = tw - tr + TX_SIZE
        /\ 0 <= tw - tr /\ tw - tr < TX_SIZE => (tw - tr) % TX_SIZE = tw - tr
    BY <1>1, <1>2, ModNear
  <2> QED
    BY SMTT(60), <1>1, <1>2, <2>1
<1>4. ASSUME NEW k \in 0 .. TX_SIZE
      PROVE  (tr + k) % TX_SIZE = IF tr + k < TX_SIZE THEN tr + k ELSE tr + k - TX_SIZE
  <2>1. PICK x \in Int : x = tr + k /\ -TX_SIZE <= x /\ x < 2 * TX_SIZE /\ 0 <= x
    BY SMTT(60), <1>1
  <2>2. (0 <= x /\ x < TX_SIZE => x % TX_SIZE = x) /\ (TX_SIZE <= x => x % TX_SIZE = x - TX_SIZE)
    BY <1>1, <2>1, ModNear
  <2> QED
    BY SMTT(60), <1>1, <2>1, <2>2
<1> QED
  BY <1>3, <1>4

LEMMA FlowPut ==
  ASSUME NEW t \in [0 .. TX_SIZE - 1 -> Nat], NEW tw \in 0 .. TX_SIZE - 1, NEW tr \in 0 .. TX_SIZE - 1,
         NEW s \in Nat, NEW wr \in Nat, Flow(t, tw, tr, s, wr), (tw + 1) % TX_SIZE # tr
  PROVE  /\ (tw + 1) % TX_SIZE \in 0 .. TX_SIZE - 1
         /\ Flow([t EXCEPT ![tw] = wr + 1], (tw + 1) % TX_SIZE, tr, s, wr + 1)
<1> DEFINE n  == (tw - tr) % TX_SIZE
           u  == (tw + 1) % TX_SIZE
           n2 == (u - tr) % TX_SIZE
<1>1. TX_SIZE \in Nat \ {0, 1}
  BY ConsoleAssumption
<1>2. n = IF tr <= tw THEN tw - tr ELSE tw - tr + TX_SIZE
  BY Places
<1>3. u = IF tw + 1 < TX_SIZE THEN tw + 1 ELSE tw + 1 - TX_SIZE
  <2>1. 1 \in 0 .. TX_SIZE
    BY SMTT(60), <1>1
  <2> QED
    BY <2>1, Places
<1>4. u \in 0 .. TX_SIZE - 1
  BY SMTT(60), <1>1, <1>3
<1>5. n2 = IF tr <= u THEN u - tr ELSE u - tr + TX_SIZE
  BY <1>4, Places
<1>6. u # tr
  OBVIOUS
<1> HIDE DEF n, u, n2
<1>7. n2 = n + 1 /\ n \in Nat /\ n + 1 < TX_SIZE
  BY SMTT(60), <1>1, <1>2, <1>3, <1>5, <1>6
<1>8. ASSUME NEW k \in 0 .. n PROVE [t EXCEPT ![tw] = wr + 1][(tr + k) % TX_SIZE] = s + k + 1
  <2>1. k \in 0 .. TX_SIZE
    BY SMTT(60), <1>1, <1>7
  <2> DEFINE i == (tr + k) % TX_SIZE
  <2>2. i = IF tr + k < TX_SIZE THEN tr + k ELSE tr + k - TX_SIZE
    BY <2>1, Places
  <2>3. s + n = wr /\ \A j \in 0 .. n - 1 : t[(tr + j) % TX_SIZE] = s + j + 1
    BY DEF Flow, n
  <2> HIDE DEF i
  <2>4. i \in 0 .. TX_SIZE - 1 /\ (i = tw <=> k = n)
    BY SMTT(60), <1>1, <1>2, <1>7, <2>1, <2>2
  <2>5. CASE k = n
    <3>1. wr + 1 = s + k + 1
      BY SMTT(60), <2>3, <2>5
    <3> QED
      BY <2>4, <2>5, <3>1 DEF i
  <2>6. CASE k # n
    <3>1. k \in 0 .. n - 1
      BY SMTT(60), <1>7, <2>6
    <3>2. t[i] = s + k + 1
      BY <2>3, <3>1 DEF i
    <3> QED
      BY <2>4, <2>6, <3>2 DEF i
  <2> QED
    BY <2>5, <2>6
<1>9. s + n2 = wr + 1
  <2>1. s + n = wr
    BY DEF Flow, n
  <2> QED
    BY SMTT(60), <1>7, <2>1
<1>10. n2 - 1 = n
  BY SMTT(60), <1>7
<1> QED
  BY <1>4, <1>8, <1>9, <1>10 DEF Flow, n2, u

LEMMA FlowStart ==
  ASSUME NEW t \in [0 .. TX_SIZE - 1 -> Nat], NEW tw \in 0 .. TX_SIZE - 1, NEW tr \in 0 .. TX_SIZE - 1,
         NEW s \in Nat, NEW wr \in Nat, Flow(t, tw, tr, s, wr), tw # tr
  PROVE  /\ (tr + 1) % TX_SIZE \in 0 .. TX_SIZE - 1
         /\ Flow(t, tw, (tr + 1) % TX_SIZE, t[tr], wr)
<1> DEFINE n  == (tw - tr) % TX_SIZE
           u  == (tr + 1) % TX_SIZE
           n2 == (tw - u) % TX_SIZE
<1>1. TX_SIZE \in Nat \ {0, 1}
  BY ConsoleAssumption
<1>2. n = IF tr <= tw THEN tw - tr ELSE tw - tr + TX_SIZE
  BY Places
<1>3. u = IF tr + 1 < TX_SIZE THEN tr + 1 ELSE tr + 1 - TX_SIZE
  <2>1. 1 \in 0 .. TX_SIZE
    BY SMTT(60), <1>1
  <2> QED
    BY <2>1, Places
<1>4. u \in 0 .. TX_SIZE - 1
  BY SMTT(60), <1>1, <1>3
<1>5. n2 = IF u <= tw THEN tw - u ELSE tw - u + TX_SIZE
  BY <1>4, Places
<1>6. s + n = wr /\ \A j \in 0 .. n - 1 : t[(tr + j) % TX_SIZE] = s + j + 1
  BY DEF Flow
<1>7. (tr + 0) % TX_SIZE = tr
  <2>1. 0 \in 0 .. TX_SIZE
    BY SMTT(60), <1>1
  <2>2. (tr + 0) % TX_SIZE = IF tr + 0 < TX_SIZE THEN tr + 0 ELSE tr + 0 - TX_SIZE
    BY <2>1, Places
  <2> QED
    BY SMTT(60), <1>1, <2>2
<1> HIDE DEF n, u, n2
<1>8. n2 = n - 1 /\ n \in Nat /\ 0 < n /\ n < TX_SIZE
  BY SMTT(60), <1>1, <1>2, <1>3, <1>5
<1>9. t[tr] = s + 1
  <2>1. 0 \in 0 .. n - 1 /\ s + 0 + 1 = s + 1
    BY SMTT(60), <1>8
  <2> QED
    BY <1>6, <1>7, <2>1
<1>10. ASSUME NEW k \in 0 .. n2 - 1 PROVE t[(u + k) % TX_SIZE] = (s + 1) + k + 1
  <2>1. k \in 0 .. TX_SIZE /\ k + 1 \in 0 .. TX_SIZE /\ k + 1 \in 0 .. n - 1
    BY SMTT(60), <1>1, <1>8
  <2>2. (u + k) % TX_SIZE = IF u + k < TX_SIZE THEN u + k ELSE u + k - TX_SIZE
    BY <1>4, <2>1, Places
  <2>3. (tr + (k + 1)) % TX_SIZE = IF tr + (k + 1) < TX_SIZE THEN tr + (k + 1) ELSE tr + (k + 1) - TX_SIZE
    BY <2>1, Places
  <2>4. (u + k) % TX_SIZE = (tr + (k + 1)) % TX_SIZE
    BY SMTT(60), <1>1, <1>3, <2>1, <2>2, <2>3
  <2>5. t[(tr + (k + 1)) % TX_SIZE] = s + (k + 1) + 1
    BY <1>6, <2>1
  <2> QED
    BY SMTT(60), <2>1, <2>4, <2>5
<1>11. (s + 1) + n2 = wr
  BY SMTT(60), <1>6, <1>8
<1> QED
  BY <1>4, <1>9, <1>10, <1>11 DEF Flow, n2, u

LEMMA OutSame ==
  ASSUME OutInv, UNCHANGED <<tx, tx_w, tx_r, sent, written>>,
         busy \/ irq \/ handler = "rx" => (busy \/ irq \/ handler = "rx")'
  PROVE  OutInv'
BY DEF OutInv, TxType, Flow

\* uartstart() keeps the order, and leaves the UART busy if anything waits.
LEMMA UartStartKeeps ==
  ASSUME NEW t \in [0 .. TX_SIZE - 1 -> Nat], NEW tw \in 0 .. TX_SIZE - 1, NEW tr \in 0 .. TX_SIZE - 1,
         NEW wr \in Nat, sent \in Nat, Flow(t, tw, tr, sent, wr), UartStart(t, tw, tr)
  PROVE  /\ tx_r' \in 0 .. TX_SIZE - 1 /\ sent' \in Nat
         /\ Flow(t, tw, tx_r', sent', wr)
         /\ tw # tx_r' => busy'
<1>1. CASE tw = tr \/ busy
  BY <1>1 DEF UartStart
<1>2. CASE tw # tr /\ ~busy
  <2>1. tx_r' = (tr + 1) % TX_SIZE /\ busy' = TRUE /\ sent' = t[tr]
    BY <1>2 DEF UartStart
  <2> QED
    BY <1>2, <2>1, FlowStart
<1> QED
  BY <1>1, <1>2

LEMMA OutStep ==
  ASSUME OutInv, [Next]_vars
  PROVE  OutInv'
<1>1. CASE UNCHANGED <<outvars, devvars, written>>
  BY <1>1, OutSame DEF outvars, devvars
<1>2. ASSUME NEW p \in Proc, uartputc(p) PROVE OutInv'
  <2>1. CASE TxFull
    <3>1. UNCHANGED <<outvars, devvars, written>>
      BY <1>2, <2>1 DEF uartputc
    <3> QED
      BY <1>1, <3>1
  <2>2. CASE ~TxFull
    <3>1. /\ tx' = [tx EXCEPT ![tx_w] = written + 1] /\ tx_w' = (tx_w + 1) % TX_SIZE
          /\ UartStart(tx', tx_w', tx_r) /\ written' = written + 1
      BY <1>2, <2>2 DEF uartputc
    <3>2. tx_w' \in 0 .. TX_SIZE - 1 /\ Flow(tx', tx_w', tx_r, sent, written')
      BY <2>2, <3>1, FlowPut DEF OutInv, TxType, TxFull
    <3>3. written' \in Nat
      BY SMTT(60), <3>1 DEF OutInv, TxType
    <3>4. tx' \in [0 .. TX_SIZE - 1 -> Nat] /\ tx_r \in 0 .. TX_SIZE - 1 /\ sent \in Nat
      BY <3>1, <3>3 DEF OutInv, TxType
    <3>5. /\ tx_r' \in 0 .. TX_SIZE - 1 /\ sent' \in Nat
          /\ Flow(tx', tx_w', tx_r', sent', written') /\ (tx_w' # tx_r' => busy')
      BY <3>1, <3>2, <3>3, <3>4, UartStartKeeps
    <3> QED
      BY <3>2, <3>3, <3>4, <3>5 DEF OutInv, TxType, Flow
  <2> QED
    BY <2>1, <2>2
<1>3. CASE uartintr \/ device_sent \/ \E c \in Key : device_receive(c)
  BY <1>3, OutSame DEF uartintr, device_sent, device_receive, outvars
<1>4. CASE consoleintr
  BY <1>4, OutSame DEF consoleintr
<1>5. CASE uartintr_send
  <2>1. UartStart(tx, tx_w, tx_r) /\ UNCHANGED <<tx, tx_w, written>>
    BY <1>5 DEF uartintr_send
  <2>2. /\ tx_r' \in 0 .. TX_SIZE - 1 /\ sent' \in Nat
        /\ Flow(tx, tx_w, tx_r', sent', written) /\ (tx_w # tx_r' => busy')
    BY <2>1, UartStartKeeps DEF OutInv, TxType
  <2> QED
    BY <2>1, <2>2 DEF OutInv, TxType, Flow
<1>6. CASE UNCHANGED vars
  BY <1>1, <1>6 DEF vars
<1> QED
  BY <1>1, <1>2, <1>3, <1>4, <1>5, <1>6
     DEF Next, Handler, CallStep, consoleread, read_acquire, read_empty, sleep, read_char, kill, consolewrite,
         write_acquire, write_return

\* The bytes that consolewrite() was given leave in order, and while some of
\* them wait the UART is sending or an interrupt is on its way: uart_tx_buf is
\* emptied without another write, for any size of the buffer and any number of
\* processes that write.
THEOREM ConsoleOutputFlows == Spec => []OutputFlows
<1>1. Init => OutInv
  <2>1. TX_SIZE \in Nat \ {0} /\ TxStart \in 0 .. TX_SIZE - 1
    BY SMTT(60), ConsoleAssumption
  <2>2. (TxStart - TxStart) % TX_SIZE = 0 /\ 0 + 0 = 0 /\ 0 .. 0 - 1 = {} /\ 0 \in Nat
    <3>1. (TxStart - TxStart) % TX_SIZE = TxStart - TxStart
      <4>1. (TxStart - TxStart) % TX_SIZE = IF TxStart <= TxStart THEN TxStart - TxStart
                                               ELSE TxStart - TxStart + TX_SIZE
        BY <2>1, Places
      <4> QED
        BY SMTT(60), <2>1, <4>1
    <3> QED
      BY SMTT(60), <2>1, <3>1
  <2> QED
    BY <2>1, <2>2 DEF Init, OutInv, TxType, Flow
<1>2. OutInv => OutputFlows
  BY DEF OutInv, OutputFlows, Flow
<1> QED
  BY <1>1, <1>2, OutStep, PTL DEF Spec
-----------------------------------------------------------------------------
(* Sleeping readers.                                                       *)

Place == {"idle", "r_lock", "r_loop", "r_sleep", "r_asleep", "w_lock", "w_loop"}

\* cons.lock is held exactly by a process inside its critical section; one that
\* has decided to sleep, or sleeps, has nothing to read.
ProcInv ==
  /\ pc \in [Proc -> Place]
  /\ \A p \in Proc : pc[p] \in {"r_loop", "r_sleep", "w_loop"} => lock = {p}
  /\ \A p \in Proc : pc[p] \in {"r_sleep", "r_asleep"} => r = w

\* A step of process p to another place: it takes cons.lock if nobody has it,
\* or releases it, or neither.
LEMMA PcMove ==
  ASSUME ProcInv, NEW p \in Proc, NEW l \in Place, pc' = [pc EXCEPT ![p] = l],
         \/ lock = {} /\ lock' = {p}
         \/ lock = {p} /\ lock' = {} /\ l \notin {"r_loop", "r_sleep", "w_loop"}
         \/ lock' = lock /\ (l \in {"r_loop", "r_sleep", "w_loop"} => lock = {p}),
         \/ UNCHANGED <<r, w>> /\ (l \in {"r_sleep", "r_asleep"} => r = w)
         \/ r # w /\ l \notin {"r_sleep", "r_asleep"}
  PROVE  ProcInv'
<1>1. pc' \in [Proc -> Place] /\ pc'[p] = l /\ \A q \in Proc : q # p => pc'[q] = pc[q]
  BY DEF ProcInv
<1>2. ASSUME NEW q \in Proc, pc'[q] \in {"r_loop", "r_sleep", "w_loop"} PROVE lock' = {q}
  <2>1. CASE q = p
    BY <1>1, <1>2, <2>1
  <2>2. CASE q # p
    <3>1. lock = {q}
      BY <1>1, <1>2, <2>2 DEF ProcInv
    <3> QED
      BY <2>2, <3>1
  <2> QED
    BY <2>1, <2>2
<1>3. ASSUME NEW q \in Proc, pc'[q] \in {"r_sleep", "r_asleep"} PROVE r' = w'
  BY <1>1, <1>3 DEF ProcInv
<1> QED
  BY <1>1, <1>2, <1>3 DEF ProcInv

LEMMA StoreKeeps ==
  ASSUME ProcInv, lock = {}, NEW c, Store(c), UNCHANGED <<r, lock>>
  PROVE  ProcInv'
<1>1. CASE UNCHANGED <<w, pc>>
  BY <1>1 DEF ProcInv
<1>2. CASE pc' = [p \in Proc |-> IF pc[p] = "r_asleep" THEN "r_lock" ELSE pc[p]]
  <2>1. \A p \in Proc : pc[p] \notin {"r_loop", "r_sleep", "w_loop"}
    BY DEF ProcInv
  <2>2. \A p \in Proc : pc'[p] = IF pc[p] = "r_asleep" THEN "r_lock" ELSE pc[p]
    BY <1>2
  <2>3. pc' \in [Proc -> Place]
    BY <1>2 DEF ProcInv, Place
  <2> QED
    BY <2>1, <2>2, <2>3 DEF ProcInv
<1> QED
  BY <1>1, <1>2 DEF Store

LEMMA ReadCharKeeps ==
  ASSUME ProcInv, NEW p \in Proc, read_char(p)
  PROVE  ProcInv'
<1>1. pc[p] = "r_loop" /\ r # w /\ lock = {p} /\ p \in Proc
  BY DEF read_char, ProcInv
<1>2. CASE lock' = {} /\ Goto(p, "idle")
  BY <1>1, <1>2, PcMove DEF Goto, Place
<1>3. CASE UNCHANGED <<lock, pc>>
  BY <1>1, <1>3 DEF ProcInv
<1> QED
  BY <1>2, <1>3 DEF read_char

LEMMA ProcStep ==
  ASSUME ProcInv, [Next]_vars
  PROVE  ProcInv'
<1>1. CASE UNCHANGED <<pc, lock, r, w>>
  BY <1>1 DEF ProcInv
<1>2. ASSUME NEW p \in Proc, NEW n, consoleread(p, n) \/ consolewrite(p, n) PROVE ProcInv'
  BY <1>2, PcMove DEF consoleread, consolewrite, Goto, Place, invars
<1>3. ASSUME NEW p \in Proc, read_acquire(p) \/ write_acquire(p) PROVE ProcInv'
  BY <1>3, PcMove DEF read_acquire, write_acquire, Goto, Place, invars
<1>4. ASSUME NEW p \in Proc, read_empty(p) PROVE ProcInv'
  <2>1. pc[p] = "r_loop" /\ lock = {p} /\ r = w /\ UNCHANGED <<r, w>>
    BY <1>4 DEF read_empty, ProcInv, invars
  <2>2. CASE lock' = {} /\ Goto(p, "idle")
    BY <2>1, <2>2, PcMove DEF Goto, Place
  <2>3. CASE lock' = lock /\ Goto(p, "r_sleep")
    BY <2>1, <2>3, PcMove DEF Goto, Place
  <2> QED
    BY <1>4, <2>2, <2>3 DEF read_empty
<1>5. ASSUME NEW p \in Proc, sleep(p) PROVE ProcInv'
  <2>1. pc[p] = "r_sleep" /\ lock = {p} /\ r = w /\ UNCHANGED <<r, w>> /\ lock' = {} /\ Goto(p, "r_asleep")
    BY <1>5 DEF sleep, ProcInv, invars
  <2> QED
    BY <2>1, PcMove DEF Goto, Place
<1>6. ASSUME NEW p \in Proc, kill(p) PROVE ProcInv'
  <2>1. CASE pc[p] = "r_asleep"
    <3>1. pc' = [pc EXCEPT ![p] = "r_lock"] /\ UNCHANGED <<lock, r, w>>
      BY <1>6, <2>1 DEF kill, invars, ProcInv
    <3> QED
      BY <3>1, PcMove DEF Place
  <2>2. CASE pc[p] # "r_asleep"
    <3>1. pc' = pc /\ UNCHANGED <<lock, r, w>>
      BY <1>6, <2>2 DEF kill, invars, ProcInv
    <3> QED
      BY <1>1, <3>1
  <2> QED
    BY <2>1, <2>2
<1>7. ASSUME NEW p \in Proc, write_return(p) PROVE ProcInv'
  <2>1. pc[p] = "w_loop" /\ lock = {p} /\ UNCHANGED <<r, w>> /\ lock' = {} /\ Goto(p, "idle")
    BY <1>7 DEF write_return, ProcInv, invars
  <2> QED
    BY <2>1, PcMove DEF Goto, Place
<1>8. CASE consoleintr
  <2>1. lock = {} /\ UNCHANGED <<r, lock>>
    BY <1>8 DEF consoleintr
  <2> QED
    BY <1>1, <1>8, <2>1, StoreKeeps DEF consoleintr
<1>9. ASSUME NEW p \in Proc, uartputc(p) PROVE ProcInv'
  BY <1>1, <1>9 DEF uartputc, invars
<1>10. CASE uartintr \/ uartintr_send \/ device_sent \/ \E c \in Key : device_receive(c)
  BY <1>1, <1>10 DEF uartintr, uartintr_send, device_sent, device_receive, invars
<1>11. CASE UNCHANGED vars
  BY <1>1, <1>11 DEF vars, invars
<1> QED
  BY <1>2, <1>3, <1>4, <1>5, <1>6, <1>7, <1>8, <1>9, <1>10, <1>11, ReadCharKeeps DEF Next, Handler, CallStep

\* No reader sleeps on input that is there: consoleintr() moves cons.w under
\* cons.lock and wakes up every sleeper, and sleep() lets go of cons.lock only
\* after the reader has become one.  For any number of readers.
THEOREM ConsoleReaderSleepsOnEmpty == Spec => []ReaderSleepsOnEmpty
<1>1. Init => ProcInv
  BY DEF Init, ProcInv, Place
<1>2. ProcInv => ReaderSleepsOnEmpty
  BY DEF ProcInv, ReaderSleepsOnEmpty
<1> QED
  BY <1>1, <1>2, ProcStep, PTL DEF Spec
-----------------------------------------------------------------------------
(* The input buffer: positions, and the distance from one to another.      *)

Pos == 0 .. UINT - 1

Dist(a, b) == (b - a) % UINT

LEMMA Width ==
  /\ UINT \in Nat \ {0} /\ INPUT_BUF \in Nat \ {0} /\ UINT % INPUT_BUF = 0 /\ INPUT_BUF < UINT
  /\ Pos \subseteq Nat
BY SMTT(60), ConsoleAssumption DEF Pos

LEMMA DistIs ==
  ASSUME NEW a \in Pos, NEW b \in Pos
  PROVE  Dist(a, b) = IF a <= b THEN b - a ELSE b - a + UINT
<1>1. UINT \in Nat \ {0}
  BY Width
<1>2. PICK x \in Int : x = b - a /\ -UINT <= x /\ x < 2 * UINT /\ x < UINT
  BY SMTT(60), <1>1 DEF Pos
<1>3. (x < 0 => x % UINT = x + UINT) /\ (0 <= x /\ x < UINT => x % UINT = x)
  BY <1>1, <1>2, ModNear
<1> QED
  BY SMTT(60), <1>1, <1>2, <1>3 DEF Dist, Pos

\* One position on, and one back.
LEMMA NextIs ==
  ASSUME NEW a \in Pos
  PROVE  /\ (a + 1) % UINT = IF a + 1 = UINT THEN 0 ELSE a + 1
         /\ (a - 1) % UINT = IF a = 0 THEN UINT - 1 ELSE a - 1
<1>1. UINT \in Nat \ {0} /\ 1 < UINT
  BY SMTT(60), Width
<1>2. PICK x \in Int : x = a + 1 /\ -UINT <= x /\ x < 2 * UINT /\ 0 <= x
  BY SMTT(60), <1>1 DEF Pos
<1>3. (0 <= x /\ x < UINT => x % UINT = x) /\ (UINT <= x => x % UINT = x - UINT)
  BY <1>1, <1>2, ModNear
<1>4. PICK y \in Int : y = a - 1 /\ -UINT <= y /\ y < 2 * UINT /\ y < UINT
  BY SMTT(60), <1>1 DEF Pos
<1>5. (y < 0 => y % UINT = y + UINT) /\ (0 <= y /\ y < UINT => y % UINT = y)
  BY <1>1, <1>4, ModNear
<1> QED
  BY SMTT(60), <1>1, <1>2, <1>3, <1>4, <1>5 DEF Pos

LEMMA DistFacts ==
  ASSUME NEW a \in Pos, NEW b \in Pos
  PROVE  /\ Dist(a, b) \in Nat /\ Dist(a, b) < UINT
         /\ Dist(a, b) = 0 <=> a = b
         /\ Dist(a, a) = 0
<1>1. UINT \in Nat \ {0} /\ Dist(a, b) = IF a <= b THEN b - a ELSE b - a + UINT
  BY Width, DistIs
<1>2. Dist(a, a) = IF a <= a THEN a - a ELSE a - a + UINT
  BY DistIs
<1> QED
  BY SMTT(60), <1>1, <1>2 DEF Pos

LEMMA DistNext ==
  ASSUME NEW a \in Pos, NEW b \in Pos
  PROVE  /\ (a + 1) % UINT \in Pos /\ (a - 1) % UINT \in Pos
         /\ Dist(a, b) + 1 < UINT => Dist(a, (b + 1) % UINT) = Dist(a, b) + 1
         /\ a # b => Dist((a + 1) % UINT, b) = Dist(a, b) - 1
         /\ a # b => Dist(a, (b - 1) % UINT) = Dist(a, b) - 1
<1>1. UINT \in Nat \ {0} /\ Dist(a, b) = IF a <= b THEN b - a ELSE b - a + UINT
  BY Width, DistIs
<1>2. /\ (a + 1) % UINT = IF a + 1 = UINT THEN 0 ELSE a + 1
      /\ (a - 1) % UINT = IF a = 0 THEN UINT - 1 ELSE a - 1
  BY NextIs
<1>3. /\ (b + 1) % UINT = IF b + 1 = UINT THEN 0 ELSE b + 1
      /\ (b - 1) % UINT = IF b = 0 THEN UINT - 1 ELSE b - 1
  BY NextIs
<1>4. PICK a1 \in Pos : a1 = (a + 1) % UINT
  BY SMTT(60), <1>1, <1>2 DEF Pos
<1>5. PICK b1 \in Pos : b1 = (b + 1) % UINT
  BY SMTT(60), <1>1, <1>3 DEF Pos
<1>6. PICK b0 \in Pos : b0 = (b - 1) % UINT
  BY SMTT(60), <1>1, <1>3 DEF Pos
<1>7. /\ Dist(a, b1) = IF a <= b1 THEN b1 - a ELSE b1 - a + UINT
      /\ Dist(a1, b) = IF a1 <= b THEN b - a1 ELSE b - a1 + UINT
      /\ Dist(a, b0) = IF a <= b0 THEN b0 - a ELSE b0 - a + UINT
  BY DistIs
<1>8. (a - 1) % UINT \in Pos
  BY SMTT(60), <1>1, <1>2 DEF Pos
<1>9. Dist(a, b) + 1 < UINT => Dist(a, b1) = Dist(a, b) + 1
  BY SMTT(60), <1>1, <1>3, <1>5, <1>7 DEF Pos
<1>10. a # b => Dist(a1, b) = Dist(a, b) - 1
  BY SMTT(60), <1>1, <1>2, <1>4, <1>7 DEF Pos
<1>11. a # b => Dist(a, b0) = Dist(a, b) - 1
  BY SMTT(60), <1>1, <1>3, <1>6, <1>7 DEF Pos
<1> QED
  BY <1>4, <1>5, <1>6, <1>8, <1>9, <1>10, <1>11

LEMMA DistSum ==
  ASSUME NEW a \in Pos, NEW b \in Pos, NEW c \in Pos, Dist(a, b) + Dist(b, c) < UINT
  PROVE  Dist(a, c) = Dist(a, b) + Dist(b, c)
<1>1. /\ UINT \in Nat \ {0} /\ Dist(a, b) = IF a <= b THEN b - a ELSE b - a + UINT
      /\ Dist(b, c) = IF b <= c THEN c - b ELSE c - b + UINT
      /\ Dist(a, c) = IF a <= c THEN c - a ELSE c - a + UINT
  BY Width, DistIs
<1> QED
  BY SMTT(60), <1>1 DEF Pos

\* The buffer is full when cons.e is INPUT_BUF past cons.r.
LEMMA FullAt ==
  ASSUME NEW a \in Pos, NEW b \in Pos
  PROVE  b = (a + INPUT_BUF) % UINT <=> Dist(a, b) = INPUT_BUF
<1>1. UINT \in Nat \ {0} /\ INPUT_BUF \in Nat \ {0} /\ INPUT_BUF < UINT
  BY Width
<1>2. PICK x \in Int : x = a + INPUT_BUF /\ -UINT <= x /\ x < 2 * UINT /\ 0 <= x
  BY SMTT(60), <1>1 DEF Pos
<1>3. (0 <= x /\ x < UINT => x % UINT = x) /\ (UINT <= x => x % UINT = x - UINT)
  BY <1>1, <1>2, ModNear
<1>4. Dist(a, b) = IF a <= b THEN b - a ELSE b - a + UINT
  BY DistIs
<1> QED
  BY SMTT(60), <1>1, <1>2, <1>3, <1>4 DEF Pos
-----------------------------------------------------------------------------
(* What the input buffer holds from a position on.                         *)

INSTANCE SequenceTheorems

Byte == Char \cup {"none"}
Buffer == [0 .. INPUT_BUF - 1 -> Byte]

At(bf, a, k) == bf[InBuf(a + k)]
Cells(bf, a, n) == [i \in 1 .. n |-> At(bf, a, i - 1)]

LEMMA SpotIs ==
  ASSUME NEW k \in Nat
  PROVE  InBuf(k) = k % INPUT_BUF /\ InBuf(k) \in 0 .. INPUT_BUF - 1
<1>1. UINT \in Nat \ {0} /\ INPUT_BUF \in Nat \ {0} /\ UINT % INPUT_BUF = 0
  BY Width
<1>2. InBuf(k) = k % INPUT_BUF
  BY <1>1, ModMod DEF InBuf
<1>3. PICK q \in Nat, z \in 0 .. INPUT_BUF - 1 : k % INPUT_BUF = z /\ k = INPUT_BUF * q + z
  BY <1>1, DivMod
<1> QED
  BY <1>2, <1>3

\* Less than INPUT_BUF apart is at different spots.
LEMMA SpotApart ==
  ASSUME NEW a \in Nat, NEW i \in Nat, NEW j \in Nat, i < j, j < i + INPUT_BUF
  PROVE  InBuf(a + i) # InBuf(a + j)
<1>1. INPUT_BUF \in Nat \ {0}
  BY Width
<1>2. PICK n \in Nat, d \in 1 .. INPUT_BUF - 1 : n = a + i /\ n + d = a + j /\ n + d \in Nat
  <2>1. /\ a + i \in Nat /\ j - i \in 1 .. INPUT_BUF - 1
        /\ (a + i) + (j - i) = a + j /\ (a + i) + (j - i) \in Nat
    BY SMTT(60), <1>1
  <2> QED
    BY <2>1
<1>3. (n + d) % INPUT_BUF # n % INPUT_BUF
  BY <1>1, ModClose
<1>4. InBuf(n) = n % INPUT_BUF /\ InBuf(n + d) = (n + d) % INPUT_BUF
  BY <1>2, SpotIs
<1> QED
  BY <1>2, <1>3, <1>4

\* Seen from a, position b is Dist(a, b) further on.
LEMMA SpotFrom ==
  ASSUME NEW a \in Pos, NEW b \in Pos, NEW k \in Nat
  PROVE  InBuf(b + k) = InBuf(a + (Dist(a, b) + k))
<1>1. UINT \in Nat \ {0} /\ a \in Nat /\ b \in Nat
  BY Width
<1>2. Dist(a, b) = IF a <= b THEN b - a ELSE b - a + UINT
  BY DistIs
<1>3. PICK x \in Nat :
        x = a + Dist(a, b) /\ -UINT <= x /\ x < 2 * UINT /\ ((x = b /\ x < UINT) \/ (x = b + UINT /\ UINT <= x))
  <2>1. CASE a <= b
    <3>1. a + Dist(a, b) = b /\ b < UINT /\ -UINT <= b /\ b < 2 * UINT
      BY SMTT(60), <1>1, <1>2, <2>1 DEF Pos
    <3> QED
      BY <1>1, <3>1
  <2>2. CASE ~(a <= b)
    <3>1. /\ a + Dist(a, b) = b + UINT /\ UINT <= b + UINT /\ -UINT <= b + UINT
          /\ b + UINT < 2 * UINT /\ b + UINT \in Nat
      BY SMTT(60), <1>1, <1>2, <2>2 DEF Pos
    <3> QED
      BY <3>1
  <2> QED
    BY <2>1, <2>2
<1>4. (0 <= x /\ x < UINT => x % UINT = x) /\ (UINT <= x => x % UINT = x - UINT)
  <2>1. x \in Int
    BY SMTT(60)
  <2> QED
    BY <1>1, <1>3, <2>1, ModNear
<1>5. x % UINT = b
  BY SMTT(60), <1>1, <1>3, <1>4
<1>6. (b + k) % UINT = (x + k) % UINT
  BY <1>1, <1>5, ModPlus
<1>7. a + (Dist(a, b) + k) = x + k
  BY SMTT(60), <1>1, <1>2, <1>3
<1> QED
  BY <1>6, <1>7 DEF InBuf

LEMMA CellsSeq ==
  ASSUME NEW bf \in Buffer, NEW a \in Nat, NEW n \in Nat
  PROVE  /\ Cells(bf, a, n) \in Seq(Byte) /\ Len(Cells(bf, a, n)) = n
         /\ \A i \in 1 .. n : Cells(bf, a, n)[i] = At(bf, a, i - 1)
<1>1. ASSUME NEW i \in 1 .. n PROVE At(bf, a, i - 1) \in Byte
  <2>1. a + (i - 1) \in Nat
    BY SMTT(60)
  <2> QED
    BY <2>1, SpotIs DEF At, Buffer
<1>2. Cells(bf, a, n) \in [1 .. n -> Byte] /\ DOMAIN Cells(bf, a, n) = 1 .. n
  BY <1>1 DEF Cells
<1>3. Cells(bf, a, n) \in Seq(Byte)
  BY <1>2, SeqDef
<1>4. Len(Cells(bf, a, n)) \in Nat /\ 1 .. Len(Cells(bf, a, n)) = 1 .. n
  BY <1>2, <1>3, LenProperties
<1>5. Len(Cells(bf, a, n)) = n
  BY SMTT(60), <1>4
<1> QED
  BY <1>3, <1>5 DEF Cells

LEMMA CellsNone == ASSUME NEW bf, NEW a PROVE Cells(bf, a, 0) = <<>>
<1>1. 1 .. 0 = {}
  BY SMTT(60)
<1> QED
  BY SMTT(60), <1>1 DEF Cells

LEMMA SliceIs ==
  ASSUME NEW from \in Pos, NEW to \in Pos
  PROVE  Slice(from, to) = Cells(buf, from, Dist(from, to))
<1>1. \A i \in 1 .. Dist(from, to) : from + i - 1 = from + (i - 1)
  BY SMTT(60), DistFacts, Width
<1> QED
  BY <1>1 DEF Slice, Cells, At, Dist

\* Two sequences of bytes are equal if they agree everywhere.
LEMMA SameCells ==
  ASSUME NEW s \in Seq(Byte), NEW n \in Nat, Len(s) = n, NEW bf \in Buffer, NEW a \in Nat,
         \A i \in 1 .. n : s[i] = At(bf, a, i - 1)
  PROVE  s = Cells(bf, a, n)
<1>1. /\ Cells(bf, a, n) \in Seq(Byte) /\ Len(Cells(bf, a, n)) = n
      /\ \A i \in 1 .. n : Cells(bf, a, n)[i] = At(bf, a, i - 1)
  BY CellsSeq
<1>2. PICK t \in Seq(Byte) : t = Cells(bf, a, n) /\ Len(s) = Len(t) /\ \A i \in 1 .. Len(s) : s[i] = t[i]
  BY <1>1
<1>3. s = t
  BY <1>2, SeqEqual
<1> QED
  BY <1>2, <1>3

LEMMA CellsTail ==
  ASSUME NEW bf \in Buffer, NEW a \in Pos, NEW n \in Nat \ {0}
  PROVE  Cells(bf, a, n) # <<>> /\ Tail(Cells(bf, a, n)) = Cells(bf, (a + 1) % UINT, n - 1)
<1>1. a \in Nat /\ n \in Nat /\ n - 1 \in Nat
  BY SMTT(60), Width
<1>2. PICK s \in Seq(Byte) : s = Cells(bf, a, n) /\ Len(s) = n /\ \A i \in 1 .. n : s[i] = At(bf, a, i - 1)
  BY <1>1, CellsSeq
<1>3. s # <<>>
  BY <1>2, EmptySeq
<1>4. PICK t \in Seq(Byte) : t = Tail(s) /\ Len(t) = n - 1 /\ \A i \in 1 .. n - 1 : t[i] = s[i + 1]
  <2>1. /\ Tail(s) \in Seq(Byte) /\ Len(Tail(s)) = Len(s) - 1
        /\ \A i \in 1 .. Len(Tail(s)) : Tail(s)[i] = s[i + 1]
    BY <1>3, HeadTailProperties
  <2> QED
    BY <1>2, <2>1
<1>5. PICK a1 \in Pos : a1 = (a + 1) % UINT /\ a1 \in Nat /\ Dist(a, a1) = 1
  <2>1. Dist(a, a) = 0 /\ 1 < UINT
    BY SMTT(60), DistFacts, Width
  <2>2. Dist(a, a) + 1 < UINT /\ Dist(a, a) + 1 = 1
    BY SMTT(60), <2>1
  <2>3. /\ (a + 1) % UINT \in Pos
        /\ Dist(a, a) + 1 < UINT => Dist(a, (a + 1) % UINT) = Dist(a, a) + 1
    BY DistNext
  <2> QED
    BY <2>2, <2>3, Width
<1>6. ASSUME NEW i \in 1 .. n - 1 PROVE t[i] = At(bf, a1, i - 1)
  <2>1. i + 1 \in 1 .. n /\ (i + 1) - 1 = i /\ i - 1 \in Nat /\ 1 + (i - 1) = i
    BY SMTT(60)
  <2>2. InBuf(a1 + (i - 1)) = InBuf(a + (Dist(a, a1) + (i - 1)))
    BY <2>1, SpotFrom
  <2>3. t[i] = At(bf, a, i)
    BY <1>2, <1>4, <2>1
  <2> QED
    BY <1>5, <2>1, <2>2, <2>3 DEF At
<1>7. t = Cells(bf, a1, n - 1)
  BY <1>1, <1>4, <1>5, <1>6, SameCells
<1> QED
  BY <1>2, <1>3, <1>4, <1>5, <1>7

LEMMA CellsFront ==
  ASSUME NEW bf \in Buffer, NEW a \in Nat, NEW n \in Nat \ {0}
  PROVE  /\ Cells(bf, a, n) # <<>>
         /\ SubSeq(Cells(bf, a, n), 1, Len(Cells(bf, a, n)) - 1) = Cells(bf, a, n - 1)
<1>1. n \in Nat /\ n - 1 \in Nat /\ 1 \in Int /\ n - 1 \in Int /\ (n - 1) - 1 + 1 = n - 1
  BY SMTT(60)
<1>2. PICK s \in Seq(Byte) : s = Cells(bf, a, n) /\ Len(s) = n /\ \A i \in 1 .. n : s[i] = At(bf, a, i - 1)
  BY <1>1, CellsSeq
<1>3. s # <<>>
  BY <1>2, EmptySeq
<1>4. \A i \in 1 .. n - 1 : i \in 1 .. n /\ 1 + i - 1 = i
  BY SMTT(60)
<1>5. \A i \in 1 .. n - 1 : s[i] \in Byte
  BY <1>2, <1>4, ElementOfSeq
<1>6. PICK t : t = SubSeq(s, 1, n - 1)
  OBVIOUS
<1>7. /\ t \in Seq(Byte) /\ Len(t) = (IF 1 <= n - 1 THEN n - 1 - 1 + 1 ELSE 0)
      /\ \A i \in 1 .. n - 1 - 1 + 1 : t[i] = s[1 + i - 1]
  <2>1. PICK m \in Int, q \in Int : m = 1 /\ q = n - 1
    BY <1>1
  <2>2. \A i \in m .. q : s[i] \in Byte
    BY <1>5, <2>1
  <2>3. /\ SubSeq(s, m, q) \in Seq(Byte)
        /\ Len(SubSeq(s, m, q)) = (IF m <= q THEN q - m + 1 ELSE 0)
        /\ \A i \in 1 .. q - m + 1 : SubSeq(s, m, q)[i] = s[m + i - 1]
    BY SMTT(60), <2>2, SubSeqProperties
  <2> QED
    BY <1>6, <2>1, <2>3
<1>8. Len(t) = n - 1 /\ n - 1 - 1 + 1 = n - 1
  BY SMTT(60), <1>1, <1>7
<1>9. \A i \in 1 .. n - 1 : t[i] = At(bf, a, i - 1)
  BY <1>2, <1>4, <1>7, <1>8
<1>10. t = Cells(bf, a, n - 1)
  BY <1>1, <1>7, <1>8, <1>9, SameCells
<1> QED
  BY <1>2, <1>3, <1>6, <1>10

\* A byte stored at b: what is seen of it, and of the others, from a.
LEMMA AtPut ==
  ASSUME NEW bf \in Buffer, NEW a \in Pos, NEW b \in Pos, NEW c \in Byte, Dist(a, b) < INPUT_BUF
  PROVE  /\ [bf EXCEPT ![InBuf(b)] = c] \in Buffer
         /\ At([bf EXCEPT ![InBuf(b)] = c], a, Dist(a, b)) = c
         /\ \A k \in 0 .. Dist(a, b) - 1 : At([bf EXCEPT ![InBuf(b)] = c], a, k) = At(bf, a, k)
<1>1. a \in Nat /\ b \in Nat /\ Dist(a, b) \in Nat /\ INPUT_BUF \in Nat
  BY Width, DistFacts
<1>2. PICK d \in Nat : d = Dist(a, b) /\ a + d \in Nat
  <2>1. a + Dist(a, b) \in Nat
    BY SMTT(60), <1>1
  <2> QED
    BY <1>1, <2>1
<1>3. InBuf(b) = InBuf(a + d) /\ InBuf(b) \in 0 .. INPUT_BUF - 1
  <2>1. b + 0 = b /\ d + 0 = d /\ 0 \in Nat
    BY SMTT(60), <1>1
  <2>2. InBuf(b + 0) = InBuf(a + (d + 0))
    BY <1>2, <2>1, SpotFrom
  <2> QED
    BY <1>1, <2>1, <2>2, SpotIs
<1>4. ASSUME NEW k \in 0 .. d - 1 PROVE InBuf(a + k) # InBuf(b) /\ InBuf(a + k) \in 0 .. INPUT_BUF - 1
  <2>1. k \in Nat /\ k < d /\ d < k + INPUT_BUF /\ a + k \in Nat
    BY SMTT(60), <1>1, <1>2
  <2>2. InBuf(a + k) # InBuf(a + d)
    BY <1>1, <2>1, SpotApart
  <2>3. InBuf(a + k) \in 0 .. INPUT_BUF - 1
    BY <2>1, SpotIs
  <2> QED
    BY <1>3, <2>2, <2>3
<1>5. [bf EXCEPT ![InBuf(b)] = c] \in Buffer
  BY <1>3 DEF Buffer
<1>6. At([bf EXCEPT ![InBuf(b)] = c], a, d) = c
  BY <1>3 DEF At, Buffer
<1>7. \A k \in 0 .. d - 1 : At([bf EXCEPT ![InBuf(b)] = c], a, k) = At(bf, a, k)
  BY <1>4 DEF At, Buffer
<1> QED
  BY <1>2, <1>5, <1>6, <1>7

LEMMA CellsPut ==
  ASSUME NEW bf \in Buffer, NEW a \in Pos, NEW b \in Pos, NEW c \in Byte, Dist(a, b) < INPUT_BUF
  PROVE  /\ Append(Cells(bf, a, Dist(a, b)), c) = Cells([bf EXCEPT ![InBuf(b)] = c], a, Dist(a, b) + 1)
         /\ \A n \in 0 .. Dist(a, b) : Cells([bf EXCEPT ![InBuf(b)] = c], a, n) = Cells(bf, a, n)
<1>1. PICK d \in Nat : d = Dist(a, b) /\ d + 1 \in Nat
  <2>1. Dist(a, b) \in Nat
    BY DistFacts
  <2>2. Dist(a, b) + 1 \in Nat
    BY SMTT(60), <2>1
  <2> QED
    BY <2>1, <2>2
<1>2. PICK bf2 \in Buffer :
        /\ bf2 = [bf EXCEPT ![InBuf(b)] = c]
        /\ At(bf2, a, d) = c
        /\ \A k \in 0 .. d - 1 : At(bf2, a, k) = At(bf, a, k)
  <2>1. /\ [bf EXCEPT ![InBuf(b)] = c] \in Buffer
        /\ At([bf EXCEPT ![InBuf(b)] = c], a, Dist(a, b)) = c
        /\ \A k \in 0 .. Dist(a, b) - 1 : At([bf EXCEPT ![InBuf(b)] = c], a, k) = At(bf, a, k)
    BY AtPut
  <2> QED
    BY <1>1, <2>1
<1>3. a \in Nat
  BY Width
<1>4. PICK s \in Seq(Byte) : s = Cells(bf, a, d) /\ Len(s) = d /\ \A i \in 1 .. d : s[i] = At(bf, a, i - 1)
  BY <1>3, CellsSeq
<1>5. PICK t \in Seq(Byte) :
        /\ t = Append(s, c) /\ Len(t) = d + 1 /\ t[d + 1] = c
        /\ \A i \in 1 .. d : t[i] = s[i]
  <2>1. /\ Append(s, c) \in Seq(Byte) /\ Len(Append(s, c)) = Len(s) + 1
        /\ \A i \in 1 .. Len(s) : Append(s, c)[i] = s[i]
        /\ Append(s, c)[Len(s) + 1] = c
    BY SMTT(60), AppendProperties
  <2> QED
    BY <1>4, <2>1
<1>6. ASSUME NEW i \in 1 .. d + 1 PROVE t[i] = At(bf2, a, i - 1)
  <2>1. CASE i = d + 1
    <3>1. i - 1 = d
      BY SMTT(60), <2>1
    <3> QED
      BY <1>2, <1>5, <2>1, <3>1
  <2>2. CASE i # d + 1
    <3>1. i \in 1 .. d /\ i - 1 \in 0 .. d - 1
      BY SMTT(60), <2>2
    <3> QED
      BY <1>2, <1>4, <1>5, <3>1
  <2> QED
    BY <2>1, <2>2
<1>7. t = Cells(bf2, a, d + 1)
  BY <1>1, <1>3, <1>5, <1>6, SameCells
<1>8. ASSUME NEW n \in 0 .. d PROVE Cells(bf2, a, n) = Cells(bf, a, n)
  <2>1. \A i \in 1 .. n : i - 1 \in 0 .. d - 1
    BY SMTT(60)
  <2>2. \A i \in 1 .. n : At(bf2, a, i - 1) = At(bf, a, i - 1)
    BY <1>2, <2>1
  <2> QED
    BY <2>2 DEF Cells
<1> QED
  BY <1>1, <1>2, <1>4, <1>5, <1>7, <1>8

LEMMA CellsJoin ==
  ASSUME NEW bf \in Buffer, NEW a \in Pos, NEW b \in Pos, NEW m \in Nat
  PROVE  Cells(bf, a, Dist(a, b)) \o Cells(bf, b, m) = Cells(bf, a, Dist(a, b) + m)
<1>1. PICK d \in Nat : d = Dist(a, b) /\ d + m \in Nat
  <2>1. Dist(a, b) \in Nat
    BY DistFacts
  <2>2. Dist(a, b) + m \in Nat
    BY SMTT(60), <2>1
  <2> QED
    BY <2>1, <2>2
<1>2. a \in Nat /\ b \in Nat
  BY Width
<1>3. PICK s \in Seq(Byte) : s = Cells(bf, a, d) /\ Len(s) = d /\ \A i \in 1 .. d : s[i] = At(bf, a, i - 1)
  BY <1>2, CellsSeq
<1>4. PICK t \in Seq(Byte) : t = Cells(bf, b, m) /\ Len(t) = m /\ \A i \in 1 .. m : t[i] = At(bf, b, i - 1)
  BY <1>2, CellsSeq
<1>5. PICK u \in Seq(Byte) :
        /\ u = s \o t /\ Len(u) = d + m
        /\ \A i \in 1 .. d + m : u[i] = IF i <= d THEN s[i] ELSE t[i - d]
  <2>1. /\ s \o t \in Seq(Byte) /\ Len(s \o t) = Len(s) + Len(t)
        /\ \A i \in 1 .. Len(s) + Len(t) : (s \o t)[i] = IF i <= Len(s) THEN s[i] ELSE t[i - Len(s)]
    BY ConcatProperties
  <2>2. Len(s) = d /\ Len(t) = m
    BY <1>3, <1>4
  <2>3. /\ s \o t \in Seq(Byte) /\ Len(s \o t) = d + m
        /\ \A i \in 1 .. d + m : (s \o t)[i] = IF i <= d THEN s[i] ELSE t[i - d]
    BY <2>1, <2>2
  <2> QED
    BY <2>3
<1>6. ASSUME NEW i \in 1 .. d + m PROVE u[i] = At(bf, a, i - 1)
  <2>1. CASE i <= d
    <3>1. i \in 1 .. d
      BY SMTT(60), <2>1
    <3> QED
      BY <1>3, <1>5, <2>1, <3>1
  <2>2. CASE ~(i <= d)
    <3>1. PICK k \in Nat : k = (i - d) - 1 /\ i - d \in 1 .. m /\ d + k = i - 1
      <4>1. (i - d) - 1 \in Nat /\ i - d \in 1 .. m /\ d + ((i - d) - 1) = i - 1
        BY SMTT(60), <2>2
      <4> QED
        BY <4>1
    <3>2. InBuf(b + k) = InBuf(a + (Dist(a, b) + k))
      BY SpotFrom
    <3>3. u[i] = At(bf, b, k)
      BY <1>4, <1>5, <2>2, <3>1
    <3> QED
      BY <1>1, <3>1, <3>2, <3>3 DEF At
  <2> QED
    BY <2>1, <2>2
<1>7. u = Cells(bf, a, d + m)
  BY <1>1, <1>2, <1>5, <1>6, SameCells
<1> QED
  BY <1>1, <1>3, <1>4, <1>5, <1>7
-----------------------------------------------------------------------------
(* The line discipline.                                                    *)

\* What readers may have and the line that is being edited fit in the buffer,
\* and the line is one line: consoleintr() moves cons.w past every newline.
RingInv ==
  /\ r \in Pos /\ w \in Pos /\ e \in Pos
  /\ buf \in Buffer
  /\ Dist(r, w) + Dist(w, e) <= INPUT_BUF
  /\ \A k \in 0 .. Dist(w, e) - 1 : At(buf, w, k) # "nl"

RxType == rx \in {<<>>} \cup {<<c>> : c \in Key}

LEMMA ViewNow ==
  ASSUME RingInv
  PROVE  Slice(r, w) = Cells(buf, r, Dist(r, w)) /\ Slice(w, e) = Cells(buf, w, Dist(w, e))
BY SliceIs DEF RingInv

LEMMA ViewNext ==
  ASSUME r' \in Pos, w' \in Pos, e' \in Pos
  PROVE  /\ Slice(r, w)' = Cells(buf', r', Dist(r', w'))
         /\ Slice(w, e)' = Cells(buf', w', Dist(w', e'))
<1>1. ASSUME NEW f \in Pos, NEW t \in Pos, NEW i \in 1 .. Dist(f, t) PROVE f + i - 1 = f + (i - 1)
  BY SMTT(60), DistFacts, Width
<1> QED
  BY <1>1 DEF Slice, Cells, At, Dist

\* Kill line finds no newline to stop at.
LEMMA LineStartIs ==
  ASSUME RingInv
  PROVE  LineStart = 0 /\ (w + LineStart) % UINT = w
<1>1. PICK d \in Nat : d = (e - w) % UINT /\ \A k \in 0 .. d - 1 : buf[InBuf(w + k)] # "nl"
  BY DistFacts DEF RingInv, At, Dist
<1>2. w \in Nat /\ UINT \in Nat /\ w < UINT
  BY SMTT(60), Width DEF RingInv, Pos
<1>3. ASSUME NEW k \in 1 .. d PROVE buf[InBuf(w + k - 1)] # "nl"
  <2>1. k - 1 \in 0 .. d - 1 /\ w + k - 1 = w + (k - 1)
    BY SMTT(60), <1>2
  <2> QED
    BY <1>1, <2>1
<1>4. 0 \in 0 .. d /\ (\A j \in 0 + 1 .. d : buf[InBuf(w + j - 1)] # "nl")
  <2>1. 0 + 1 = 1 /\ 0 \in 0 .. d
    BY SMTT(60)
  <2> QED
    BY <1>3, <2>1
<1>5. ASSUME NEW k \in 0 .. d, k = 0 \/ buf[InBuf(w + k - 1)] = "nl" PROVE k = 0
  <2>1. k = 0 \/ k \in 1 .. d
    BY SMTT(60)
  <2> QED
    BY <1>3, <1>5, <2>1
<1>6. LineStart = 0
  <2> DEFINE P(k) == /\ \A j \in k + 1 .. d : buf[InBuf(w + j - 1)] # "nl"
                     /\ k = 0 \/ buf[InBuf(w + k - 1)] = "nl"
  <2>1. LineStart = CHOOSE k \in 0 .. d : P(k)
    BY <1>1 DEF LineStart
  <2>2. 0 \in 0 .. d /\ P(0) /\ \A k \in 0 .. d : P(k) => k = 0
    BY <1>4, <1>5
  <2> HIDE DEF P
  <2> QED
    BY <2>1, <2>2
<1>7. (w + 0) % UINT = w
  BY SMTT(60), <1>2
<1> QED
  BY <1>6, <1>7

LEMMA TakeStep ==
  ASSUME RingInv, r # w, r' = (r + 1) % UINT, UNCHANGED <<buf, w, e>>
  PROVE  RingInv' /\ LI!Take
<1>1. /\ r \in Pos /\ w \in Pos /\ e \in Pos /\ buf \in Buffer /\ r' \in Pos
      /\ Dist(r', w) = Dist(r, w) - 1
  BY DistNext DEF RingInv
<1>2. PICK d \in Nat \ {0} : d = Dist(r, w) /\ d - 1 \in Nat
  <2>1. Dist(r, w) \in Nat /\ Dist(r, w) # 0
    BY <1>1, DistFacts
  <2>2. Dist(r, w) - 1 \in Nat
    BY SMTT(60), <2>1
  <2> QED
    BY <2>1, <2>2
<1>3. Dist(r', w) + Dist(w, e) <= INPUT_BUF
  <2>1. Dist(r', w) = d - 1 /\ d + Dist(w, e) <= INPUT_BUF /\ Dist(w, e) \in Nat /\ INPUT_BUF \in Nat
    BY <1>1, <1>2, DistFacts, Width DEF RingInv
  <2> QED
    BY SMTT(60), <2>1
<1>4. RingInv'
  BY <1>1, <1>3 DEF RingInv
<1>5. Cells(buf, r, d) # <<>> /\ Tail(Cells(buf, r, d)) = Cells(buf, r', d - 1)
  BY <1>1, CellsTail
<1>6. Slice(r, w) = Cells(buf, r, d) /\ Slice(w, e) = Cells(buf, w, Dist(w, e))
  BY <1>2, ViewNow
<1>7. Slice(r, w)' = Cells(buf, r', d - 1) /\ Slice(w, e)' = Cells(buf, w, Dist(w, e))
  BY <1>1, <1>2, ViewNext
<1> QED
  BY <1>4, <1>5, <1>6, <1>7 DEF LI!Take

LEMMA EraseLineStep ==
  ASSUME RingInv, e' = w, UNCHANGED <<buf, r, w>>
  PROVE  RingInv' /\ LI!EraseLine
<1>1. r \in Pos /\ w \in Pos /\ e \in Pos /\ Dist(r, w) \in Nat /\ Dist(w, e) \in Nat /\ Dist(w, w) = 0
  BY DistFacts DEF RingInv
<1>2. Dist(r, w) + 0 <= INPUT_BUF /\ 0 .. 0 - 1 = {}
  BY SMTT(60), <1>1, Width DEF RingInv
<1>3. RingInv'
  BY <1>1, <1>2 DEF RingInv
<1>4. Slice(r, w) = Cells(buf, r, Dist(r, w))
  BY ViewNow
<1>5. Slice(r, w)' = Cells(buf, r, Dist(r, w)) /\ Slice(w, e)' = Cells(buf, w, 0)
  BY <1>1, ViewNext
<1> QED
  BY <1>3, <1>4, <1>5, CellsNone DEF LI!EraseLine

LEMMA EraseStep ==
  ASSUME RingInv, e # w, e' = (e - 1) % UINT, UNCHANGED <<buf, r, w>>
  PROVE  RingInv' /\ LI!Erase
<1>1. /\ r \in Pos /\ w \in Pos /\ e \in Pos /\ buf \in Buffer /\ e' \in Pos /\ w \in Nat
      /\ Dist(w, e') = Dist(w, e) - 1
  BY DistNext, Width DEF RingInv
<1>2. PICK d \in Nat \ {0} : d = Dist(w, e) /\ d - 1 \in Nat
  <2>1. Dist(w, e) \in Nat /\ Dist(w, e) # 0
    BY <1>1, DistFacts
  <2>2. Dist(w, e) - 1 \in Nat
    BY SMTT(60), <2>1
  <2> QED
    BY <2>1, <2>2
<1>3. Dist(r, w) + Dist(w, e') <= INPUT_BUF
  <2>1. Dist(w, e') = d - 1 /\ Dist(r, w) + d <= INPUT_BUF /\ Dist(r, w) \in Nat /\ INPUT_BUF \in Nat
    BY <1>1, <1>2, DistFacts, Width DEF RingInv
  <2> QED
    BY SMTT(60), <2>1
<1>4. \A k \in 0 .. Dist(w, e') - 1 : At(buf, w, k) # "nl"
  <2>1. Dist(w, e') = d - 1 /\ \A k \in 0 .. d - 1 : At(buf, w, k) # "nl"
    BY <1>1, <1>2 DEF RingInv
  <2>2. \A k \in 0 .. (d - 1) - 1 : k \in 0 .. d - 1
    BY SMTT(60)
  <2> QED
    BY <2>1, <2>2
<1>5. RingInv'
  BY <1>1, <1>3, <1>4 DEF RingInv
<1>6. Slice(r, w) = Cells(buf, r, Dist(r, w)) /\ Slice(w, e) = Cells(buf, w, d)
  BY <1>2, ViewNow
<1>7. Slice(r, w)' = Cells(buf, r, Dist(r, w)) /\ Slice(w, e)' = Cells(buf, w, d - 1)
  BY <1>1, <1>2, ViewNext
<1>8. /\ Cells(buf, w, d) # <<>>
      /\ SubSeq(Cells(buf, w, d), 1, Len(Cells(buf, w, d)) - 1) = Cells(buf, w, d - 1)
  BY <1>1, CellsFront
<1> QED
  BY <1>5, <1>6, <1>7, <1>8 DEF LI!Erase

\* What storing c at cons.e does to the buffer, as distances from cons.r (m
\* bytes for readers, then n of the line) and as what can be seen from cons.r
\* and from cons.w.
LEMMA StoredAt ==
  ASSUME RingInv, Dist(r, e) < INPUT_BUF, NEW c \in Char,
         buf' = [buf EXCEPT ![InBuf(e)] = c], e' = (e + 1) % UINT
  PROVE  \E m \in Nat, n \in Nat :
           /\ m = Dist(r, w) /\ n = Dist(w, e) /\ m + n < INPUT_BUF
           /\ e' \in Pos /\ buf' \in Buffer
           /\ Dist(w, e') = n + 1 /\ Dist(r, e') = m + (n + 1)
           /\ e' = (r + INPUT_BUF) % UINT <=> m + (n + 1) = INPUT_BUF
           /\ Append(Cells(buf, w, n), c) = Cells(buf', w, n + 1)
           /\ Cells(buf', r, m) = Cells(buf, r, m)
           /\ Cells(buf', r, m) \o Cells(buf', w, n + 1) = Cells(buf', r, m + (n + 1))
           /\ At(buf', w, n) = c /\ \A k \in 0 .. n - 1 : At(buf', w, k) = At(buf, w, k)
<1>1. /\ r \in Pos /\ w \in Pos /\ e \in Pos /\ buf \in Buffer /\ c \in Byte
      /\ INPUT_BUF \in Nat /\ UINT \in Nat /\ INPUT_BUF < UINT
  BY Width DEF RingInv, Byte
<1>2. PICK m \in Nat, n \in Nat : m = Dist(r, w) /\ n = Dist(w, e) /\ m + n <= INPUT_BUF
  BY <1>1, DistFacts DEF RingInv
<1>3. m + n < UINT
  BY SMTT(60), <1>1, <1>2
<1>4. Dist(r, e) = m + n
  BY <1>1, <1>2, <1>3, DistSum
<1>5. /\ m + n < INPUT_BUF /\ n < INPUT_BUF /\ n + 1 < UINT /\ (m + n) + 1 < UINT
      /\ (m + n) + 1 = m + (n + 1) /\ n + 1 \in Nat /\ m \in 0 .. m + n
  <2>1. m + n < INPUT_BUF
    BY <1>4
  <2> QED
    BY SMTT(60), <1>1, <2>1
<1>6. e' \in Pos /\ Dist(w, e') = n + 1 /\ Dist(r, e') = m + (n + 1)
  <2>1. e' \in Pos /\ (Dist(w, e) + 1 < UINT => Dist(w, e') = Dist(w, e) + 1)
    BY <1>1, DistNext
  <2>2. Dist(r, e) + 1 < UINT => Dist(r, e') = Dist(r, e) + 1
    BY <1>1, DistNext
  <2> QED
    BY <1>2, <1>4, <1>5, <2>1, <2>2
<1>7. e' = (r + INPUT_BUF) % UINT <=> m + (n + 1) = INPUT_BUF
  BY <1>1, <1>6, FullAt
<1>8. buf' \in Buffer /\ At(buf', w, n) = c /\ \A k \in 0 .. n - 1 : At(buf', w, k) = At(buf, w, k)
  <2>1. Dist(w, e) < INPUT_BUF
    BY <1>2, <1>5
  <2>2. /\ [buf EXCEPT ![InBuf(e)] = c] \in Buffer
        /\ At([buf EXCEPT ![InBuf(e)] = c], w, Dist(w, e)) = c
        /\ \A k \in 0 .. Dist(w, e) - 1 : At([buf EXCEPT ![InBuf(e)] = c], w, k) = At(buf, w, k)
    BY <1>1, <2>1, AtPut
  <2> QED
    BY <1>2, <2>2
<1>9. Append(Cells(buf, w, n), c) = Cells(buf', w, n + 1)
  <2>1. Dist(w, e) < INPUT_BUF
    BY <1>2, <1>5
  <2>2. Append(Cells(buf, w, Dist(w, e)), c) = Cells([buf EXCEPT ![InBuf(e)] = c], w, Dist(w, e) + 1)
    BY <1>1, <2>1, CellsPut
  <2> QED
    BY <1>2, <2>2
<1>10. Cells(buf', r, m) = Cells(buf, r, m)
  <2>1. Dist(r, e) < INPUT_BUF
    BY <1>4, <1>5
  <2>2. \A k \in 0 .. Dist(r, e) : Cells([buf EXCEPT ![InBuf(e)] = c], r, k) = Cells(buf, r, k)
    BY <1>1, <2>1, CellsPut
  <2> QED
    BY <1>4, <1>5, <2>2
<1>11. Cells(buf', r, m) \o Cells(buf', w, n + 1) = Cells(buf', r, m + (n + 1))
  <2>1. PICK n1 \in Nat : n1 = n + 1
    BY <1>5
  <2>2. Cells(buf', r, Dist(r, w)) \o Cells(buf', w, n1) = Cells(buf', r, Dist(r, w) + n1)
    BY <1>1, <1>8, CellsJoin
  <2> QED
    BY <1>2, <2>1, <2>2
<1> QED
  BY <1>2, <1>5, <1>6, <1>7, <1>8, <1>9, <1>10, <1>11

LEMMA TypeStep ==
  ASSUME RingInv, Dist(r, e) < INPUT_BUF, NEW c \in Char,
         buf' = [buf EXCEPT ![InBuf(e)] = c], e' = (e + 1) % UINT, r' = r,
         w' = IF c \in {"nl", "eof"} \/ e' = (r + INPUT_BUF) % UINT THEN e' ELSE w
  PROVE  RingInv' /\ LI!Type(c)
<1>1. PICK m \in Nat, n \in Nat :
        /\ m = Dist(r, w) /\ n = Dist(w, e) /\ m + n < INPUT_BUF
        /\ e' \in Pos /\ buf' \in Buffer
        /\ Dist(w, e') = n + 1 /\ Dist(r, e') = m + (n + 1)
        /\ e' = (r + INPUT_BUF) % UINT <=> m + (n + 1) = INPUT_BUF
        /\ Append(Cells(buf, w, n), c) = Cells(buf', w, n + 1)
        /\ Cells(buf', r, m) = Cells(buf, r, m)
        /\ Cells(buf', r, m) \o Cells(buf', w, n + 1) = Cells(buf', r, m + (n + 1))
        /\ At(buf', w, n) = c /\ \A k \in 0 .. n - 1 : At(buf', w, k) = At(buf, w, k)
  BY StoredAt
<1>2. r \in Pos /\ w \in Pos /\ e \in Pos /\ buf \in Buffer /\ r \in Nat /\ w \in Nat /\ INPUT_BUF \in Nat
  BY Width DEF RingInv
<1>3. Slice(r, w) = Cells(buf, r, m) /\ Slice(w, e) = Cells(buf, w, n)
  BY <1>1, ViewNow
<1>4. Len(Slice(r, w)) = m /\ Len(Slice(w, e)) = n
  <2>1. Len(Cells(buf, r, m)) = m
    BY <1>2, CellsSeq
  <2>2. Len(Cells(buf, w, n)) = n
    BY <1>2, CellsSeq
  <2> QED
    BY <1>3, <2>1, <2>2
<1>5. /\ n + m < INPUT_BUF /\ n + m + 1 = m + (n + 1) /\ m + (n + 1) <= INPUT_BUF
      /\ (m + (n + 1)) + 0 = m + (n + 1) /\ 0 .. 0 - 1 = {}
      /\ \A k \in 0 .. (n + 1) - 1 : k = n \/ k \in 0 .. n - 1
  <2>1. m + n < INPUT_BUF
    BY <1>1
  <2> QED
    BY SMTT(60), <1>2, <2>1
<1>6. CASE c \in {"nl", "eof"} \/ m + (n + 1) = INPUT_BUF
  <2>1. w' = e'
    BY <1>1, <1>6
  <2>2. Dist(w', e') = 0 /\ Dist(r', w') = m + (n + 1)
    BY <1>1, <2>1, DistFacts
  <2>3. RingInv'
    BY <1>1, <1>2, <1>5, <2>1, <2>2 DEF RingInv
  <2>4. Slice(r, w)' = Cells(buf', r, m + (n + 1)) /\ Slice(w, e)' = Cells(buf', w', 0)
    BY <1>1, <1>2, <2>1, <2>2, ViewNext
  <2>5. Slice(w, e)' = <<>> /\ Slice(r, w)' = Slice(r, w) \o Append(Slice(w, e), c)
    BY <1>1, <1>3, <2>4, CellsNone
  <2> QED
    BY <1>4, <1>5, <1>6, <2>3, <2>5 DEF LI!Type
<1>7. CASE c \notin {"nl", "eof"} /\ m + (n + 1) # INPUT_BUF
  <2>1. w' = w
    BY <1>1, <1>7
  <2>2. \A k \in 0 .. (n + 1) - 1 : At(buf', w, k) # "nl"
    BY <1>1, <1>5, <1>7 DEF RingInv
  <2>3. RingInv'
    BY <1>1, <1>2, <1>5, <2>1, <2>2 DEF RingInv
  <2>4. Slice(r, w)' = Cells(buf', r, m) /\ Slice(w, e)' = Cells(buf', w, n + 1)
    BY <1>1, <1>2, <2>1, ViewNext
  <2>5. Slice(w, e)' = Append(Slice(w, e), c) /\ Slice(r, w)' = Slice(r, w)
    BY <1>1, <1>3, <2>4
  <2> QED
    BY <1>4, <1>5, <1>7, <2>3, <2>5 DEF LI!Type
<1> QED
  BY <1>6, <1>7

LEMMA SameInput ==
  ASSUME RingInv, UNCHANGED invars
  PROVE  RingInv' /\ UNCHANGED LI!vars
<1>1. UNCHANGED <<buf, r, w, e>>
  BY DEF invars
<1>2. RingInv'
  BY <1>1 DEF RingInv
<1>3. Slice(r, w)' = Slice(r, w) /\ Slice(w, e)' = Slice(w, e)
  BY <1>1 DEF Slice
<1> QED
  BY <1>2, <1>3 DEF LI!vars

LEMMA KeyIs ==
  ASSUME RxType, uartgetc # "none", uartgetc \notin {"kill", "bs", "other"}
  PROVE  Stored(uartgetc) \in Char
<1>1. PICK c \in Key : rx = <<c>>
  BY DEF RxType, uartgetc
<1>2. <<c>> # <<>> /\ Head(<<c>>) = c
  BY SMTT(60)
<1>3. uartgetc = c
  BY <1>1, <1>2 DEF uartgetc
<1> QED
  BY <1>3 DEF Key, Char, Stored

LEMMA InputStep ==
  ASSUME RingInv, RxType, consoleintr
  PROVE  RingInv' /\ (LI!Next \/ UNCHANGED LI!vars)
<1>1. r' = r
  BY DEF consoleintr
<1>2. CASE uartgetc = "kill"
  <2>1. e' = (w + LineStart) % UINT /\ UNCHANGED <<buf, w>>
    BY <1>2 DEF consoleintr
  <2>2. RingInv' /\ LI!EraseLine
    BY <1>1, <2>1, LineStartIs, EraseLineStep
  <2> QED
    BY <2>2 DEF LI!Next
<1>3. CASE uartgetc = "bs"
  <2>1. e' = (IF e # w THEN (e - 1) % UINT ELSE e) /\ UNCHANGED <<buf, w>>
    BY <1>3 DEF consoleintr
  <2>2. CASE e # w
    <3>1. RingInv' /\ LI!Erase
      BY <1>1, <2>1, <2>2, EraseStep
    <3> QED
      BY <3>1 DEF LI!Next
  <2>3. CASE e = w
    BY <1>1, <2>1, <2>3, SameInput DEF invars
  <2> QED
    BY <2>2, <2>3
<1>4. CASE uartgetc = "other"
  <2>1. UNCHANGED <<buf, e, w>>
    BY <1>4 DEF consoleintr
  <2> QED
    BY <1>1, <2>1, SameInput DEF invars
<1>5. CASE uartgetc \notin {"kill", "bs", "other"}
  <2>1. PICK c \in Char : Store(c)
    <3>1. Store(Stored(uartgetc)) /\ uartgetc # "none"
      BY <1>5 DEF consoleintr
    <3> QED
      BY <1>5, <3>1, KeyIs
  <2>2. CASE Dist(r, e) < INPUT_BUF
    <3>1. /\ buf' = [buf EXCEPT ![InBuf(e)] = c] /\ e' = (e + 1) % UINT
          /\ w' = IF c \in {"nl", "eof"} \/ e' = (r + INPUT_BUF) % UINT THEN e' ELSE w
      BY <2>1, <2>2 DEF Store, Dist
    <3>2. RingInv' /\ LI!Type(c)
      BY <1>1, <2>2, <3>1, TypeStep
    <3> QED
      BY <3>2 DEF LI!Next
  <2>3. CASE ~(Dist(r, e) < INPUT_BUF)
    <3>1. UNCHANGED <<buf, e, w>>
      BY <2>1, <2>3 DEF Store, Dist
    <3> QED
      BY <1>1, <3>1, SameInput DEF invars
  <2> QED
    BY <2>2, <2>3
<1> QED
  BY <1>2, <1>3, <1>4, <1>5

LEMMA RxStep ==
  ASSUME RxType, [Next]_vars
  PROVE  RxType'
<1>1. CASE rx' = rx
  BY <1>1 DEF RxType
<1>2. CASE rx' = <<>>
  BY <1>2 DEF RxType
<1>3. CASE \E c \in Key : rx' = <<c>>
  BY <1>3 DEF RxType
<1> QED
  BY <1>1, <1>2, <1>3
     DEF Next, Handler, CallStep, consoleread, read_acquire, read_empty, sleep, read_char, kill, consolewrite,
         write_acquire, uartputc, write_return, uartintr, consoleintr, uartintr_send, device_sent,
         device_receive, devvars, vars

LEMMA LineStep ==
  ASSUME RingInv, RxType, [Next]_vars
  PROVE  RingInv' /\ [LI!Next]_(LI!vars)
<1>1. CASE UNCHANGED invars
  BY <1>1, SameInput
<1>2. ASSUME NEW p \in Proc, read_char(p) PROVE RingInv' /\ [LI!Next]_(LI!vars)
  <2>1. r # w /\ UNCHANGED <<buf, w, e>> /\ (r' = r \/ r' = (r + 1) % UINT)
    BY <1>2 DEF read_char
  <2>2. CASE r' = r
    BY <1>1, <2>1, <2>2 DEF invars
  <2>3. CASE r' = (r + 1) % UINT
    <3>1. RingInv' /\ LI!Take
      BY <2>1, <2>3, TakeStep
    <3> QED
      BY <3>1 DEF LI!Next
  <2> QED
    BY <2>1, <2>2, <2>3
<1>3. CASE consoleintr
  BY <1>3, InputStep
<1> QED
  BY <1>1, <1>2, <1>3
     DEF Next, Handler, CallStep, consoleread, read_acquire, read_empty, sleep, kill, consolewrite,
         write_acquire, uartputc, write_return, uartintr, uartintr_send, device_sent, device_receive, vars

\* cons.buf implements the editable line and the queue of module LineInput, for
\* every size of the buffer, every width of cons.r, cons.w and cons.e that is a
\* multiple of it, and every position they start from, the wrap included.
THEOREM ConsoleImplementsLineInput == Spec => LineDiscipline
<1>1. Init => RingInv /\ RxType /\ LI!Init
  <2>1. InStart \in Pos /\ Dist(InStart, InStart) = 0 /\ INPUT_BUF \in Nat
    BY ConsoleAssumption, DistFacts, Width DEF Pos
  <2>2. 0 + 0 <= INPUT_BUF /\ 0 .. 0 - 1 = {}
    BY SMTT(60), <2>1
  <2>3. Init => RingInv
    BY <2>1, <2>2 DEF Init, RingInv, Buffer, Byte
  <2>4. Init => Slice(r, w) = <<>> /\ Slice(w, e) = <<>>
    BY <2>1, <2>3, ViewNow, CellsNone DEF Init
  <2> QED
    BY <2>3, <2>4 DEF Init, RxType, LI!Init
<1> QED
  BY <1>1, RxStep, LineStep, PTL DEF Spec, LineDiscipline, LI!Spec
=============================================================================
