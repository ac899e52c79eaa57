------------------------------- MODULE Virtio -------------------------------
(***************************************************************************)
(* The disk driver of kernel/virtio_disk.c and the device it talks to.     *)
(* vdisk_lock is held from the call of virtio_disk_rw() or                 *)
(* virtio_disk_intr() until it sleeps or returns, so that a stretch of     *)
(* code between two sleeps is one step, except that the device does not    *)
(* take the lock: it may finish a request while the handler runs.          *)
(*                                                                         *)
(* Every process uses the buffer it has locked, and every buffer is used   *)
(* by one process, so that a process stands for its struct buf.            *)
(***************************************************************************)
EXTENDS Integers, FiniteSets, Sequences

CONSTANTS
  Proc,    \* processes, each with a locked buffer
  Block,   \* sectors
  Val,     \* contents
  NUM,     \* virtio.h: number of descriptors
  Start,   \* requests made since boot when the behaviour starts, modulo NUM
  MAXOPS,  \* bound: number of requests from then on
  NoProc

ASSUME VirtioAssumption ==
  /\ NUM \in Nat /\ NUM >= 3 /\ MAXOPS \in Nat
  /\ Start \in 0 .. NUM - 1
  /\ NoProc \notin Proc

Desc == 0 .. NUM - 1

VARIABLES
  free,      \* disk.free
  next,      \* disk.desc[i].next, and whether VRING_DESC_F_NEXT is set
  req,       \* disk.desc[i] as the device reads a request from a chain's head
  info,      \* disk.info[i].b
  ring,      \* disk.avail[2..]: heads of the requests
  availidx,  \* disk.avail[1], modulo NUM
  elems,     \* disk.used->elems
  usedid,    \* disk.used->id, modulo NUM
  usedidx,   \* disk.used_idx
  bdisk,     \* b->disk
  bdata,     \* b->data
  disk,      \* the sectors
  devidx,    \* how far the device has looked in avail
  inflight,  \* heads of the chains the device works on
  irq,       \* VIRTIO_MMIO_INTERRUPT_STATUS
  handler,   \* virtio_disk_intr(): not running, in its loop, past its loop
  pc,        \* where a process is in virtio_disk_rw()
  head,      \* idx[0] of the process
  op,        \* the request of the process
  ops,       \* number of requests made
  panicked   \* a panic() of free_desc()

devvars == <<elems, usedid, disk, devidx, inflight, irq>>
drvvars == <<free, next, req, info, ring, availidx>>
vars == <<devvars, drvvars, usedidx, bdisk, bdata, handler, pc, head, op, ops,
          panicked>>

Request == [blk : Block, write : BOOLEAN, b : Proc]

TypeOK ==
  /\ free \in [Desc -> BOOLEAN]
  /\ next \in [Desc -> Desc \cup {NUM}]
  /\ info \in [Desc -> Proc \cup {NoProc}]
  /\ availidx \in Desc /\ usedid \in Desc /\ usedidx \in Desc /\ devidx \in Desc
  /\ ring \in [Desc -> Desc] /\ elems \in [Desc -> Desc]
  /\ bdisk \in [Proc -> BOOLEAN] /\ bdata \in [Proc -> Val]
  /\ disk \in [Block -> Val]
  /\ inflight \subseteq Desc
  /\ irq \in BOOLEAN /\ panicked \in BOOLEAN
  /\ handler \in {"off", "loop", "ack"}
  /\ pc \in [Proc -> {"idle", "start", "nodesc", "asleep", "awake"}]
  /\ head \in [Proc -> Desc]
  /\ \A p \in Proc : pc[p] # "idle" => op[p] \in Request

\* virtio_disk_init(), and Start requests that have been served.
Init ==
  /\ free = [i \in Desc |-> TRUE]
  /\ next = [i \in Desc |-> NUM]
  /\ req = [i \in Desc |-> NoProc] /\ info = [i \in Desc |-> NoProc]
  /\ ring = [i \in Desc |-> 0] /\ elems = [i \in Desc |-> 0]
  /\ availidx = Start /\ usedid = Start /\ usedidx = Start /\ devidx = Start
  /\ bdisk = [p \in Proc |-> FALSE]
  /\ \E v \in Val : bdata = [p \in Proc |-> v] /\ disk = [k \in Block |-> v]
  /\ inflight = {} /\ irq = FALSE /\ handler = "off"
  /\ pc = [p \in Proc |-> "idle"]
  /\ head = [p \in Proc |-> 0]
  /\ op = [p \in Proc |-> NoProc]
  /\ ops = 0
  /\ panicked = FALSE

-----------------------------------------------------------------------------
(* The driver.                                                             *)

\* bread() or bwrite() calls virtio_disk_rw() for a buffer.
virtio_disk_rw(p, k, w, v) ==
  /\ ~panicked
  /\ pc[p] = "idle" /\ ops < MAXOPS
  /\ \A q \in Proc \ {p} : pc[q] # "idle" => op[q].blk # k
  /\ op' = [op EXCEPT ![p] = [blk |-> k, write |-> w, b |-> p]]
  /\ bdata' = IF w THEN [bdata EXCEPT ![p] = v] ELSE bdata
  /\ pc' = [pc EXCEPT ![p] = "start"]
  /\ ops' = ops + 1
  /\ UNCHANGED <<devvars, drvvars, usedidx, bdisk, handler, head, panicked>>

\* Fault: the first descriptor of a request is not marked as used.
FreeDesc_head == {i \in Desc : free[i] \/ info[i] # NoProc}

FreeDesc == {i \in Desc : free[i]}

\* alloc_desc(): the free descriptor with the lowest index.
alloc_desc(S) == CHOOSE i \in S : \A j \in S : i <= j

\* alloc3_desc() finds three descriptors, the request is formatted, put in the
\* avail ring, and the process sleeps on its buffer.
submit(p) ==
  LET i0 == alloc_desc(FreeDesc)
      i1 == alloc_desc(FreeDesc \ {i0})
      i2 == alloc_desc(FreeDesc \ {i0, i1})
  IN
  /\ ~panicked /\ handler = "off"
  /\ pc[p] = "start" /\ Cardinality(FreeDesc) >= 3
  /\ free' = [free EXCEPT ![i0] = FALSE, ![i1] = FALSE, ![i2] = FALSE]
  /\ next' = [next EXCEPT ![i0] = i1, ![i1] = i2, ![i2] = NUM]
  /\ req' = [req EXCEPT ![i0] = op[p]]
  /\ bdisk' = [bdisk EXCEPT ![p] = TRUE]
  /\ info' = [info EXCEPT ![i0] = p]
  /\ ring' = [ring EXCEPT ![availidx] = i0]
  /\ availidx' = (availidx + 1) % NUM
  /\ head' = [head EXCEPT ![p] = i0]
  /\ pc' = [pc EXCEPT ![p] = "asleep"]
  /\ UNCHANGED <<devvars, usedidx, bdata, handler, op, ops, panicked>>

\* alloc3_desc() fails, frees what it got, which wakes the other processes
\* that wait for descriptors, and the process sleeps on disk.free[0].
alloc3_desc_fails(p) ==
  /\ ~panicked /\ handler = "off"
  /\ pc[p] = "start" /\ Cardinality(FreeDesc) < 3
  /\ pc' = [q \in Proc |->
              CASE q = p -> "nodesc"
                [] pc[q] = "nodesc" /\ FreeDesc # {} -> "start"
                [] OTHER -> pc[q]]
  /\ UNCHANGED <<devvars, drvvars, usedidx, bdisk, bdata, handler, head, op,
                 ops, panicked>>

\* The descriptors free_chain(i) visits.
Chain(i) ==
  {i} \cup (IF next[i] = NUM THEN {}
            ELSE {next[i]} \cup (IF next[next[i]] = NUM THEN {} ELSE {next[next[i]]}))

\* Fault: the processes that wait for descriptors are not woken.
finish_silent(p) ==
  /\ ~panicked /\ handler = "off"
  /\ pc[p] = "awake" /\ ~bdisk[p]
  /\ info' = [info EXCEPT ![head[p]] = NoProc]
  /\ panicked' = (\E i \in Chain(head[p]) : free[i])
  /\ free' = [i \in Desc |-> free[i] \/ i \in Chain(head[p])]
  /\ pc' = [pc EXCEPT ![p] = "idle"]
  /\ op' = [op EXCEPT ![p] = NoProc]
  /\ UNCHANGED <<devvars, next, req, ring, availidx, usedidx, bdisk, bdata,
                 handler, head, ops>>

\* The process is awake: sleep again while b->disk is set, or free the chain,
\* wake the processes that wait for descriptors, and return.
finish(p) ==
  /\ ~panicked /\ handler = "off"
  /\ pc[p] = "awake"
  /\ \/ /\ bdisk[p]
        /\ pc' = [pc EXCEPT ![p] = "asleep"]
        /\ UNCHANGED <<free, info, op, panicked>>
     \/ /\ ~bdisk[p]
        /\ info' = [info EXCEPT ![head[p]] = NoProc]
        /\ panicked' = (\E i \in Chain(head[p]) : free[i])
        /\ free' = [i \in Desc |-> free[i] \/ i \in Chain(head[p])]
        /\ pc' = [q \in Proc |-> IF q = p THEN "idle"
                                 ELSE IF pc[q] = "nodesc" THEN "start" ELSE pc[q]]
        /\ op' = [op EXCEPT ![p] = NoProc]
  /\ UNCHANGED <<devvars, next, req, ring, availidx, usedidx, bdisk, bdata,
                 handler, head, ops>>

\* kill() wakes a process whatever it sleeps for.
kill(p) ==
  /\ ~panicked
  /\ pc[p] \in {"nodesc", "asleep"}
  /\ pc' = [pc EXCEPT ![p] = IF @ = "nodesc" THEN "start" ELSE "awake"]
  /\ UNCHANGED <<devvars, drvvars, usedidx, bdisk, bdata, handler, head, op,
                 ops, panicked>>

\* virtio_disk_intr() runs, with vdisk_lock, from the interrupt to its end.
InLoop == ~panicked /\ (handler = "loop" \/ (handler = "off" /\ irq))

\* Fault: the request that was made last is taken to have finished.
virtio_disk_intr_last(p) ==
  /\ InLoop /\ usedidx # usedid
  /\ info[ring[(availidx + NUM - 1) % NUM]] = p
  /\ bdisk' = [bdisk EXCEPT ![p] = FALSE]
  /\ pc' = [pc EXCEPT ![p] = IF @ = "asleep" THEN "awake" ELSE @]
  /\ usedidx' = (usedidx + 1) % NUM
  /\ handler' = "loop"
  /\ UNCHANGED <<devvars, drvvars, bdata, head, op, ops, panicked>>

\* One turn of its loop: the request of buffer p has finished.
virtio_disk_intr(p) ==
  /\ InLoop /\ usedidx # usedid
  /\ info[elems[usedidx]] = p
  /\ bdisk' = [bdisk EXCEPT ![p] = FALSE]
  /\ pc' = [pc EXCEPT ![p] = IF @ = "asleep" THEN "awake" ELSE @]
  /\ usedidx' = (usedidx + 1) % NUM
  /\ handler' = "loop"
  /\ UNCHANGED <<devvars, drvvars, bdata, head, op, ops, panicked>>

\* The loop has found no more finished requests.
intr_done ==
  /\ InLoop /\ usedidx = usedid
  /\ handler' = "ack"
  /\ UNCHANGED <<devvars, drvvars, usedidx, bdisk, bdata, pc, head, op, ops,
                 panicked>>

\* The last lines of virtio_disk_intr(): acknowledge what INTERRUPT_STATUS
\* says at this moment, and release vdisk_lock.
intr_ack ==
  /\ ~panicked /\ handler = "ack"
  /\ irq' = FALSE
  /\ handler' = "off"
  /\ UNCHANGED <<elems, usedid, disk, devidx, inflight, drvvars, usedidx, bdisk,
                 bdata, pc, head, op, ops, panicked>>

-----------------------------------------------------------------------------
(* The device, as the driver uses it.                                      *)

\* The device takes the next request of the avail ring.
device_take ==
  /\ ~panicked
  /\ devidx # availidx
  /\ inflight' = inflight \cup {ring[devidx]}
  /\ devidx' = (devidx + 1) % NUM
  /\ UNCHANGED <<elems, usedid, disk, irq, drvvars, usedidx, bdisk, bdata,
                 handler, pc, head, op, ops, panicked>>

\* It finishes requests in any order, each with its chain as it is now.
device_finish(i) ==
  /\ ~panicked
  /\ i \in inflight
  /\ inflight' = inflight \ {i}
  /\ \/ /\ req[i].write
        /\ disk' = [disk EXCEPT ![req[i].blk] = bdata[req[i].b]]
        /\ UNCHANGED bdata
     \/ /\ ~req[i].write
        /\ bdata' = [bdata EXCEPT ![req[i].b] = disk[req[i].blk]]
        /\ UNCHANGED disk
  /\ elems' = [elems EXCEPT ![usedid] = i]
  /\ usedid' = (usedid + 1) % NUM
  /\ irq' = TRUE
  /\ UNCHANGED <<devidx, drvvars, usedidx, bdisk, handler, pc, head, op, ops,
                 panicked>>

-----------------------------------------------------------------------------

Next ==
  \/ \E p \in Proc, k \in Block, v \in Val, w \in BOOLEAN : virtio_disk_rw(p, k, w, v)
  \/ \E p \in Proc : \/ submit(p) \/ alloc3_desc_fails(p) \/ finish(p) \/ kill(p)
                     \/ virtio_disk_intr(p)
  \/ intr_done \/ intr_ack
  \/ device_take \/ \E i \in Desc : device_finish(i)

Spec == Init /\ [][Next]_vars

-----------------------------------------------------------------------------
(* Properties.                                                             *)

\* The heads of the requests the device has been given and has not finished.
Given ==
  LET waiting == (availidx - devidx) % NUM IN
  inflight \cup {ring[(devidx + k) % NUM] : k \in 0 .. waiting - 1}

\* Processes that have made a request and have not returned.
Requesting == {p \in Proc : pc[p] \in {"asleep", "awake"}}

\* The device only ever works on descriptors that still belong to the request
\* they were formatted for, of a process that is still in virtio_disk_rw(); no
\* two requests share a descriptor, and none is free or is freed twice.
RequestsIntact ==
  /\ \A i \in Given : \E p \in Requesting : head[p] = i /\ req[i] = op[p]
  /\ \A p \in Requesting :
       /\ info[head[p]] = p
       /\ \A c \in Chain(head[p]) : ~free[c]
       /\ \A q \in Requesting \ {p} : Chain(head[p]) \cap Chain(head[q]) = {}
  /\ ~panicked

\* Once b->disk is clear the transfer is over: the buffer and its sector have
\* the same contents when virtio_disk_rw() returns.
TransferComplete ==
  \A p \in Proc :
    pc[p] \in {"asleep", "awake"} /\ ~bdisk[p] => bdata[p] = disk[op[p].blk]

\* A process waits for descriptors only while there are too few of them.
DescriptorsNeeded ==
  \A p \in Proc : pc[p] = "nodesc" => Cardinality(FreeDesc) < 3

\* "Wait for virtio_disk_intr() to say request has finished": a request that
\* the device has put in the used ring is seen by a handler that is running or
\* is about to be called.
CompletionSeen == usedidx # usedid => irq \/ handler = "loop"
=============================================================================
