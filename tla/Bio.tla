-------------------------------- MODULE Bio --------------------------------
(***************************************************************************)
(* The buffer cache of kernel/bio.c with the sleep lock of each buffer     *)
(* (kernel/sleeplock.c): NBUF buffers on a most-recently-used list, looked *)
(* up and recycled under bcache.lock, used under their own lock.           *)
(*                                                                         *)
(* The clients do what the kernel's clients do with a locked buffer: read  *)
(* it, write it through (bwrite), log it (log_write pins it), install it   *)
(* (install_trans writes and unpins it).  At boot the first process        *)
(* installs the blocks Logged by the transaction a crash left in the log.  *)
(***************************************************************************)
EXTENDS Integers, Sequences, FiniteSets

CONSTANTS
  Proc,     \* processes in the kernel
  First,    \* the process that runs initlog() at boot
  Block,    \* disk blocks (dev and blockno)
  Val,      \* contents of a block
  NBUF,     \* param.h: number of buffers
  REFMOD,   \* refcnt is a uint: it wraps at REFMOD (2^32)
  Logged,   \* blocks of a committed transaction found in the log at boot
  MAXPIN,   \* most blocks pinned at once (the capacity of the log)
  MAXSINCE, \* bound: bget()s that follow a recovery
  NoBlock,  \* dev and blockno of a buffer never used
  NoProc    \* an unlocked sleep lock

ASSUME BioAssumption ==
  /\ First \in Proc /\ NoProc \notin Proc
  /\ NoBlock \notin Block
  /\ Logged \subseteq Block
  /\ NBUF \in Nat \ {0} /\ MAXPIN \in Nat /\ MAXSINCE \in Nat \ {0}
  /\ IsFiniteSet(Proc)
  /\ REFMOD \in Nat /\ Cardinality(Proc) + 1 < REFMOD  \* NPROC is 64

Buf == 1 .. NBUF

VARIABLES
  lru,      \* the list from head.next (most recent) to head.prev (least)
  blockno,  \* b->dev and b->blockno
  valid,    \* b->valid
  refcnt,   \* b->refcnt
  lock,     \* owner of b->lock
  data,     \* b->data
  disk,     \* contents of the disk
  pc,       \* where a process is between bread() and brelse()
  blk,      \* the block a process called bread() for
  buf,      \* the buffer bget() returned to a process
  pins,     \* blocks in the log, pinned by log_write()
  todo,     \* blocks recover_from_log() still has to install
  since,    \* history: bget()s since the first recovery (0: none was recovered)
  latest,   \* history: last contents given to a block by a client
  panicked  \* panic("bget: no buffers")

vars == <<lru, blockno, valid, refcnt, lock, data, disk, pc, blk, buf, pins,
          todo, since, latest, panicked>>
cachevars  == <<lru, blockno, valid, refcnt>>
clientvars == <<pins, todo, since, latest>>

Using == {"lock", "asleep", "fill", "held", "installed", "unlocked"}

TypeOK ==
  /\ lru \in [Buf -> Buf] /\ {lru[i] : i \in Buf} = Buf
  /\ blockno \in [Buf -> Block \cup {NoBlock}]
  /\ valid \in [Buf -> BOOLEAN]
  /\ refcnt \in [Buf -> 0 .. REFMOD - 1]
  /\ lock \in [Buf -> Proc \cup {NoProc}]
  /\ data \in [Buf -> Val] /\ disk \in [Block -> Val] /\ latest \in [Block -> Val]
  /\ pc \in [Proc -> Using \cup {"idle"}]
  /\ blk \in [Proc -> Block \cup {NoBlock}]
  /\ buf \in [Proc -> Buf]
  /\ pins \subseteq Block /\ todo \subseteq Block /\ since \in 0 .. MAXSINCE
  /\ panicked \in BOOLEAN

\* binit(), and a disk whose log is clean, or holds other contents for Logged.
Init ==
  /\ lru = [i \in Buf |-> NBUF + 1 - i]
  /\ blockno = [b \in Buf |-> NoBlock]
  /\ valid = [b \in Buf |-> FALSE]
  /\ refcnt = [b \in Buf |-> 0]
  /\ lock = [b \in Buf |-> NoProc]
  /\ \E v \in Val : data = [b \in Buf |-> v] /\ disk = [k \in Block |-> v]
  /\ latest = disk
  /\ pc = [p \in Proc |-> "idle"]
  /\ blk = [p \in Proc |-> NoBlock]
  /\ buf = [p \in Proc |-> 1]
  /\ pins = {}
  /\ todo \in {{}, Logged} /\ since = 0
  /\ panicked = FALSE

Incr(n) == (n + 1) % REFMOD
Decr(n) == (n + REFMOD - 1) % REFMOD

-----------------------------------------------------------------------------
(* bget(), bread(), brelse().                                              *)

\* Fault: a buffer that is still being filled does not count as cached.
CachedIn_valid(k) == {b \in Buf : blockno[b] = k /\ valid[b]}

\* Fault: a buffer that nobody has locked counts as unused.
Free_unlocked == {b \in Buf : lock[b] = NoProc}

\* The buffers that cache block k, and the ones that can be recycled.
CachedIn(k) == {b \in Buf : blockno[b] = k}
Free == {b \in Buf : refcnt[b] = 0}

\* The first buffer of S from head.next on, or from head.prev backwards.
FirstOf(S) == lru[CHOOSE i \in Buf : lru[i] \in S /\ \A j \in 1 .. i - 1 : lru[j] \notin S]
LastOf(S) == lru[CHOOSE i \in Buf : lru[i] \in S /\ \A j \in i + 1 .. NBUF : lru[j] \notin S]

\* During recovery only the first process runs, and reads the logged blocks.
MayRead(p, k) == todo # {} => p = First /\ k \in todo

\* bget() up to the release of bcache.lock.
bget(p, k) ==
  /\ ~panicked
  /\ pc[p] = "idle"
  /\ MayRead(p, k)
  /\ since < MAXSINCE
  /\ \/ /\ CachedIn(k) # {}
        /\ LET b == FirstOf(CachedIn(k)) IN
             /\ refcnt' = [refcnt EXCEPT ![b] = Incr(@)]
             /\ buf' = [buf EXCEPT ![p] = b]
        /\ pc' = [pc EXCEPT ![p] = "lock"]
        /\ UNCHANGED <<blockno, valid, panicked>>
     \/ /\ CachedIn(k) = {} /\ Free # {}
        /\ LET b == LastOf(Free) IN
             /\ blockno' = [blockno EXCEPT ![b] = k]
             /\ valid' = [valid EXCEPT ![b] = FALSE]
             /\ refcnt' = [refcnt EXCEPT ![b] = 1]
             /\ buf' = [buf EXCEPT ![p] = b]
        /\ pc' = [pc EXCEPT ![p] = "lock"]
        /\ UNCHANGED panicked
     \/ /\ CachedIn(k) = {} /\ Free = {}
        /\ panicked' = TRUE
        /\ UNCHANGED <<blockno, valid, refcnt, buf, pc>>
  /\ blk' = [blk EXCEPT ![p] = k]
  /\ since' = IF since = 0 THEN 0 ELSE since + 1
  /\ UNCHANGED <<lru, lock, data, disk, pins, todo, latest>>

\* One turn of the loop of acquiresleep(&b->lock).
acquiresleep(p) ==
  /\ ~panicked
  /\ pc[p] = "lock"
  /\ \/ /\ lock[buf[p]] # NoProc
        /\ pc' = [pc EXCEPT ![p] = "asleep"]
        /\ UNCHANGED lock
     \/ /\ lock[buf[p]] = NoProc
        /\ lock' = [lock EXCEPT ![buf[p]] = p]
        /\ pc' = [pc EXCEPT ![p] = "fill"]
  /\ UNCHANGED <<cachevars, data, disk, blk, buf, clientvars, panicked>>

\* The rest of bread(): read the block unless the buffer is valid.
bread(p) ==
  /\ ~panicked
  /\ pc[p] = "fill"
  /\ \/ /\ valid[buf[p]]
        /\ UNCHANGED <<data, valid>>
     \/ /\ ~valid[buf[p]] /\ blockno[buf[p]] \in Block
        /\ data' = [data EXCEPT ![buf[p]] = disk[blockno[buf[p]]]]
        /\ valid' = [valid EXCEPT ![buf[p]] = TRUE]
  /\ pc' = [pc EXCEPT ![p] = "held"]
  /\ UNCHANGED <<lru, blockno, refcnt, lock, disk, blk, buf, clientvars,
                 panicked>>

\* Fault: no wakeup.
releasesleep_silent(p) ==
  /\ ~panicked
  /\ pc[p] = "installed" \/ (pc[p] = "held" /\ todo = {})
  /\ lock' = [lock EXCEPT ![buf[p]] = NoProc]
  /\ pc' = [pc EXCEPT ![p] = "unlocked"]
  /\ UNCHANGED <<cachevars, data, disk, blk, buf, clientvars, panicked>>

\* brelse(), first half: releasesleep(&b->lock) wakes the processes that sleep
\* on the lock.
releasesleep(p) ==
  /\ ~panicked
  /\ pc[p] = "installed" \/ (pc[p] = "held" /\ todo = {})
  /\ lock' = [lock EXCEPT ![buf[p]] = NoProc]
  /\ pc' = [q \in Proc |->
              CASE q = p -> "unlocked"
                [] pc[q] = "asleep" /\ buf[q] = buf[p] -> "lock"
                [] OTHER -> pc[q]]
  /\ UNCHANGED <<cachevars, data, disk, blk, buf, clientvars, panicked>>

\* The list after b has been moved to its head.
MoveToFront(b) ==
  [i \in Buf |-> IF i = 1 THEN b
                 ELSE IF \E j \in 1 .. i - 1 : lru[j] = b THEN lru[i]
                 ELSE lru[i - 1]]

\* brelse(), second half, under bcache.lock.
brelse(p) ==
  /\ ~panicked
  /\ pc[p] = "unlocked"
  /\ refcnt' = [refcnt EXCEPT ![buf[p]] = Decr(@)]
  /\ lru' = IF refcnt'[buf[p]] = 0 THEN MoveToFront(buf[p]) ELSE lru
  /\ pc' = [pc EXCEPT ![p] = "idle"]
  /\ blk' = [blk EXCEPT ![p] = NoBlock]
  /\ buf' = [buf EXCEPT ![p] = 1]
  /\ todo' = todo \ {blk[p]}
  /\ UNCHANGED <<blockno, valid, lock, data, disk, pins, since, latest,
                 panicked>>

-----------------------------------------------------------------------------
(* What the kernel does with a buffer it holds.                            *)

Holds(p) == ~panicked /\ pc[p] = "held"

\* The client gives the block new contents: it changes b->data in place.
Modify(p, v) ==
  /\ data' = [data EXCEPT ![buf[p]] = v]
  /\ latest' = [latest EXCEPT ![blk[p]] = v]

\* bwrite(): blocks of the log itself are written through.
bwrite(p, v) ==
  /\ Holds(p) /\ todo = {} /\ blk[p] \notin pins
  /\ Modify(p, v)
  /\ blockno[buf[p]] \in Block
  /\ disk' = [disk EXCEPT ![blockno[buf[p]]] = v]
  /\ UNCHANGED <<cachevars, lock, pc, blk, buf, pins, todo, since, panicked>>

\* log_write(): bpin() the buffer unless its block is already in the log.
bpin(p, v) ==
  /\ Holds(p) /\ todo = {}
  /\ Cardinality(pins \cup {blk[p]}) <= MAXPIN
  /\ Modify(p, v)
  /\ refcnt' = IF blk[p] \in pins THEN refcnt
               ELSE [refcnt EXCEPT ![buf[p]] = Incr(@)]
  /\ pins' = pins \cup {blk[p]}
  /\ UNCHANGED <<lru, blockno, valid, lock, disk, pc, blk, buf, todo, since,
                 panicked>>

\* Fault: the block is unpinned without having been written.
bunpin_unwritten(p) ==
  /\ Holds(p) /\ blk[p] \in pins
  /\ refcnt' = [refcnt EXCEPT ![buf[p]] = Decr(@)]
  /\ pins' = pins \ {blk[p]}
  /\ UNCHANGED <<lru, blockno, valid, lock, data, disk, pc, blk, buf, todo,
                 since, latest, panicked>>

\* install_trans() in commit(): bwrite() and bunpin() a logged block.
bunpin(p) ==
  /\ Holds(p) /\ blk[p] \in pins
  /\ blockno[buf[p]] \in Block
  /\ disk' = [disk EXCEPT ![blockno[buf[p]]] = data[buf[p]]]
  /\ refcnt' = [refcnt EXCEPT ![buf[p]] = Decr(@)]
  /\ pins' = pins \ {blk[p]}
  /\ UNCHANGED <<lru, blockno, valid, lock, data, pc, blk, buf, todo, since,
                 latest, panicked>>

\* install_trans() in recover_from_log(): copy from the log, bwrite(), and the
\* same bunpin(), although log_write() has not pinned this buffer.
recover_bunpin(p, v) ==
  /\ Holds(p) /\ blk[p] \in todo
  /\ Modify(p, v)
  /\ blockno[buf[p]] \in Block
  /\ disk' = [disk EXCEPT ![blockno[buf[p]]] = v]
  /\ refcnt' = [refcnt EXCEPT ![buf[p]] = Decr(@)]
  /\ pc' = [pc EXCEPT ![p] = "installed"]
  /\ since' = IF since = 0 THEN 1 ELSE since
  /\ UNCHANGED <<lru, blockno, valid, lock, blk, buf, pins, todo, panicked>>

ProcStep(p) ==
  \/ acquiresleep(p)
  \/ bread(p)
  \/ releasesleep(p)
  \/ brelse(p)

Next ==
  \E p \in Proc :
    \/ ProcStep(p)
    \/ \E k \in Block : bget(p, k)
    \/ bunpin(p)
    \/ \E v \in Val : bwrite(p, v) \/ bpin(p, v) \/ recover_bunpin(p, v)

Spec == Init /\ [][Next]_vars

\* A process that can run runs, and gives a buffer back.
Fairness == \A p \in Proc : WF_vars(ProcStep(p)) /\ SF_vars(releasesleep(p))
FairSpec == Spec /\ Fairness

-----------------------------------------------------------------------------
(* Properties.                                                             *)

Mine(p) == pc[p] \in Using => blockno[buf[p]] = blk[p]

\* bio.c:9-14: a process that has a buffer has the one of the block it asked
\* for: bget() of another process cannot recycle it in the meantime.  After a
\* boot that recovers nothing.
BufferIsMine == since = 0 => \A p \in Proc : Mine(p)

\* The same, after every boot: what bio.c:13-14 says of the users of a buffer.
BufferAlwaysMine == \A p \in Proc : Mine(p)

\* bio.c:5-6, the cache is "a synchronization point for disk blocks used by
\* multiple processes": no block is cached twice, so its lock is the lock.
OneBufferPerBlock ==
  \A b, c \in Buf : blockno[b] = blockno[c] /\ blockno[b] # NoBlock => b = c

\* A process that holds a block sees the last contents anyone gave it, whether
\* they are on the disk, or only in a pinned buffer; no bwrite() or eviction
\* has left an older copy.
SeesLatest ==
  since = 0 =>
    \A p \in Proc : pc[p] = "held" /\ todo = {} => data[buf[p]] = latest[blk[p]]

\* A process asleep on a buffer's lock is woken when the holder releases it,
\* unless the kernel panics first.
SleepersWoken == \A p \in Proc : pc[p] = "asleep" ~> pc[p] # "asleep" \/ panicked
=============================================================================
