-------------------------------- MODULE Log --------------------------------
(***************************************************************************)
(* The write-ahead redo log of kernel/log.c, with the buffer cache seen    *)
(* through its contract (a block is cached at most once, a locked or       *)
(* pinned buffer is not recycled; module Bio checks that contract), and    *)
(* with power failures at every step.                                      *)
(*                                                                         *)
(* A disk write of a data block covers two sectors, so a crash during one  *)
(* may leave the block torn.  The header (n and 30 block numbers) lies in  *)
(* one sector and is written atomically.                                   *)
(***************************************************************************)
EXTENDS Integers, Sequences, FiniteSets

CONSTANTS
  Proc,         \* kernel threads that run file system calls
  Block,        \* home blocks of the file system
  Val,          \* contents of a block
  Zero,         \* the contents mkfs gives every block
  Torn,         \* contents of a block whose write was cut by a crash
  NoBlock,      \* no buffer is locked; no buffer is cached
  MAXOPBLOCKS,  \* param.h: what begin_op() reserves for a system call
  LOGSIZE,      \* param.h: capacity of logheader.block[]
  NLOG,         \* superblock.nlog, log.size: blocks of the log, header included
  OPBLOCKS      \* distinct blocks a system call really writes, at most

ASSUME ConstAssumption ==
  /\ IsFiniteSet(Proc)
  /\ Zero \in Val
  /\ Torn \notin Val
  /\ NoBlock \notin Block /\ NoBlock \notin Val \cup {Torn}
  /\ MAXOPBLOCKS \in Nat \ {0} /\ LOGSIZE \in Nat /\ NLOG \in Nat \ {0}
  /\ OPBLOCKS \in 1 .. MAXOPBLOCKS

VARIABLES
  disk,        \* home blocks on disk
  dlog,        \* data blocks of the on-disk log
  dhead,       \* block numbers in the on-disk header; its length is n
  cache,       \* contents of the cached buffers, NoBlock if not cached
  pinned,      \* blocks whose buffer log_write() pinned
  lh,          \* log.lh in memory; its length is n
  outstanding, \* log.outstanding
  committing,  \* log.committing
  tail,        \* loop variable of write_log() and install_trans(), from 1
  phase,       \* what commit() or recover_from_log() does next
  pc,          \* where a thread is in its system call
  buf,         \* the buffer a thread has locked, NoBlock if none
  wrote,       \* blocks the system call of a thread has logged so far
  panicked     \* a panic() stopped the machine

diskvars == <<disk, dlog, dhead>>
logvars  == <<lh, outstanding, committing>>
bufvars  == <<cache, pinned>>
opvars   == <<buf, wrote>>
vars == <<disk, dlog, dhead, cache, pinned, lh, outstanding, committing,
          tail, phase, pc, buf, wrote, panicked>>

Data == Val \cup {Torn}

\* Where a thread is between begin_op() and the decrement of end_op().
InOp == {"op", "locked", "append", "logged"}
Active == {p \in Proc : pc[p] \in InOp}

\* "idle": no commit.  "read_head".."rec_clear": recovery at boot.
Recovering == phase \in {"read_head", "rec_install", "rec_clear"}

TypeOK ==
  /\ disk \in [Block -> Data]
  /\ dlog \in [1 .. NLOG - 1 -> Data]
  /\ dhead \in Seq(Block)
  /\ cache \in [Block -> Data \cup {NoBlock}]
  /\ pinned \subseteq Block
  /\ lh \in Seq(Block)
  /\ outstanding \in Nat
  /\ committing \in BOOLEAN
  /\ tail \in Nat \ {0}
  /\ phase \in {"idle", "write_log", "write_head", "install", "clear", "done",
                "read_head", "rec_install", "rec_clear"}
  /\ pc \in [Proc -> InOp \cup {"idle", "asleep", "woken", "commit"}]
  /\ buf \in [Proc -> Block \cup {NoBlock}]
  /\ wrote \in [Proc -> SUBSET Block]
  /\ panicked \in BOOLEAN

Init ==
  /\ disk = [b \in Block |-> Zero]
  /\ dlog = [i \in 1 .. NLOG - 1 |-> Zero]
  /\ dhead = <<>>
  /\ cache = [b \in Block |-> NoBlock]
  /\ pinned = {}
  /\ lh = <<>>
  /\ outstanding = 0
  /\ committing = FALSE
  /\ tail = 1
  /\ phase = "read_head"
  /\ pc = [p \in Proc |-> "idle"]
  /\ buf = [p \in Proc |-> NoBlock]
  /\ wrote = [p \in Proc |-> {}]
  /\ panicked = FALSE

Running == ~panicked /\ ~Recovering

BlocksIn(h) == {h[i] : i \in DOMAIN h}

-----------------------------------------------------------------------------
(* The buffer cache, as far as the log depends on it.                      *)

\* bread() returns the cached contents, else what is on disk.
bread(b) == IF cache[b] # NoBlock THEN cache[b] ELSE disk[b]

\* bget() recycles the buffer of a block that is neither in use nor pinned.
Recycle(b) ==
  /\ ~panicked
  /\ cache[b] # NoBlock
  /\ b \notin pinned
  /\ \A p \in Proc : buf[p] # b
  /\ cache' = [cache EXCEPT ![b] = NoBlock]
  /\ UNCHANGED <<diskvars, logvars, pinned, tail, phase, pc, opvars, panicked>>

\* A reader outside any transaction, e.g. readi(): bread() then brelse().
reader_bread(b) ==
  /\ Running
  /\ \A p \in Proc : buf[p] # b
  /\ cache' = [cache EXCEPT ![b] = bread(b)]
  /\ UNCHANGED <<diskvars, logvars, pinned, tail, phase, pc, opvars, panicked>>

-----------------------------------------------------------------------------
(* A file system call: begin_op(), then any number of times bread(), a     *)
(* change of b->data with log_write(), brelse(), and at last end_op().     *)

\* wakeup(&log): every thread asleep in begin_op() looks again.
Woken == [q \in Proc |-> IF pc[q] = "asleep" THEN "woken" ELSE pc[q]]

MustWait ==
  committing \/ Len(lh) + (outstanding + 1) * MAXOPBLOCKS > LOGSIZE

\* Fault: the system call is not counted.
begin_op_uncounted(p) ==
  /\ Running
  /\ pc[p] \in {"idle", "woken"}
  /\ ~MustWait
  /\ pc' = [pc EXCEPT ![p] = "op"]
  /\ UNCHANGED <<diskvars, bufvars, logvars, tail, phase, opvars, panicked>>

begin_op(p) ==
  /\ Running
  /\ pc[p] \in {"idle", "woken"}
  /\ \/ /\ MustWait
        /\ pc' = [pc EXCEPT ![p] = "asleep"]
        /\ UNCHANGED outstanding
     \/ /\ ~MustWait
        /\ outstanding' = outstanding + 1
        /\ pc' = [pc EXCEPT ![p] = "op"]
  /\ UNCHANGED <<diskvars, bufvars, lh, committing, tail, phase, opvars,
                 panicked>>

\* bp = bread(b): the buffer is locked until brelse().
op_bread(p, b) ==
  /\ Running
  /\ pc[p] = "op"
  /\ \A q \in Proc : buf[q] # b
  /\ buf' = [buf EXCEPT ![p] = b]
  /\ cache' = [cache EXCEPT ![b] = bread(b)]
  /\ pc' = [pc EXCEPT ![p] = "locked"]
  /\ UNCHANGED <<diskvars, logvars, pinned, tail, phase, wrote, panicked>>

\* The caller changes b->data, then log_write() makes its checks, which read
\* log.lh.n and log.outstanding without holding log.lock.
log_write_check(p, v) ==
  /\ Running
  /\ pc[p] = "locked"
  /\ Cardinality(wrote[p] \cup {buf[p]}) <= OPBLOCKS
  /\ cache' = [cache EXCEPT ![buf[p]] = v]
  /\ IF Len(lh) >= LOGSIZE \/ Len(lh) >= NLOG - 1 \/ outstanding < 1
       THEN panicked' = TRUE /\ UNCHANGED pc
       ELSE pc' = [pc EXCEPT ![p] = "append"] /\ UNCHANGED panicked
  /\ UNCHANGED <<diskvars, logvars, pinned, tail, phase, opvars>>

\* The rest of log_write(), under log.lock: absorption, or append and bpin().
log_write_append(p) ==
  /\ Running
  /\ pc[p] = "append"
  /\ \/ /\ buf[p] \in BlocksIn(lh)
        /\ UNCHANGED <<lh, pinned>>
     \/ /\ buf[p] \notin BlocksIn(lh)
        /\ lh' = Append(lh, buf[p])
        /\ pinned' = pinned \cup {buf[p]}
  /\ wrote' = [wrote EXCEPT ![p] = @ \cup {buf[p]}]
  /\ pc' = [pc EXCEPT ![p] = "logged"]
  /\ UNCHANGED <<diskvars, cache, outstanding, committing, tail, phase, buf,
                 panicked>>

\* brelse(bp), of a block that was changed or only read.
op_brelse(p) ==
  /\ Running
  /\ pc[p] \in {"locked", "logged"}
  /\ buf' = [buf EXCEPT ![p] = NoBlock]
  /\ pc' = [pc EXCEPT ![p] = "op"]
  /\ UNCHANGED <<diskvars, logvars, bufvars, tail, phase, wrote, panicked>>

\* Fault: commit() starts although other system calls are outstanding.
end_op_eager(p) ==
  /\ Running
  /\ pc[p] = "op"
  /\ ~committing
  /\ outstanding' = outstanding - 1
  /\ wrote' = [wrote EXCEPT ![p] = {}]
  /\ committing' = TRUE
  /\ phase' = IF Len(lh) > 0 THEN "write_log" ELSE "done"
  /\ pc' = [pc EXCEPT ![p] = "commit"]
  /\ UNCHANGED <<diskvars, bufvars, lh, tail, buf, panicked>>

\* end_op() up to the call of commit(), which begins if n > 0.
end_op(p) ==
  /\ Running
  /\ pc[p] = "op"
  /\ outstanding' = outstanding - 1
  /\ wrote' = [wrote EXCEPT ![p] = {}]
  /\ \/ /\ committing
        /\ panicked' = TRUE
        /\ UNCHANGED <<committing, phase, pc>>
     \/ /\ ~committing /\ outstanding' = 0
        /\ committing' = TRUE
        /\ phase' = IF Len(lh) > 0 THEN "write_log" ELSE "done"
        /\ pc' = [pc EXCEPT ![p] = "commit"]
        /\ UNCHANGED panicked
     \/ /\ ~committing /\ outstanding' # 0
        /\ pc' = [Woken EXCEPT ![p] = "idle"]
        /\ UNCHANGED <<committing, phase, panicked>>
  /\ UNCHANGED <<diskvars, bufvars, lh, tail, buf>>

-----------------------------------------------------------------------------
(* commit(), and recover_from_log() at boot.                               *)

\* A loop over tail runs "body" for tail = 1..n and goes on to phase "next".
LoopStep(next) ==
  /\ tail' = IF tail = Len(lh) THEN 1 ELSE tail + 1
  /\ phase' = IF tail = Len(lh) THEN next ELSE phase

\* Fault: the header is not written before the blocks are installed.
write_log_no_commit ==
  /\ ~panicked
  /\ phase = "write_log"
  /\ dlog' = [dlog EXCEPT ![tail] = bread(lh[tail])]
  /\ cache' = [cache EXCEPT ![lh[tail]] = bread(lh[tail])]
  /\ LoopStep("install")
  /\ UNCHANGED <<disk, dhead, pinned, logvars, pc, opvars, panicked>>

\* One iteration of write_log(): copy a block from the cache to the log.
write_log ==
  /\ ~panicked
  /\ phase = "write_log"
  /\ dlog' = [dlog EXCEPT ![tail] = bread(lh[tail])]
  /\ cache' = [cache EXCEPT ![lh[tail]] = bread(lh[tail])]
  /\ LoopStep("write_head")
  /\ UNCHANGED <<disk, dhead, pinned, logvars, pc, opvars, panicked>>

\* write_head() with n > 0: the commit point.
write_head ==
  /\ ~panicked
  /\ phase = "write_head"
  /\ dhead' = lh
  /\ phase' = "install"
  /\ UNCHANGED <<disk, dlog, bufvars, logvars, tail, pc, opvars, panicked>>

\* Fault: installed blocks stay pinned.
install_trans_pinned ==
  /\ ~panicked
  /\ phase \in {"install", "rec_install"}
  /\ disk' = [disk EXCEPT ![lh[tail]] = dlog[tail]]
  /\ cache' = [cache EXCEPT ![lh[tail]] = dlog[tail]]
  /\ LoopStep(IF phase = "install" THEN "clear" ELSE "rec_clear")
  /\ UNCHANGED <<dlog, dhead, pinned, logvars, pc, opvars, panicked>>

\* One iteration of install_trans(), in a commit or in recovery.
install_trans ==
  /\ ~panicked
  /\ phase \in {"install", "rec_install"}
  /\ disk' = [disk EXCEPT ![lh[tail]] = dlog[tail]]
  /\ cache' = [cache EXCEPT ![lh[tail]] = dlog[tail]]
  /\ pinned' = pinned \ {lh[tail]}
  /\ LoopStep(IF phase = "install" THEN "clear" ELSE "rec_clear")
  /\ UNCHANGED <<dlog, dhead, logvars, pc, opvars, panicked>>

\* log.lh.n = 0; write_head(): erase the transaction from the log.
clear_head ==
  /\ ~panicked
  /\ phase \in {"clear", "rec_clear"}
  /\ lh' = <<>>
  /\ dhead' = <<>>
  /\ phase' = IF phase = "clear" THEN "done" ELSE "idle"
  /\ UNCHANGED <<disk, dlog, bufvars, outstanding, committing, tail, pc, opvars,
                 panicked>>

\* Fault: no wakeup(&log) after the commit.
end_commit_silent(p) ==
  /\ ~panicked
  /\ phase = "done"
  /\ pc[p] = "commit"
  /\ committing' = FALSE
  /\ phase' = "idle"
  /\ pc' = [pc EXCEPT ![p] = "idle"]
  /\ UNCHANGED <<diskvars, bufvars, lh, outstanding, tail, opvars, panicked>>

\* end_op() after commit(): committing = 0, wakeup(&log).
end_commit(p) ==
  /\ ~panicked
  /\ phase = "done"
  /\ pc[p] = "commit"
  /\ committing' = FALSE
  /\ phase' = "idle"
  /\ pc' = [Woken EXCEPT ![p] = "idle"]
  /\ UNCHANGED <<diskvars, bufvars, lh, outstanding, tail, opvars, panicked>>

\* recover_from_log() starts: read_head() fills log.lh from the disk.
read_head ==
  /\ phase = "read_head"
  /\ lh' = dhead
  /\ phase' = IF Len(dhead) > 0 THEN "rec_install" ELSE "rec_clear"
  /\ UNCHANGED <<diskvars, bufvars, outstanding, committing, tail, pc, opvars,
                 panicked>>

\* Power failure, or the reboot after a panic.  Memory is lost; a data block
\* that was being written may be torn.  initlog() then recovers.
Crash ==
  /\ \/ UNCHANGED <<disk, dlog>>
     \/ /\ phase = "write_log" /\ ~panicked
        /\ dlog' = [dlog EXCEPT ![tail] = Torn]
        /\ UNCHANGED disk
     \/ /\ phase \in {"install", "rec_install"} /\ ~panicked
        /\ disk' = [disk EXCEPT ![lh[tail]] = Torn]
        /\ UNCHANGED dlog
  /\ cache' = [b \in Block |-> NoBlock]
  /\ pinned' = {}
  /\ lh' = <<>>
  /\ outstanding' = 0
  /\ committing' = FALSE
  /\ tail' = 1
  /\ phase' = "read_head"
  /\ pc' = [p \in Proc |-> "idle"]
  /\ buf' = [p \in Proc |-> NoBlock]
  /\ wrote' = [p \in Proc |-> {}]
  /\ panicked' = FALSE
  /\ UNCHANGED dhead

OpStep(p) ==
  \/ begin_op(p)
  \/ \E b \in Block : op_bread(p, b)
  \/ \E v \in Val : log_write_check(p, v)
  \/ log_write_append(p)
  \/ op_brelse(p)
  \/ end_op(p)
  \/ end_commit(p)

LogStep == write_log \/ write_head \/ install_trans \/ clear_head \/ read_head

Next ==
  \/ \E p \in Proc : OpStep(p)
  \/ LogStep
  \/ \E b \in Block : Recycle(b) \/ reader_bread(b)
  \/ Crash

Spec == Init /\ [][Next]_vars

\* A thread that can run runs, and a system call is a finite sequence of
\* bread/log_write/brelse: it comes to its end_op().
Fairness ==
  /\ \A p \in Proc : WF_vars(OpStep(p)) /\ SF_vars(end_op(p))
  /\ WF_vars(LogStep)

FairSpec == Spec /\ Fairness

-----------------------------------------------------------------------------
(* Properties.                                                             *)

\* What install_trans() makes of home blocks, given a log and its header: the
\* blocks the header names come from the log, the last copy of each.
Install(home, log, head) ==
  [b \in Block |->
     IF b \in BlocksIn(head)
       THEN log[CHOOSE i \in DOMAIN head :
                  /\ head[i] = b
                  /\ \A j \in DOMAIN head : head[j] = b => j <= i]
       ELSE home[b]]

\* The home blocks recovery would leave, were the machine to crash now.
Recovered == Install(disk, dlog, dhead)

\* The contents the file system sees; none before recovery is over.
View == IF Recovering THEN Recovered ELSE [b \in Block |-> bread(b)]

CSD == INSTANCE CrashSafeDisk
         WITH durable <- Recovered, current <- View, active <- Active

\* log.c:12-16, "there is never any reasoning required about whether a commit
\* might write an uncommitted system call's updates to disk": whatever the
\* interleaving of system calls, commit, recovery, buffer recycling and
\* crashes, the log implements the disk of CrashSafeDisk: a crash leaves the
\* effects of whole, completed system calls.
CrashAtomic == CSD!Spec

\* The write-ahead rule of install_trans(): a home block is only overwritten
\* (or torn) while the on-disk header names it, so the log can redo it.
WriteAhead == [][\A b \in Block : disk'[b] # disk[b] => b \in BlocksIn(dhead)]_vars

\* When no system call is in progress and no commit is running, everything
\* that was written is durable, and commit() has released every pin of
\* log_write(): nothing waits for a later transaction.
QuiescentDurable ==
  (phase = "idle" /\ outstanding = 0 /\ ~panicked)
    => View = Recovered /\ pinned = {} /\ lh = <<>>

\* The reservation of begin_op() is enough: log_write() never panics with "too
\* big a transaction", end_op() not with "log.committing", and the logged
\* blocks fit in the NLOG - 1 data blocks of the on-disk log.
LogSpaceSuffices == ~panicked /\ Len(lh) <= NLOG - 1

\* What LogSpaceSuffices needs: a system call writes fewer blocks than begin_op()
\* reserves, by the block the check of log_write() wants free even for a block
\* that is absorbed and, if NLOG = LOGSIZE as mkfs makes it, by the header.
Slack ==
  /\ OPBLOCKS < MAXOPBLOCKS
  /\ LOGSIZE - MAXOPBLOCKS + OPBLOCKS < NLOG - 1

\* No wakeup is lost: a thread that begin_op() put to sleep on &log is woken.
SleepersWoken == \A p \in Proc : pc[p] = "asleep" ~> pc[p] # "asleep"

=============================================================================
