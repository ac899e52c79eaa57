-------------------------------- MODULE Pipe --------------------------------
(***************************************************************************)
(* A pipe of kernel/pipe.c between processes that share its two ends: the  *)
(* ring of PIPESIZE bytes under pi->lock, the sleeps and wakeups on nread  *)
(* and nwrite, closing and freeing, and kill().                            *)
(*                                                                         *)
(* A byte is the number of bytes written before it, plus one.  A process   *)
(* that is in piperead() or pipewrite() has the end it uses open.          *)
(***************************************************************************)
EXTENDS Integers, FiniteSets

CONSTANTS
  Readers,    \* processes that have the read end open after fork()
  Writers,    \* processes that have the write end open
  PIPESIZE,   \* size of the ring
  UINT,       \* nread and nwrite are uint: they wrap at UINT (2^32)
  MAXN,       \* bound: bytes asked for in one call
  MAXBYTES,   \* bound: no write starts that would exceed this many bytes
  MayKill,    \* processes that kill() may be called for
  MayFault    \* whether copyin() and copyout() may fail

ASSUME PipeAssumption ==
  /\ PIPESIZE \in Nat \ {0} /\ UINT \in Nat \ {0}
  /\ UINT % PIPESIZE = 0 /\ PIPESIZE < UINT
  /\ MAXN \in Nat /\ MAXBYTES \in Nat
  /\ MayKill \subseteq Readers \cup Writers /\ MayFault \in BOOLEAN

Proc == Readers \cup Writers

VARIABLES
  data,       \* pi->data
  nread, nwrite,
  readopen, writeopen,
  lock,       \* {} or the holder of pi->lock
  freed,      \* the page of the pipe has been given to kfree()
  rfd, wfd,   \* processes that have the end open: f->ref counts them
  pc,         \* where a process is in the pipe code
  want,       \* n - i of the call: bytes still to move
  killed,     \* p->killed
  rcount, wcount  \* history: bytes taken out of and put into the ring

vars == <<data, nread, nwrite, readopen, writeopen, lock, freed, rfd, wfd, pc,
          want, killed, rcount, wcount>>
ringvars == <<data, nread, nwrite, rcount, wcount>>
endvars  == <<readopen, writeopen, freed, rfd, wfd>>

Writing == {"w_lock", "w_loop", "w_sleep", "w_asleep"}
Reading == {"r_lock", "r_wait", "r_sleep", "r_asleep", "r_copy"}

TypeOK ==
  /\ data \in [0 .. PIPESIZE - 1 -> Nat]
  /\ nread \in 0 .. UINT - 1 /\ nwrite \in 0 .. UINT - 1
  /\ readopen \in BOOLEAN /\ writeopen \in BOOLEAN /\ freed \in BOOLEAN
  /\ lock \subseteq Proc /\ Cardinality(lock) <= 1
  /\ rfd \subseteq Readers /\ wfd \subseteq Writers
  /\ pc \in [Proc -> Writing \cup Reading \cup {"idle", "close_r", "close_w"}]
  /\ want \in [Proc -> 0 .. MAXN]
  /\ killed \in [Proc -> BOOLEAN]

\* pipealloc(), after fork() has given the ends to their processes.
Init ==
  /\ data = [k \in 0 .. PIPESIZE - 1 |-> 0]
  /\ nread = 0 /\ nwrite = 0
  /\ readopen = TRUE /\ writeopen = TRUE
  /\ lock = {} /\ freed = FALSE
  /\ rfd = Readers /\ wfd = Writers
  /\ pc = [p \in Proc |-> "idle"]
  /\ want = [p \in Proc |-> 0]
  /\ killed = [p \in Proc |-> FALSE]
  /\ rcount = 0 /\ wcount = 0

\* Fault: one byte more than the ring holds.
Full_late == nwrite = (nread + PIPESIZE + 1) % UINT

Empty == nread = nwrite
Full == nwrite = (nread + PIPESIZE) % UINT

Goto(p, l) == pc' = [pc EXCEPT ![p] = l]

\* release(&pi->lock) and return.
Return(p) == lock' = {} /\ Goto(p, "idle") /\ want' = [want EXCEPT ![p] = 0]

\* pc when p goes to l and wakeup() makes the processes asleep at s runnable:
\* sleep() then takes pi->lock again.
WakeAnd(p, l, s) ==
  [q \in Proc |-> IF q = p THEN l
                  ELSE IF pc[q] # s THEN pc[q]
                  ELSE IF s = "r_asleep" THEN "r_lock" ELSE "w_lock"]

-----------------------------------------------------------------------------
(* pipewrite().                                                            *)

pipewrite(p, n) ==
  /\ pc[p] = "idle" /\ p \in wfd /\ ~killed[p]
  /\ wcount + n <= MAXBYTES
  /\ Goto(p, "w_lock")
  /\ want' = [want EXCEPT ![p] = n]
  /\ UNCHANGED <<ringvars, endvars, lock, killed>>

write_acquire(p) ==
  /\ pc[p] = "w_lock" /\ lock = {}
  /\ lock' = {p}
  /\ Goto(p, "w_loop")
  /\ UNCHANGED <<ringvars, endvars, want, killed>>

\* Fault: the readers are not woken before the writer sleeps.
write_full_silent(p) ==
  /\ pc[p] = "w_loop" /\ want[p] > 0 /\ Full
  /\ \/ (~readopen \/ killed[p]) /\ Return(p)
     \/ readopen /\ ~killed[p] /\ Goto(p, "w_sleep") /\ UNCHANGED <<lock, want>>
  /\ UNCHANGED <<ringvars, endvars, killed>>

\* The pipe is full: give up, or wake the readers and go to sleep.
write_full(p) ==
  /\ pc[p] = "w_loop" /\ want[p] > 0 /\ Full
  /\ \/ /\ ~readopen \/ killed[p]
        /\ Return(p)
     \/ /\ readopen /\ ~killed[p]
        /\ pc' = WakeAnd(p, "w_sleep", "r_asleep")
        /\ UNCHANGED <<lock, want>>
  /\ UNCHANGED <<ringvars, endvars, killed>>

\* One byte.
write_byte(p) ==
  /\ pc[p] = "w_loop" /\ want[p] > 0 /\ ~Full
  /\ data' = [data EXCEPT ![nwrite % PIPESIZE] = wcount + 1]
  /\ nwrite' = (nwrite + 1) % UINT
  /\ wcount' = wcount + 1
  /\ want' = [want EXCEPT ![p] = @ - 1]
  /\ UNCHANGED <<nread, rcount, endvars, lock, pc, killed>>

\* The last byte has been written, or copyin() failed for the next.
write_return(p) ==
  /\ pc[p] = "w_loop"
  /\ want[p] = 0 \/ (MayFault /\ ~Full)
  /\ pc' = WakeAnd(p, "idle", "r_asleep")
  /\ lock' = {} /\ want' = [want EXCEPT ![p] = 0]
  /\ UNCHANGED <<ringvars, endvars, killed>>

-----------------------------------------------------------------------------
(* piperead().                                                             *)

piperead(p, n) ==
  /\ pc[p] = "idle" /\ p \in rfd /\ ~killed[p]
  /\ Goto(p, "r_lock")
  /\ want' = [want EXCEPT ![p] = n]
  /\ UNCHANGED <<ringvars, endvars, lock, killed>>

read_acquire(p) ==
  /\ pc[p] = "r_lock" /\ lock = {}
  /\ lock' = {p}
  /\ Goto(p, "r_wait")
  /\ UNCHANGED <<ringvars, endvars, want, killed>>

\* Fault: a killed reader returns with the lock.
read_wait_keeps(p) ==
  /\ pc[p] = "r_wait"
  /\ Goto(p, IF ~(Empty /\ writeopen) THEN "r_copy"
             ELSE IF killed[p] THEN "idle" ELSE "r_sleep")
  /\ UNCHANGED <<ringvars, endvars, lock, want, killed>>

\* One turn of the loop that waits for a byte or the end of the pipe.
read_wait(p) ==
  /\ pc[p] = "r_wait"
  /\ \/ /\ Empty /\ writeopen /\ killed[p]
        /\ Return(p)
     \/ /\ Empty /\ writeopen /\ ~killed[p]
        /\ Goto(p, "r_sleep")
        /\ UNCHANGED <<lock, want>>
     \/ /\ ~(Empty /\ writeopen)
        /\ Goto(p, "r_copy")
        /\ UNCHANGED <<lock, want>>
  /\ UNCHANGED <<ringvars, endvars, killed>>

\* One byte; it is taken out of the ring also when copyout() fails for it.
read_byte(p) ==
  /\ pc[p] = "r_copy" /\ want[p] > 0 /\ ~Empty
  /\ nread' = (nread + 1) % UINT
  /\ rcount' = rcount + 1
  /\ \/ want' = [want EXCEPT ![p] = @ - 1]
     \/ MayFault /\ want' = [want EXCEPT ![p] = 0]
  /\ UNCHANGED <<data, nwrite, wcount, endvars, lock, pc, killed>>

read_return(p) ==
  /\ pc[p] = "r_copy"
  /\ want[p] = 0 \/ Empty
  /\ pc' = WakeAnd(p, "idle", "w_asleep")
  /\ lock' = {} /\ want' = [want EXCEPT ![p] = 0]
  /\ UNCHANGED <<ringvars, endvars, killed>>

-----------------------------------------------------------------------------
(* sleep(), kill() and closing.                                            *)

\* sleep(chan, &pi->lock): under p->lock, release pi->lock and sleep.
sleep(p) ==
  /\ pc[p] \in {"w_sleep", "r_sleep"}
  /\ Goto(p, IF pc[p] = "w_sleep" THEN "w_asleep" ELSE "r_asleep")
  /\ lock' = {}
  /\ UNCHANGED <<ringvars, endvars, want, killed>>

\* kill(): set p->killed and wake p if it sleeps, under p->lock only.
kill(p) ==
  /\ p \in MayKill /\ ~killed[p]
  /\ killed' = [killed EXCEPT ![p] = TRUE]
  /\ pc' = [pc EXCEPT ![p] = CASE @ = "w_asleep" -> "w_lock"
                               [] @ = "r_asleep" -> "r_lock"
                               [] OTHER -> @]
  /\ UNCHANGED <<ringvars, endvars, lock, want>>

\* fileclose(): the last reference to an end closes it.
fileclose(p) ==
  /\ pc[p] = "idle"
  /\ \/ /\ p \in rfd
        /\ rfd' = rfd \ {p}
        /\ IF rfd' = {} THEN Goto(p, "close_r") ELSE UNCHANGED pc
        /\ UNCHANGED wfd
     \/ /\ p \in wfd
        /\ wfd' = wfd \ {p}
        /\ IF wfd' = {} THEN Goto(p, "close_w") ELSE UNCHANGED pc
        /\ UNCHANGED rfd
  /\ UNCHANGED <<ringvars, readopen, writeopen, freed, lock, want, killed>>

\* Fault: the pipe is freed when either end is closed.
pipeclose_either(p) ==
  /\ pc[p] \in {"close_r", "close_w"} /\ lock = {}
  /\ writeopen' = (writeopen /\ pc[p] # "close_w")
  /\ readopen' = (readopen /\ pc[p] # "close_r")
  /\ pc' = WakeAnd(p, "idle", IF pc[p] = "close_w" THEN "r_asleep" ELSE "w_asleep")
  /\ freed' = (~readopen' \/ ~writeopen')
  /\ UNCHANGED <<ringvars, rfd, wfd, lock, want, killed>>

\* pipeclose(): wake the other end; the second to close frees the pipe.
pipeclose(p) ==
  /\ pc[p] \in {"close_r", "close_w"} /\ lock = {}
  /\ \/ /\ pc[p] = "close_w"
        /\ writeopen' = FALSE
        /\ pc' = WakeAnd(p, "idle", "r_asleep")
        /\ UNCHANGED readopen
     \/ /\ pc[p] = "close_r"
        /\ readopen' = FALSE
        /\ pc' = WakeAnd(p, "idle", "w_asleep")
        /\ UNCHANGED writeopen
  /\ freed' = (~readopen' /\ ~writeopen')
  /\ UNCHANGED <<ringvars, rfd, wfd, lock, want, killed>>

-----------------------------------------------------------------------------

\* Steps of a call that has started.
CallStep(p) ==
  \/ write_acquire(p) \/ write_full(p) \/ write_byte(p) \/ write_return(p)
  \/ read_acquire(p) \/ read_wait(p) \/ read_byte(p) \/ read_return(p)
  \/ sleep(p) \/ pipeclose(p)

Next ==
  \E p \in Proc :
    \/ CallStep(p) \/ kill(p) \/ fileclose(p)
    \/ \E n \in 0 .. MAXN : pipewrite(p, n) \/ piperead(p, n)

Spec == Init /\ [][Next]_vars

\* A process that is awake runs and gets the lock it spins for, and in the end
\* every process closes the ends it has, since exit() does.
Fairness == \A p \in Proc : SF_vars(CallStep(p)) /\ SF_vars(fileclose(p))

FairSpec == Spec /\ Fairness

-----------------------------------------------------------------------------
(* Properties.                                                             *)

\* The bytes in the ring are the ones written and not yet read, in order, also
\* when nread and nwrite have wrapped around: nothing is lost, overwritten or
\* read twice by any number of readers and writers.
Fifo ==
  /\ wcount - rcount \in 0 .. PIPESIZE
  /\ (nwrite - nread) % UINT = wcount - rcount
  /\ \A k \in 0 .. wcount - rcount - 1 :
       data[(nread + k) % PIPESIZE] = rcount + k + 1

\* pipe.c:85, 110: while pi->lock is free, a reader sleeps only if the pipe is
\* empty and its write end is open, and a writer only if the pipe is full and
\* its read end is open: every byte put in or taken out, every close and every
\* early return wakes whoever waits for it.
SleepersNeeded ==
  lock = {} =>
    \A p \in Proc :
      /\ pc[p] = "r_asleep" => Empty /\ writeopen
      /\ pc[p] = "w_asleep" => Full /\ readopen

\* pipeclose() frees the pipe once nobody can use it any more: no process is
\* in a call, or has an end open.
FreedUnused ==
  freed => \A p \in Proc : pc[p] = "idle" /\ p \notin rfd \cup wfd

\* Every read and write returns if the processes at the other end keep calling
\* or close their end, whatever was killed and whoever failed.
CallsReturn == \A p \in Proc : pc[p] # "idle" ~> pc[p] = "idle"
=============================================================================
