------------------------------- MODULE Console ------------------------------
(***************************************************************************)
(* The console of kernel/console.c on the UART of kernel/uart.c: processes *)
(* in consoleread() and consolewrite(), the interrupt handler uartintr(),  *)
(* and the device.                                                         *)
(*                                                                         *)
(* cons.lock is kept while consolewrite() calls uartputc(), and so is      *)
(* recorded; uart_tx_lock is released by the step that takes it.  A byte   *)
(* of output is the number of bytes written before it, plus one.           *)
(***************************************************************************)
EXTENDS Integers, Sequences, FiniteSets, Functions

CONSTANTS
  Readers, Writers,  \* processes
  INPUT_BUF,         \* size of cons.buf
  UINT,              \* r, w and e are uint: they wrap at UINT (2^32)
  InStart,           \* r, w and e when the behaviour starts
  TX_SIZE,           \* UART_TX_BUF_SIZE
  TxStart,           \* uart_tx_w and uart_tx_r when the behaviour starts
  MAXN,              \* bound: bytes asked for in one call
  MAXKEYS,           \* bound: characters typed
  MAXOUT,            \* bound: bytes written by all calls
  MayKill,           \* processes kill() may be called for
  MayFault           \* processes whose buffer may be a bad address

ASSUME ConsoleAssumption ==
  /\ INPUT_BUF \in Nat \ {0} /\ UINT \in Nat
  /\ UINT % INPUT_BUF = 0 /\ INPUT_BUF < UINT /\ InStart \in 0 .. UINT - 1
  /\ TX_SIZE \in Nat \ {0, 1} /\ TxStart \in 0 .. TX_SIZE - 1
  /\ MAXN \in Nat \ {0} /\ MAXKEYS \in Nat /\ MAXOUT \in Nat
  /\ MayKill \subseteq Readers /\ MayFault \subseteq Readers \cup Writers

Proc == Readers \cup Writers

\* What is typed: a character, return, newline, end-of-file (control-D),
\* backspace, kill-line (control-U) and what is not stored (0, control-P).
Key == {"x", "cr", "nl", "eof", "bs", "kill", "other"}
Char == {"x", "nl", "eof"}

VARIABLES
  buf, r, w, e,            \* cons
  lock,                    \* {} or the holder of cons.lock
  tx, tx_w, tx_r,          \* uart_tx_buf and its indices
  busy,                    \* LSR_TX_IDLE is clear: a byte is being sent
  rx,                      \* <<>> or the character waiting in RHR
  irq,                     \* the UART's interrupt is pending
  handler,                 \* uartintr(): not running, input loop
  pc, want, got,           \* where a process is, its n, and whether target > n
  killed,
  typed, written, sent,    \* history: keys typed; bytes written; bytes sent
  panicked                 \* panic("sched locks")

invars  == <<buf, r, w, e>>
outvars == <<tx, tx_w, tx_r, busy, sent>>
devvars == <<rx, irq, handler, typed>>
procvars == <<want, got, killed>>
vars == <<invars, outvars, devvars, procvars, lock, pc, written, panicked>>

TypeOK ==
  /\ buf \in [0 .. INPUT_BUF - 1 -> Char \cup {"none"}]
  /\ {r, w, e} \subseteq 0 .. UINT - 1
  /\ lock \subseteq Proc /\ Cardinality(lock) <= 1
  /\ tx \in [0 .. TX_SIZE - 1 -> Nat]
  /\ {tx_w, tx_r} \subseteq 0 .. TX_SIZE - 1
  /\ busy \in BOOLEAN /\ irq \in BOOLEAN /\ panicked \in BOOLEAN
  /\ rx \in {<<>>} \cup {<<c>> : c \in Key}
  /\ handler \in {"off", "rx"}
  /\ pc \in [Proc -> {"idle", "r_lock", "r_loop", "r_sleep", "r_asleep",
                      "w_lock", "w_loop"}]
  /\ want \in [Proc -> 0 .. MAXN] /\ got \in [Proc -> BOOLEAN]
  /\ killed \in [Proc -> BOOLEAN]
  /\ {typed, written, sent} \subseteq Nat

Init ==
  /\ buf = [i \in 0 .. INPUT_BUF - 1 |-> "none"]
  /\ r = InStart /\ w = InStart /\ e = InStart
  /\ lock = {}
  /\ tx = [i \in 0 .. TX_SIZE - 1 |-> 0]
  /\ tx_w = TxStart /\ tx_r = TxStart
  /\ busy = FALSE /\ rx = <<>> /\ irq = FALSE /\ handler = "off"
  /\ pc = [p \in Proc |-> "idle"]
  /\ want = [p \in Proc |-> 0] /\ got = [p \in Proc |-> FALSE]
  /\ killed = [p \in Proc |-> FALSE]
  /\ typed = 0 /\ written = 0 /\ sent = 0
  /\ panicked = FALSE

Goto(p, l) == pc' = [pc EXCEPT ![p] = l]
InBuf(k) == (k % UINT) % INPUT_BUF

-----------------------------------------------------------------------------
(* consoleread().                                                          *)

consoleread(p, n) ==
  /\ ~panicked
  /\ p \in Readers /\ pc[p] = "idle" /\ ~killed[p]
  /\ want' = [want EXCEPT ![p] = n]
  /\ got' = [got EXCEPT ![p] = FALSE]
  /\ Goto(p, "r_lock")
  /\ UNCHANGED <<invars, outvars, devvars, killed, lock, written, panicked>>

read_acquire(p) ==
  /\ ~panicked
  /\ pc[p] = "r_lock" /\ lock = {}
  /\ lock' = {p}
  /\ Goto(p, "r_loop")
  /\ UNCHANGED <<invars, outvars, devvars, procvars, written, panicked>>

\* No input: give up, or sleep on cons.r.
read_empty(p) ==
  /\ ~panicked
  /\ pc[p] = "r_loop" /\ r = w
  /\ \/ killed[p] /\ lock' = {} /\ Goto(p, "idle") /\ want' = [want EXCEPT ![p] = 0]
     \/ ~killed[p] /\ Goto(p, "r_sleep") /\ UNCHANGED <<lock, want>>
  /\ UNCHANGED <<invars, outvars, devvars, got, killed, written, panicked>>

\* sleep() releases cons.lock and, when woken, takes it again.
sleep(p) ==
  /\ ~panicked
  /\ pc[p] = "r_sleep"
  /\ lock' = {}
  /\ Goto(p, "r_asleep")
  /\ UNCHANGED <<invars, outvars, devvars, procvars, written, panicked>>

\* One character.  An end-of-file that is not the first is left for the next
\* call; a newline, or the n-th character, ends this one, and so does a bad
\* address, which loses the character.
read_char(p) ==
  LET c == buf[InBuf(r)] IN
  /\ ~panicked
  /\ pc[p] = "r_loop" /\ r # w
  /\ r' = IF c = "eof" /\ got[p] THEN r ELSE (r + 1) % UINT
  /\ \/ /\ c # "eof"
        /\ want' = [want EXCEPT ![p] = @ - 1]
        /\ got' = [got EXCEPT ![p] = TRUE]
        /\ IF c = "nl" \/ want'[p] = 0
           THEN lock' = {} /\ Goto(p, "idle")
           ELSE UNCHANGED <<lock, pc>>
     \/ /\ c = "eof" \/ p \in MayFault
        /\ lock' = {} /\ Goto(p, "idle")
        /\ want' = [want EXCEPT ![p] = 0]
        /\ UNCHANGED got
  /\ UNCHANGED <<buf, w, e, outvars, devvars, killed, written, panicked>>

\* kill() wakes a process that sleeps in consoleread().
kill(p) ==
  /\ ~panicked
  /\ p \in MayKill /\ ~killed[p]
  /\ killed' = [killed EXCEPT ![p] = TRUE]
  /\ pc' = [pc EXCEPT ![p] = IF @ = "r_asleep" THEN "r_lock" ELSE @]
  /\ UNCHANGED <<invars, outvars, devvars, want, got, lock, written, panicked>>

-----------------------------------------------------------------------------
(* consolewrite().                                                         *)

\* The bound MAXOUT leaves n bytes, next to those that other calls will write.
Bounded(n) == written + FoldFunctionOnSet(+, 0, want, Writers) + n <= MAXOUT

consolewrite(p, n) ==
  /\ ~panicked
  /\ p \in Writers /\ pc[p] = "idle" /\ Bounded(n)
  /\ want' = [want EXCEPT ![p] = n]
  /\ Goto(p, "w_lock")
  /\ UNCHANGED <<invars, outvars, devvars, got, killed, lock, written, panicked>>

write_acquire(p) ==
  /\ ~panicked
  /\ pc[p] = "w_lock" /\ lock = {}
  /\ lock' = {p}
  /\ Goto(p, "w_loop")
  /\ UNCHANGED <<invars, outvars, devvars, procvars, written, panicked>>

\* uartstart() with the buffer t and indices from tr to tw: send a byte if the
\* UART is idle.  It is then busy, which ends the loop.
UartStart(t, tw, tr) ==
  IF tw = tr \/ busy
  THEN tx_r' = tr /\ UNCHANGED <<busy, sent>>
  ELSE tx_r' = (tr + 1) % TX_SIZE /\ busy' = TRUE /\ sent' = t[tr]

TxFull == (tx_w + 1) % TX_SIZE = tx_r

\* uartputc() of one byte.  When the buffer is full it calls sleep() while
\* consolewrite() holds cons.lock, and sched() panics.
uartputc(p) ==
  /\ ~panicked
  /\ pc[p] = "w_loop" /\ want[p] > 0
  /\ \/ /\ TxFull
        /\ panicked' = TRUE
        /\ UNCHANGED <<outvars, written, want>>
     \/ /\ ~TxFull
        /\ tx' = [tx EXCEPT ![tx_w] = written + 1]
        /\ tx_w' = (tx_w + 1) % TX_SIZE
        /\ UartStart(tx', tx_w', tx_r)
        /\ written' = written + 1
        /\ want' = [want EXCEPT ![p] = @ - 1]
        /\ UNCHANGED panicked
  /\ UNCHANGED <<invars, devvars, got, killed, lock, pc>>

\* Everything is written, or the next byte is at a bad address.
write_return(p) ==
  /\ ~panicked
  /\ pc[p] = "w_loop" /\ (want[p] = 0 \/ p \in MayFault)
  /\ lock' = {}
  /\ Goto(p, "idle")
  /\ want' = [want EXCEPT ![p] = 0]
  /\ UNCHANGED <<invars, outvars, devvars, got, killed, written, panicked>>

-----------------------------------------------------------------------------
(* uartintr() and consoleintr().                                           *)

\* The interrupt is taken.
uartintr ==
  /\ ~panicked
  /\ handler = "off" /\ irq
  /\ handler' = "rx" /\ irq' = FALSE
  /\ UNCHANGED <<invars, outvars, rx, typed, procvars, lock, pc, written, panicked>>

\* A return is stored as a newline.
Stored(c) == IF c = "cr" THEN "nl" ELSE c

\* Fault: only the end of a line wakes up consoleread().
Store_line_only(c) ==
  IF (e - r) % UINT < INPUT_BUF
  THEN /\ buf' = [buf EXCEPT ![InBuf(e)] = c]
       /\ e' = (e + 1) % UINT
       /\ w' = IF c \in {"nl", "eof"} \/ e' = (r + INPUT_BUF) % UINT THEN e' ELSE w
       /\ pc' = [p \in Proc |-> IF pc[p] = "r_asleep" /\ c \in {"nl", "eof"}
                               THEN "r_lock" ELSE pc[p]]
  ELSE UNCHANGED <<buf, e, w, pc>>

\* Fault: a full buffer takes one more character.
Store_over(c) ==
  IF (e - r) % UINT <= INPUT_BUF
  THEN /\ buf' = [buf EXCEPT ![InBuf(e)] = c]
       /\ e' = (e + 1) % UINT
       /\ IF c \in {"nl", "eof"} \/ e' = (r + INPUT_BUF) % UINT
          THEN /\ w' = e'
               /\ pc' = [p \in Proc |-> IF pc[p] = "r_asleep" THEN "r_lock" ELSE pc[p]]
          ELSE UNCHANGED <<w, pc>>
  ELSE UNCHANGED <<buf, e, w, pc>>

\* Store a character, if there is space for it, and wake up consoleread() at
\* the end of a line or of the space.
Store(c) ==
  IF (e - r) % UINT < INPUT_BUF
  THEN /\ buf' = [buf EXCEPT ![InBuf(e)] = c]
       /\ e' = (e + 1) % UINT
       /\ IF c \in {"nl", "eof"} \/ e' = (r + INPUT_BUF) % UINT
          THEN /\ w' = e'
               /\ pc' = [p \in Proc |-> IF pc[p] = "r_asleep" THEN "r_lock" ELSE pc[p]]
          ELSE UNCHANGED <<w, pc>>
  ELSE UNCHANGED <<buf, e, w, pc>>

\* Kill line: back to the last newline, or to what readers may have.
LineStart ==
  CHOOSE k \in 0 .. (e - w) % UINT :
    /\ \A j \in k + 1 .. (e - w) % UINT : buf[InBuf(w + j - 1)] # "nl"
    /\ k = 0 \/ buf[InBuf(w + k - 1)] = "nl"

\* uartputc_sync() spins until the UART is idle, and makes it busy.
uartputc_sync == ~busy /\ busy' = TRUE

\* consputc() is called for a stored or an erased character (b).  (The three
\* bytes of an erasure, and the erasures of a whole line, are one here.)
Echo(b) == IF b THEN uartputc_sync ELSE UNCHANGED busy

\* The character that is waiting, if any.
uartgetc == IF rx = <<>> THEN "none" ELSE Head(rx)

\* One character of input.
consoleintr ==
  /\ ~panicked
  /\ handler = "rx" /\ uartgetc # "none"
  /\ lock = {}
  /\ \/ /\ uartgetc = "kill"
        /\ e' = (w + LineStart) % UINT
        /\ Echo(e' # e)
        /\ UNCHANGED <<buf, w, pc>>
     \/ /\ uartgetc = "bs"
        /\ e' = IF e # w THEN (e - 1) % UINT ELSE e
        /\ Echo(e' # e)
        /\ UNCHANGED <<buf, w, pc>>
     \/ /\ uartgetc = "other"
        /\ UNCHANGED <<buf, e, w, pc, busy>>
     \/ /\ uartgetc \notin {"kill", "bs", "other"}
        /\ Store(Stored(uartgetc))
        /\ Echo(e' # e)
  /\ rx' = <<>>
  /\ UNCHANGED <<r, tx, tx_w, tx_r, sent, irq, handler, typed, procvars, lock, written, panicked>>

\* Fault: the interrupt is taken to be about input only.
uartintr_input_only ==
  /\ ~panicked
  /\ handler = "rx" /\ uartgetc = "none"
  /\ handler' = "off"
  /\ UNCHANGED <<invars, outvars, rx, irq, typed, procvars, lock, pc, written,
                 panicked>>

\* No more input: send buffered characters.
uartintr_send ==
  /\ ~panicked
  /\ handler = "rx" /\ uartgetc = "none"
  /\ UartStart(tx, tx_w, tx_r)
  /\ handler' = "off"
  /\ UNCHANGED <<invars, tx, tx_w, rx, irq, typed, procvars, lock, pc, written,
                 panicked>>

-----------------------------------------------------------------------------
(* The UART, as the driver uses it.                                        *)

\* A key is typed.
device_receive(c) ==
  /\ ~panicked
  /\ rx = <<>> /\ typed < MAXKEYS
  /\ rx' = <<c>> /\ irq' = TRUE
  /\ typed' = typed + 1
  /\ UNCHANGED <<invars, outvars, handler, procvars, lock, pc, written, panicked>>

\* The byte has been sent, and the UART is ready for a new one.
device_sent ==
  /\ ~panicked
  /\ busy
  /\ busy' = FALSE /\ irq' = TRUE
  /\ UNCHANGED <<invars, tx, tx_w, tx_r, sent, rx, handler, typed, procvars, lock,
                 pc, written, panicked>>

-----------------------------------------------------------------------------

CallStep(p) ==
  \/ read_acquire(p) \/ read_empty(p) \/ sleep(p) \/ read_char(p)
  \/ write_acquire(p) \/ uartputc(p) \/ write_return(p)

Handler == uartintr \/ consoleintr \/ uartintr_send

Next ==
  \/ \E p \in Proc : \/ CallStep(p) \/ kill(p)
                     \/ \E n \in 1 .. MAXN : consoleread(p, n) \/ consolewrite(p, n)
  \/ Handler
  \/ device_sent \/ \E c \in Key : device_receive(c)

Spec == Init /\ [][Next]_vars

-----------------------------------------------------------------------------
(* Properties.                                                             *)

Slice(from, to) == [i \in 1 .. (to - from) % UINT |-> buf[InBuf(from + i - 1)]]

LI == INSTANCE LineInput WITH
        EndsLine <- {"nl", "eof"}, Size <- INPUT_BUF,
        line <- Slice(w, e), ready <- Slice(r, w)

\* cons.buf with its three wrapping indices implements an editable line and a
\* queue of complete input: readers get what was typed and not erased, once
\* and in order, whatever the interleaving of typing and reading.
LineDiscipline == LI!Spec

\* "wake up consoleread() if a whole line has arrived": while cons.lock is
\* free, a process sleeps in consoleread() only if there is nothing to read.
ReaderSleepsOnEmpty ==
  lock = {} => \A p \in Proc : pc[p] = "r_asleep" => r = w

\* Bytes leave in the order in which they were written, across the wrap of
\* uart_tx_buf and from the writer's and the handler's uartstart() alike.
\* uart.c: "it will interrupt when it's ready for a new byte": while bytes wait
\* in the transmit buffer, the UART is sending, so that its interrupt is still
\* to come, or an interrupt has yet to call uartstart().  Nobody has to write
\* again for them to leave.
OutputFlows ==
  /\ sent + ((tx_w - tx_r) % TX_SIZE) = written
  /\ \A k \in 0 .. ((tx_w - tx_r) % TX_SIZE) - 1 : tx[(tx_r + k) % TX_SIZE] = sent + k + 1
  /\ tx_w # tx_r => busy \/ irq \/ handler = "rx"

\* uart.c, uartputc() "blocks if the output buffer is full": it does not panic.
PutcBlocks == ~panicked
=============================================================================
