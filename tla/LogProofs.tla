----------------------------- MODULE LogProofs ------------------------------
(***************************************************************************)
(* The results about module Log, for any number of threads, blocks and     *)
(* values and any log geometry with Slack: the log never panics and never  *)
(* outgrows its place on disk, it follows the write-ahead rule, and it     *)
(* implements CrashSafeDisk.  The inductive invariant comes first, then    *)
(* that each step preserves its control part (types, counts, locked        *)
(* buffers, headers and pins), then its data and space part.               *)
(***************************************************************************)
EXTENDS Log, FiniteSetTheorems, TLAPS

USE ZenonT(120)

-----------------------------------------------------------------------------
(* The inductive invariant.                                                *)

CommitPhases == {"write_log", "write_head", "install", "clear", "done"}
Injective(h) == \A i, j \in DOMAIN h : h[i] = h[j] => i = j

\* Who may be where: system calls run only while no commit or recovery does.
ControlInv ==
  /\ outstanding = Cardinality(Active)
  /\ committing <=> phase \in CommitPhases
  /\ phase # "idle" => Active = {}
  /\ ~panicked

\* A locked buffer is cached and has one holder, inside bread() .. brelse().
BufInv ==
  /\ \A p \in Proc : buf[p] # NoBlock <=> pc[p] \in {"locked", "append", "logged"}
  /\ \A p, q \in Proc : buf[p] = buf[q] /\ buf[p] # NoBlock => p = q
  /\ \A p \in Proc : buf[p] # NoBlock => cache[buf[p]] # NoBlock

\* The in-memory and the on-disk header, in each phase.
HeadInv ==
  /\ Injective(lh)
  /\ Injective(dhead)
  /\ phase \in {"idle", "write_log", "write_head", "done"} => dhead = <<>>
  /\ phase \in {"install", "clear", "rec_install", "rec_clear"} => dhead = lh
  /\ phase \in {"done", "read_head"} => lh = <<>>
  /\ phase = "write_head" => lh # <<>>
  /\ IF phase \in {"write_log", "install", "rec_install"}
       THEN tail \in 1 .. Len(lh)
       ELSE tail = 1

\* Between transactions nothing is left over for a later one.
QuietInv == phase = "idle" /\ Active = {} => lh = <<>>

\* log_write() pins a block, install_trans() unpins it.
PinInv ==
  /\ phase \in {"idle", "write_log", "write_head"} => pinned = BlocksIn(lh)
  /\ phase = "install" => pinned = {lh[i] : i \in tail .. Len(lh)}
  /\ phase \in {"clear", "done"} \/ Recovering => pinned = {}
  /\ \A b \in pinned : cache[b] # NoBlock

\* Torn contents are never read: a torn log block is not named by the header,
\* and a torn home block is.
TornInv ==
  /\ \A b \in Block : b \notin BlocksIn(dhead) => disk[b] \in Val
  /\ \A i \in DOMAIN dhead : dlog[i] \in Val
  /\ \A b \in Block : cache[b] \in Val \cup {NoBlock}

\* A cached block that differs from the disk is in the log, or about to be.
CleanInv ==
  /\ \A b \in Block :
       \/ cache[b] \in {NoBlock, disk[b]}
       \/ b \in BlocksIn(lh) /\ ~Recovering
       \/ \E p \in Proc : pc[p] = "append" /\ buf[p] = b

\* How far the copies cache -> log -> home have come.
CopyInv ==
  /\ phase = "write_log" => \A i \in 1 .. tail - 1 : dlog[i] = cache[lh[i]]
  /\ phase = "write_head" => \A i \in 1 .. Len(lh) : dlog[i] = cache[lh[i]]
  /\ phase = "install" =>
       /\ \A i \in tail .. Len(lh) : cache[lh[i]] = dlog[i]
       /\ \A i \in 1 .. tail - 1 : cache[lh[i]] \in {NoBlock, dlog[i]}
  /\ phase \in {"install", "rec_install"} =>
       \A i \in 1 .. tail - 1 : disk[lh[i]] = dlog[i]
  /\ phase \in {"clear", "rec_clear"} =>
       \A i \in 1 .. Len(lh) : disk[lh[i]] = dlog[i]
  /\ phase = "clear" => \A i \in 1 .. Len(lh) : cache[lh[i]] \in {NoBlock, dlog[i]}

\* The blocks a thread may still log, as a set so that it can be counted.
UnusedBy(A, w) == {t \in Proc \X (1 .. MAXOPBLOCKS) :
                     t[1] \in A /\ t[2] > Cardinality(w[t[1]])}
Unused == UnusedBy(Active, wrote)

\* Each running system call still owns the unused part of its reservation.
SpaceInv ==
  /\ \A p \in Proc : /\ IsFiniteSet(wrote[p])
                     /\ Cardinality(wrote[p]) <= OPBLOCKS
                     /\ p \in Active => wrote[p] \subseteq BlocksIn(lh)
                     /\ p \notin Active => wrote[p] = {}
                     /\ pc[p] = "append" =>
                          Cardinality(wrote[p] \cup {buf[p]}) <= OPBLOCKS
  /\ phase = "idle" => Len(lh) + Cardinality(Unused) <= LOGSIZE
  /\ Len(lh) <= NLOG - 1
  /\ Len(dhead) <= NLOG - 1

IInv == /\ TypeOK /\ ControlInv /\ BufInv /\ HeadInv /\ QuietInv
        /\ PinInv /\ TornInv /\ CleanInv /\ CopyInv /\ SpaceInv

-----------------------------------------------------------------------------
(* Facts about the operators the model is built from.                      *)

LEMMA ActiveCount ==
  /\ IsFiniteSet(Active)
  /\ Cardinality(Active) \in Nat
  /\ \A p \in Active : Cardinality(Active) > 0
<1>1. IsFiniteSet(Active)
  BY ConstAssumption, FS_Subset DEF Active
<1>2. Cardinality(Active) \in Nat
  BY <1>1, FS_CardinalityType
<1>3. \A p \in Active : Cardinality(Active) # 0
  BY <1>1, FS_EmptySet
<1> QED
  BY SMTT(60), <1>1, <1>2, <1>3

LEMMA AppendFacts ==
  ASSUME NEW h \in Seq(Block), NEW b \in Block
  PROVE  /\ BlocksIn(Append(h, b)) = BlocksIn(h) \cup {b}
         /\ Injective(h) /\ b \notin BlocksIn(h) => Injective(Append(h, b))
<1>1. /\ Len(Append(h, b)) = Len(h) + 1
      /\ DOMAIN Append(h, b) = 1 .. Len(h) + 1
      /\ DOMAIN h = 1 .. Len(h)
      /\ Append(h, b)[Len(h) + 1] = b
      /\ \A i \in 1 .. Len(h) : Append(h, b)[i] = h[i]
  BY SMTT(60)
<1>2. BlocksIn(Append(h, b)) = BlocksIn(h) \cup {b}
  BY SMTT(60), <1>1 DEF BlocksIn
<1>3. ASSUME Injective(h), b \notin BlocksIn(h) PROVE Injective(Append(h, b))
  BY SMTT(60), <1>3 DEF Injective, BlocksIn
<1> QED
  BY <1>2, <1>3

LEMMA BreadType ==
  ASSUME TypeOK, NEW b \in Block
  PROVE  bread(b) \in Data
BY DEF TypeOK, bread

LEMMA LoopIndex ==
  ASSUME TypeOK, HeadInv, SpaceInv, phase \in {"write_log", "install", "rec_install"}
  PROVE  /\ tail \in 1 .. Len(lh)
         /\ tail \in 1 .. NLOG - 1
         /\ lh[tail] \in Block
BY SMTT(60), ConstAssumption DEF TypeOK, HeadInv, SpaceInv

LEMMA UnusedCount ==
  ASSUME NEW A \in SUBSET Proc, NEW w
  PROVE  /\ IsFiniteSet(UnusedBy(A, w))
         /\ Cardinality(UnusedBy(A, w)) \in Nat
         /\ Cardinality(UnusedBy(A, w)) <= Cardinality(A) * MAXOPBLOCKS
<1>1. IsFiniteSet(1 .. MAXOPBLOCKS) /\ Cardinality(1 .. MAXOPBLOCKS) = MAXOPBLOCKS
  BY SMTT(60), ConstAssumption, FS_Interval
<1>2. IsFiniteSet(A)
  BY ConstAssumption, FS_Subset
<1>3. /\ IsFiniteSet(A \X (1 .. MAXOPBLOCKS))
      /\ Cardinality(A \X (1 .. MAXOPBLOCKS)) = Cardinality(A) * MAXOPBLOCKS
  BY <1>1, <1>2, FS_Product
<1>4. UnusedBy(A, w) \subseteq A \X (1 .. MAXOPBLOCKS)
  BY DEF UnusedBy
<1> QED
  BY <1>3, <1>4, FS_Subset, FS_CardinalityType

LEMMA UnusedRoom ==
  ASSUME NEW A \in SUBSET Proc, NEW w, NEW p \in A,
         IsFiniteSet(w[p]), Cardinality(w[p]) <= OPBLOCKS
  PROVE  Cardinality(UnusedBy(A, w)) >= MAXOPBLOCKS - OPBLOCKS
<1> DEFINE T == {p} \X (OPBLOCKS + 1 .. MAXOPBLOCKS)
<1>1. /\ IsFiniteSet(OPBLOCKS + 1 .. MAXOPBLOCKS)
      /\ Cardinality(OPBLOCKS + 1 .. MAXOPBLOCKS) = MAXOPBLOCKS - OPBLOCKS
  BY SMTT(60), ConstAssumption, FS_Interval
<1>2. Cardinality(T) = 1 * (MAXOPBLOCKS - OPBLOCKS)
  <2>1. IsFiniteSet({p}) /\ Cardinality({p}) = 1
    BY FS_Singleton
  <2> QED
    BY <1>1, <2>1, FS_Product
<1>3. Cardinality(w[p]) \in Nat
  BY FS_CardinalityType
<1>4. T \subseteq UnusedBy(A, w)
  BY SMTT(60), <1>3, ConstAssumption DEF UnusedBy
<1>5. Cardinality(T) <= Cardinality(UnusedBy(A, w))
  BY <1>4, UnusedCount, FS_Subset
<1> QED
  BY SMTT(60), <1>2, <1>5, ConstAssumption

LEMMA RoomToLog ==
  ASSUME Slack, TypeOK, ControlInv, SpaceInv, NEW p \in Active
  PROVE  Len(lh) < LOGSIZE /\ Len(lh) < NLOG - 1
<1>1. p \in Proc /\ Active \in SUBSET Proc /\ phase = "idle"
  BY DEF Active, ControlInv
<1>2. Cardinality(Unused) >= MAXOPBLOCKS - OPBLOCKS
  BY <1>1, UnusedRoom DEF SpaceInv, Unused
<1>3. Len(lh) + Cardinality(Unused) <= LOGSIZE /\ Cardinality(Unused) \in Nat
  BY <1>1, UnusedCount DEF SpaceInv, Unused
<1> QED
  BY SMTT(60), <1>2, <1>3, ConstAssumption DEF Slack

-----------------------------------------------------------------------------
(* Every step preserves the control part of the invariant.                 *)

LEMMA TypeStep ==
  ASSUME Slack, IInv, [Next]_vars
  PROVE  TypeOK'
<1>1. ASSUME NEW p \in Proc, begin_op(p) PROVE TypeOK'
  <2>1. outstanding + 1 \in Nat
    BY SMTT(60) DEF IInv, TypeOK
  <2>2. outstanding' \in Nat
    BY <1>1, <2>1 DEF IInv, TypeOK, begin_op
  <2>3. pc' \in [Proc -> InOp \cup {"idle", "asleep", "woken", "commit"}]
    BY <1>1 DEF IInv, TypeOK, InOp, begin_op
  <2> QED
    BY <1>1, <2>2, <2>3 DEF IInv, TypeOK, begin_op, diskvars, bufvars, opvars
<1>2. ASSUME NEW p \in Proc, NEW b \in Block, op_bread(p, b) PROVE TypeOK'
  BY <1>2, BreadType DEF IInv, TypeOK, InOp, op_bread, diskvars, logvars
<1>3. ASSUME NEW p \in Proc, NEW v \in Val, log_write_check(p, v) PROVE TypeOK'
  BY <1>3, ConstAssumption DEF IInv, TypeOK, InOp, Data, log_write_check,
     diskvars, logvars, opvars, BufInv
<1>4. ASSUME NEW p \in Proc, log_write_append(p) PROVE TypeOK'
  <2>1. buf[p] \in Block
    BY <1>4 DEF IInv, TypeOK, BufInv, log_write_append
  <2>2. Append(lh, buf[p]) \in Seq(Block)
    BY SMTT(60), <2>1 DEF IInv, TypeOK
  <2>3. wrote' \in [Proc -> SUBSET Block]
    BY <1>4, <2>1 DEF IInv, TypeOK, log_write_append
  <2> QED
    BY <1>4, <2>2, <2>3 DEF IInv, TypeOK, InOp, log_write_append, diskvars
<1>5. ASSUME NEW p \in Proc, op_brelse(p) PROVE TypeOK'
  BY <1>5 DEF IInv, TypeOK, InOp, op_brelse, diskvars, logvars, bufvars
<1>6. ASSUME NEW p \in Proc, end_op(p) PROVE TypeOK'
  <2>1. outstanding - 1 \in Nat
    <3>1. p \in Active /\ outstanding = Cardinality(Active)
      BY <1>6 DEF IInv, ControlInv, Active, InOp, end_op
    <3>2. outstanding \in Nat /\ outstanding > 0
      BY <3>1, ActiveCount
    <3> QED
      BY SMTT(60), <3>2
  <2>2. [Woken EXCEPT ![p] = "idle"] \in [Proc -> InOp \cup {"idle", "asleep", "woken", "commit"}]
    BY DEF IInv, TypeOK, Woken
  <2> QED
    BY <1>6, <2>1, <2>2 DEF IInv, TypeOK, end_op, diskvars, bufvars
<1>7. ASSUME NEW p \in Proc, end_commit(p) PROVE TypeOK'
  BY <1>7 DEF IInv, TypeOK, end_commit, diskvars, bufvars, opvars, Woken
<1>8. CASE write_log
  <2>1. lh[tail] \in Block /\ bread(lh[tail]) \in Data /\ tail \in 1 .. NLOG - 1
    BY <1>8, LoopIndex, BreadType DEF IInv, write_log
  <2>2. tail' \in Nat \ {0}
    <3>1. 1 \in Nat \ {0} /\ tail + 1 \in Nat \ {0}
      BY SMTT(60) DEF IInv, TypeOK
    <3> QED
      BY <1>8, <3>1 DEF write_log, LoopStep
  <2>3. dlog' \in [1 .. NLOG - 1 -> Data] /\ cache' \in [Block -> Data \cup {NoBlock}]
    BY <1>8, <2>1 DEF IInv, TypeOK, write_log
  <2> QED
    BY <1>8, <2>2, <2>3 DEF IInv, TypeOK, write_log, logvars, opvars, LoopStep
<1>9. CASE write_head
  BY <1>9 DEF IInv, TypeOK, write_head, bufvars, logvars, opvars
<1>10. CASE install_trans
  <2>1. lh[tail] \in Block /\ tail \in 1 .. NLOG - 1
    BY <1>10, LoopIndex DEF IInv, install_trans
  <2>2. tail' \in Nat \ {0}
    <3>1. 1 \in Nat \ {0} /\ tail + 1 \in Nat \ {0}
      BY SMTT(60) DEF IInv, TypeOK
    <3> QED
      BY <1>10, <3>1 DEF install_trans, LoopStep
  <2>3. disk' \in [Block -> Data] /\ cache' \in [Block -> Data \cup {NoBlock}]
    BY <1>10, <2>1 DEF IInv, TypeOK, install_trans
  <2>4. pinned' \subseteq Block
    BY <1>10 DEF IInv, TypeOK, install_trans
  <2> QED
    BY <1>10, <2>2, <2>3, <2>4 DEF IInv, TypeOK, install_trans, logvars, opvars, LoopStep
<1>11. CASE clear_head
  <2>1. <<>> \in Seq(Block)
    BY SMTT(60)
  <2> QED
    BY <1>11, <2>1 DEF IInv, TypeOK, clear_head, bufvars, opvars
<1>12. CASE read_head
  BY <1>12 DEF IInv, TypeOK, read_head, diskvars, bufvars, opvars
<1>13. ASSUME NEW b \in Block, Recycle(b) PROVE TypeOK'
  BY <1>13 DEF IInv, TypeOK, Recycle, diskvars, logvars, opvars
<1>14. ASSUME NEW b \in Block, reader_bread(b) PROVE TypeOK'
  BY <1>14, BreadType DEF IInv, TypeOK, reader_bread, diskvars, logvars, opvars
<1>15. CASE Crash
  <2>1. disk' \in [Block -> Data]
    BY <1>15 DEF IInv, TypeOK, Data, Crash
  <2>2. dlog' \in [1 .. NLOG - 1 -> Data]
    BY <1>15 DEF IInv, TypeOK, Data, Crash
  <2>3. /\ lh' \in Seq(Block) /\ dhead' \in Seq(Block)
        /\ wrote' \in [Proc -> SUBSET Block]
    BY SMTT(60), <1>15 DEF IInv, TypeOK, Crash
  <2>4. /\ cache' \in [Block -> Data \cup {NoBlock}] /\ pinned' \subseteq Block
        /\ pc' \in [Proc -> InOp \cup {"idle", "asleep", "woken", "commit"}]
        /\ buf' \in [Proc -> Block \cup {NoBlock}]
    BY <1>15 DEF Crash
  <2>5. outstanding' \in Nat /\ tail' \in Nat \ {0} /\ phase' = "read_head"
    BY SMTT(60), <1>15 DEF Crash
  <2>6. committing' \in BOOLEAN /\ panicked' \in BOOLEAN
    BY <1>15 DEF Crash
  <2> QED
    BY <2>1, <2>2, <2>3, <2>4, <2>5, <2>6 DEF TypeOK
<1>16. CASE UNCHANGED vars
  BY <1>16 DEF IInv, TypeOK, vars
<1> QED
  BY <1>1, <1>2, <1>3, <1>4, <1>5, <1>6, <1>7, <1>8, <1>9, <1>10, <1>11, <1>12,
     <1>13, <1>14, <1>15, <1>16 DEF Next, OpStep, LogStep

LEMMA ControlStep ==
  ASSUME Slack, IInv, [Next]_vars
  PROVE  ControlInv'
<1>1. ASSUME NEW p \in Proc, begin_op(p) PROVE ControlInv'
  <2>1. CASE MustWait
    <3>1. Active' = Active
      BY <1>1, <2>1 DEF IInv, TypeOK, Active, InOp, begin_op
    <3> QED
      BY <1>1, <2>1, <3>1 DEF IInv, ControlInv, begin_op
  <2>2. CASE ~MustWait
    <3>1. Active' = Active \cup {p} /\ p \notin Active
      BY <1>1, <2>2 DEF IInv, TypeOK, Active, InOp, begin_op
    <3>2. Cardinality(Active') = Cardinality(Active) + 1
      BY <3>1, ActiveCount, FS_AddElement
    <3>3. phase = "idle"
      BY <1>1, <2>2 DEF IInv, TypeOK, ControlInv, CommitPhases, MustWait,
         Running, Recovering, begin_op
    <3> QED
      BY <1>1, <2>2, <3>2, <3>3 DEF IInv, ControlInv, CommitPhases, begin_op
  <2> QED
    BY <2>1, <2>2
<1>2. ASSUME NEW p \in Proc, NEW b \in Block, op_bread(p, b) PROVE ControlInv'
  <2>1. Active' = Active
    BY SMTT(60), <1>2 DEF Active, InOp, op_bread
  <2> QED
    BY <1>2, <2>1 DEF IInv, ControlInv, op_bread, logvars
<1>3. ASSUME NEW p \in Proc, NEW v \in Val, log_write_check(p, v) PROVE ControlInv'
  <2>1. Active' = Active /\ p \in Active
    BY <1>3 DEF IInv, TypeOK, Active, InOp, log_write_check
  <2>2. outstanding >= 1
    BY SMTT(60), <2>1, ActiveCount DEF IInv, ControlInv
  <2>3. ~(Len(lh) >= LOGSIZE \/ Len(lh) >= NLOG - 1 \/ outstanding < 1)
    BY SMTT(60), <2>1, <2>2, RoomToLog, ConstAssumption DEF IInv, TypeOK
  <2> QED
    BY <1>3, <2>1, <2>3 DEF IInv, ControlInv, log_write_check, logvars
<1>4. ASSUME NEW p \in Proc, log_write_append(p) PROVE ControlInv'
  <2>1. Active' = Active
    BY SMTT(60), <1>4 DEF Active, InOp, log_write_append
  <2> QED
    BY <1>4, <2>1 DEF IInv, ControlInv, log_write_append
<1>5. ASSUME NEW p \in Proc, op_brelse(p) PROVE ControlInv'
  <2>1. Active' = Active
    BY SMTT(60), <1>5 DEF Active, InOp, op_brelse
  <2> QED
    BY <1>5, <2>1 DEF IInv, ControlInv, op_brelse, logvars
<1>6. ASSUME NEW p \in Proc, end_op(p) PROVE ControlInv'
  <2>1. p \in Active /\ phase = "idle" /\ ~committing
    BY <1>6 DEF IInv, ControlInv, CommitPhases, Active, InOp, end_op
  <2>2. Active' = Active \ {p}
    BY <1>6, <2>1 DEF IInv, TypeOK, Active, InOp, Woken, end_op
  <2>3. Cardinality(Active') = outstanding'
    <3>1. Cardinality(Active \ {p}) = Cardinality(Active) - 1
      BY <2>1, ActiveCount, FS_RemoveElement
    <3> QED
      BY <1>6, <2>2, <3>1 DEF IInv, ControlInv, end_op
  <2>4. outstanding' = 0 => Active' = {}
    BY <2>2, <2>3, ActiveCount, FS_RemoveElement, FS_EmptySet
  <2> QED
    BY SMTT(60), <1>6, <2>1, <2>3, <2>4 DEF IInv, ControlInv, CommitPhases, end_op
<1>7. ASSUME NEW p \in Proc, end_commit(p) PROVE ControlInv'
  <2>1. Active' = Active
    BY <1>7 DEF Active, InOp, end_commit, Woken
  <2> QED
    BY <1>7, <2>1 DEF IInv, ControlInv, CommitPhases, end_commit
<1>8. CASE write_log
  <2>1. Active' = Active
    BY <1>8 DEF Active, write_log
  <2> QED
    BY <1>8, <2>1 DEF IInv, ControlInv, CommitPhases, write_log, logvars, LoopStep
<1>9. CASE write_head
  <2>1. Active' = Active
    BY <1>9 DEF Active, write_head
  <2> QED
    BY <1>9, <2>1 DEF IInv, ControlInv, CommitPhases, write_head, logvars
<1>10. CASE install_trans
  <2>1. Active' = Active
    BY <1>10 DEF Active, install_trans
  <2> QED
    BY <1>10, <2>1 DEF IInv, ControlInv, CommitPhases, install_trans, logvars,
       LoopStep
<1>11. CASE clear_head
  <2>1. Active' = Active
    BY <1>11 DEF Active, clear_head
  <2> QED
    BY <1>11, <2>1 DEF IInv, ControlInv, CommitPhases, clear_head, opvars
<1>12. CASE read_head
  <2>1. Active' = Active
    BY <1>12 DEF Active, read_head
  <2> QED
    BY <1>12, <2>1 DEF IInv, ControlInv, CommitPhases, read_head
<1>13. ASSUME NEW b \in Block, Recycle(b) PROVE ControlInv'
  <2>1. Active' = Active
    BY <1>13 DEF Active, Recycle
  <2> QED
    BY <1>13, <2>1 DEF IInv, ControlInv, Recycle, logvars
<1>14. ASSUME NEW b \in Block, reader_bread(b) PROVE ControlInv'
  <2>1. Active' = Active
    BY <1>14 DEF Active, reader_bread
  <2> QED
    BY <1>14, <2>1 DEF IInv, ControlInv, reader_bread, logvars
<1>15. CASE Crash
  <2>1. Active' = {}
    BY <1>15 DEF Active, InOp, Crash
  <2> QED
    BY <1>15, <2>1, FS_EmptySet DEF ControlInv, CommitPhases, Crash
<1>16. CASE UNCHANGED vars
  <2>1. Active' = Active
    BY <1>16 DEF Active, vars
  <2> QED
    BY <1>16, <2>1 DEF IInv, ControlInv, vars
<1> QED
  BY <1>1, <1>2, <1>3, <1>4, <1>5, <1>6, <1>7, <1>8, <1>9, <1>10, <1>11, <1>12,
     <1>13, <1>14, <1>15, <1>16 DEF Next, OpStep, LogStep

LEMMA BufStep ==
  ASSUME Slack, IInv, [Next]_vars
  PROVE  BufInv'
<1>1. ASSUME NEW p \in Proc, begin_op(p) PROVE BufInv'
  BY <1>1, ConstAssumption DEF IInv, TypeOK, BufInv, InOp, begin_op, diskvars,
     bufvars, opvars
<1>2. ASSUME NEW p \in Proc, NEW b \in Block, op_bread(p, b) PROVE BufInv'
  BY <1>2, BreadType, ConstAssumption DEF IInv, TypeOK, BufInv, InOp, op_bread,
     diskvars, logvars, Data
<1>3. ASSUME NEW p \in Proc, NEW v \in Val, log_write_check(p, v) PROVE BufInv'
  BY <1>3, ConstAssumption DEF IInv, TypeOK, BufInv, InOp, log_write_check,
     diskvars, logvars, opvars
<1>4. ASSUME NEW p \in Proc, log_write_append(p) PROVE BufInv'
  BY SMTT(60), <1>4 DEF IInv, BufInv, log_write_append, diskvars
<1>5. ASSUME NEW p \in Proc, op_brelse(p) PROVE BufInv'
  BY <1>5 DEF IInv, TypeOK, BufInv, op_brelse, bufvars
<1>6. ASSUME NEW p \in Proc, end_op(p) PROVE BufInv'
  <2>1. buf' = buf /\ cache' = cache
    BY <1>6 DEF end_op, bufvars
  <2>2. \A q \in Proc : pc'[q] \in {"locked", "append", "logged"}
                        <=> pc[q] \in {"locked", "append", "logged"}
    BY <1>6 DEF IInv, TypeOK, end_op, Woken
  <2> QED
    BY <2>1, <2>2 DEF IInv, BufInv
<1>7. ASSUME NEW p \in Proc, end_commit(p) PROVE BufInv'
  BY <1>7 DEF IInv, BufInv, end_commit, bufvars, opvars, Woken
<1>8. CASE write_log
  <2>1. lh[tail] \in Block /\ bread(lh[tail]) \in Data
    BY <1>8, LoopIndex, BreadType DEF IInv, write_log
  <2> QED
    BY SMTT(60), <1>8, <2>1, ConstAssumption DEF IInv, BufInv, Data, write_log, opvars
<1>9. CASE write_head
  BY <1>9 DEF IInv, BufInv, write_head, bufvars, opvars
<1>10. CASE install_trans
  <2>1. lh[tail] \in Block /\ dlog[tail] \in Data
    BY <1>10, LoopIndex DEF IInv, TypeOK, install_trans
  <2> QED
    BY SMTT(60), <1>10, <2>1, ConstAssumption DEF IInv, BufInv, Data, install_trans, opvars
<1>11. CASE clear_head
  BY <1>11 DEF IInv, BufInv, clear_head, bufvars, opvars
<1>12. CASE read_head
  BY <1>12 DEF IInv, BufInv, read_head, diskvars, bufvars, opvars
<1>13. ASSUME NEW b \in Block, Recycle(b) PROVE BufInv'
  BY SMTT(60), <1>13 DEF IInv, BufInv, Recycle, diskvars, opvars
<1>14. ASSUME NEW b \in Block, reader_bread(b) PROVE BufInv'
  BY <1>14 DEF IInv, TypeOK, BufInv, reader_bread, opvars, Data
<1>15. CASE Crash
  BY <1>15 DEF BufInv, Crash
<1>16. CASE UNCHANGED vars
  BY <1>16 DEF IInv, BufInv, vars
<1> QED
  BY <1>1, <1>2, <1>3, <1>4, <1>5, <1>6, <1>7, <1>8, <1>9, <1>10, <1>11, <1>12,
     <1>13, <1>14, <1>15, <1>16 DEF Next, OpStep, LogStep

LEMMA HeadStep ==
  ASSUME Slack, IInv, [Next]_vars
  PROVE  HeadInv'
<1>1. ASSUME NEW p \in Proc, begin_op(p) PROVE HeadInv'
  BY <1>1 DEF IInv, HeadInv, begin_op, diskvars, bufvars
<1>2. ASSUME NEW p \in Proc, NEW b \in Block, op_bread(p, b) PROVE HeadInv'
  BY <1>2 DEF IInv, HeadInv, Injective, Recovering, op_bread, diskvars, logvars
<1>3. ASSUME NEW p \in Proc, NEW v \in Val, log_write_check(p, v) PROVE HeadInv'
  BY <1>3 DEF IInv, HeadInv, Injective, Recovering, Running, log_write_check,
     diskvars, logvars
<1>4. ASSUME NEW p \in Proc, log_write_append(p) PROVE HeadInv'
  <2>1. buf[p] \in Block /\ phase = "idle"
    BY <1>4 DEF IInv, TypeOK, BufInv, ControlInv, Active, log_write_append
  <2>2. Injective(lh')
    BY <1>4, <2>1, AppendFacts DEF IInv, TypeOK, HeadInv, log_write_append
  <2> QED
    BY <1>4, <2>1, <2>2 DEF IInv, HeadInv, log_write_append, diskvars
<1>5. ASSUME NEW p \in Proc, op_brelse(p) PROVE HeadInv'
  BY <1>5 DEF IInv, HeadInv, op_brelse, diskvars, logvars, bufvars
<1>6. ASSUME NEW p \in Proc, end_op(p) PROVE HeadInv'
  BY SMTT(60), <1>6 DEF IInv, HeadInv, ControlInv, InOp, Active, end_op, diskvars
<1>7. ASSUME NEW p \in Proc, end_commit(p) PROVE HeadInv'
  BY <1>7 DEF IInv, HeadInv, Injective, end_commit, diskvars, bufvars, opvars
<1>8. CASE write_log
  BY SMTT(60), <1>8 DEF IInv, HeadInv, write_log, logvars, LoopStep
<1>9. CASE write_head
  BY SMTT(60), <1>9 DEF IInv, HeadInv, Injective, write_head, logvars
<1>10. CASE install_trans
  BY SMTT(60), <1>10 DEF IInv, HeadInv, Injective, install_trans, logvars, LoopStep
<1>11. CASE clear_head
  BY SMTT(60), <1>11 DEF IInv, HeadInv, Injective, clear_head
<1>12. CASE read_head
  BY SMTT(60), <1>12 DEF IInv, HeadInv, Injective, read_head, diskvars
<1>13. ASSUME NEW b \in Block, Recycle(b) PROVE HeadInv'
  BY <1>13 DEF IInv, HeadInv, Recycle, diskvars, logvars
<1>14. ASSUME NEW b \in Block, reader_bread(b) PROVE HeadInv'
  BY <1>14 DEF IInv, HeadInv, Recovering, Running, reader_bread, diskvars, logvars
<1>15. CASE Crash
  BY SMTT(60), <1>15 DEF IInv, HeadInv, Injective, Crash
<1>16. CASE UNCHANGED vars
  BY <1>16 DEF IInv, HeadInv, Injective, vars
<1> QED
  BY <1>1, <1>2, <1>3, <1>4, <1>5, <1>6, <1>7, <1>8, <1>9, <1>10, <1>11, <1>12,
     <1>13, <1>14, <1>15, <1>16 DEF Next, OpStep, LogStep

LEMMA QuietStep ==
  ASSUME Slack, IInv, [Next]_vars
  PROVE  QuietInv'
<1>1. ASSUME NEW p \in Proc, begin_op(p) PROVE QuietInv'
  <2>1. CASE MustWait
    BY <1>1 DEF IInv, TypeOK, QuietInv, Active, InOp, begin_op
  <2>2. CASE ~MustWait
    BY <1>1 DEF IInv, TypeOK, QuietInv, Active, InOp, begin_op
  <2> QED
    BY <2>1, <2>2
<1>2. ASSUME NEW p \in Proc, NEW b \in Block, op_bread(p, b) PROVE QuietInv'
  BY SMTT(60), <1>2 DEF QuietInv, Active, InOp, op_bread
<1>3. ASSUME NEW p \in Proc, NEW v \in Val, log_write_check(p, v) PROVE QuietInv'
  BY <1>3 DEF IInv, TypeOK, QuietInv, Active, InOp, log_write_check
<1>4. ASSUME NEW p \in Proc, log_write_append(p) PROVE QuietInv'
  BY SMTT(60), <1>4 DEF QuietInv, Active, InOp, log_write_append
<1>5. ASSUME NEW p \in Proc, op_brelse(p) PROVE QuietInv'
  BY SMTT(60), <1>5 DEF QuietInv, Active, InOp, op_brelse
<1>6. ASSUME NEW p \in Proc, end_op(p) PROVE QuietInv'
  <2>1. CASE outstanding' = 0
    BY <1>6, <2>1, ControlStep DEF QuietInv, ControlInv, end_op
  <2>2. CASE outstanding' # 0
    BY <2>2, ControlStep, FS_EmptySet DEF ControlInv, QuietInv
  <2> QED
    BY <2>1, <2>2
<1>7. ASSUME NEW p \in Proc, end_commit(p) PROVE QuietInv'
  BY <1>7 DEF IInv, HeadInv, QuietInv, end_commit
<1>8. CASE write_log
  BY <1>8 DEF QuietInv, write_log, opvars, LoopStep
<1>9. CASE write_head
  BY <1>9 DEF QuietInv, write_head
<1>10. CASE install_trans
  BY <1>10 DEF QuietInv, install_trans, LoopStep
<1>11. CASE clear_head
  BY <1>11 DEF QuietInv, clear_head
<1>12. CASE read_head
  BY <1>12 DEF QuietInv, read_head
<1>13. ASSUME NEW b \in Block, Recycle(b) PROVE QuietInv'
  BY <1>13 DEF IInv, QuietInv, Active, Recycle, logvars
<1>14. ASSUME NEW b \in Block, reader_bread(b) PROVE QuietInv'
  BY <1>14 DEF IInv, QuietInv, Active, reader_bread, logvars
<1>15. CASE Crash
  BY <1>15 DEF QuietInv, Crash
<1>16. CASE UNCHANGED vars
  BY <1>16 DEF IInv, QuietInv, Active, vars
<1> QED
  BY <1>1, <1>2, <1>3, <1>4, <1>5, <1>6, <1>7, <1>8, <1>9, <1>10, <1>11, <1>12,
     <1>13, <1>14, <1>15, <1>16 DEF Next, OpStep, LogStep

LEMMA PinStep ==
  ASSUME Slack, IInv, [Next]_vars
  PROVE  PinInv'
<1>1. ASSUME NEW p \in Proc, begin_op(p) PROVE PinInv'
  BY <1>1 DEF IInv, PinInv, Recovering, begin_op, bufvars
<1>2. ASSUME NEW p \in Proc, NEW b \in Block, op_bread(p, b) PROVE PinInv'
  <2>1. b \in Block /\ bread(b) # NoBlock
    BY BreadType, ConstAssumption DEF IInv, Data
  <2>2. \A c \in pinned' : cache'[c] # NoBlock
    BY SMTT(60), <1>2, <2>1 DEF IInv, PinInv, op_bread
  <2> QED
    BY <1>2, <2>2 DEF IInv, PinInv, Recovering, op_bread, logvars
<1>3. ASSUME NEW p \in Proc, NEW v \in Val, log_write_check(p, v) PROVE PinInv'
  BY SMTT(60), <1>3, ConstAssumption DEF IInv, PinInv, Recovering, BlocksIn,
     log_write_check, logvars, opvars
<1>4. ASSUME NEW p \in Proc, log_write_append(p) PROVE PinInv'
  <2>1. buf[p] \in Block /\ phase = "idle" /\ cache[buf[p]] # NoBlock
    BY <1>4 DEF IInv, TypeOK, BufInv, ControlInv, Active, InOp, log_write_append
  <2>2. pinned' = BlocksIn(lh')
    BY <1>4, <2>1, AppendFacts DEF IInv, TypeOK, PinInv, log_write_append
  <2> QED
    BY <1>4, <2>1, <2>2 DEF IInv, PinInv, Recovering, log_write_append
<1>5. ASSUME NEW p \in Proc, op_brelse(p) PROVE PinInv'
  BY <1>5 DEF IInv, PinInv, Recovering, Running, BlocksIn, op_brelse, diskvars,
     logvars, bufvars
<1>6. ASSUME NEW p \in Proc, end_op(p) PROVE PinInv'
  BY SMTT(60), <1>6 DEF IInv, ControlInv, PinInv, InOp, Active, Recovering, BlocksIn,
     end_op, bufvars
<1>7. ASSUME NEW p \in Proc, end_commit(p) PROVE PinInv'
  BY SMTT(60), <1>7 DEF IInv, HeadInv, PinInv, BlocksIn, end_commit, bufvars, opvars, Woken
<1>8. CASE write_log
  <2>1. lh[tail] \in Block /\ bread(lh[tail]) # NoBlock
    BY <1>8, LoopIndex, BreadType, ConstAssumption DEF IInv, Data, write_log
  <2>2. \A c \in pinned' : cache'[c] # NoBlock
    BY SMTT(60), <1>8, <2>1 DEF IInv, PinInv, write_log
  <2> QED
    BY <1>8, <2>2 DEF IInv, PinInv, Recovering, write_log, logvars, LoopStep
<1>9. CASE write_head
  BY SMTT(60), <1>9 DEF IInv, HeadInv, PinInv, Recovering, BlocksIn, write_head, bufvars,
     logvars, opvars
<1>10. CASE install_trans
  <2>1. tail \in 1 .. Len(lh) /\ lh[tail] \in Block /\ dlog[tail] \in Data
    BY <1>10, LoopIndex DEF IInv, TypeOK, install_trans
  <2>2. \A c \in pinned' : cache'[c] # NoBlock
    <3>1. \A c \in pinned : cache[c] # NoBlock
      BY DEF IInv, PinInv
    <3>2. pinned' = pinned \ {lh[tail]} /\ \A c \in pinned' : cache'[c] = cache[c]
      BY SMTT(60), <1>10, <3>1 DEF install_trans
    <3> QED
      BY <3>1, <3>2
  <2>3. CASE phase = "install"
    <3>1. \A i \in 1 .. Len(lh) : lh[i] = lh[tail] => i = tail
      BY SMTT(60) DEF IInv, HeadInv, Injective
    <3>2. pinned' = {lh[i] : i \in tail + 1 .. Len(lh)}
      <4>1. pinned' = {lh[i] : i \in tail .. Len(lh)} \ {lh[tail]}
        BY <1>10, <2>3 DEF IInv, PinInv, install_trans
      <4>2. \A i : i \in tail + 1 .. Len(lh) <=> i \in tail .. Len(lh) /\ i # tail
        BY SMTT(60), <2>1
      <4>3. \A i \in tail .. Len(lh) : i \in 1 .. Len(lh)
        BY SMTT(60), <2>1
      <4> QED
        BY <3>1, <4>1, <4>2, <4>3
    <3>3. CASE tail = Len(lh)
      BY SMTT(60), <1>10, <2>1, <2>2, <2>3, <3>2, <3>3 DEF PinInv, Recovering,
         install_trans, LoopStep
    <3>4. CASE tail # Len(lh)
      BY SMTT(60), <1>10, <2>2, <2>3, <3>2 DEF PinInv, Recovering, install_trans,
         LoopStep, logvars
    <3> QED
      BY <3>3, <3>4
  <2>4. CASE phase = "rec_install"
    BY <1>10, <2>4 DEF IInv, PinInv, Recovering, install_trans, LoopStep
  <2> QED
    BY <1>10, <2>3, <2>4 DEF install_trans
<1>11. CASE clear_head
  BY SMTT(60), <1>11 DEF IInv, PinInv, Recovering, BlocksIn, clear_head, bufvars
<1>12. CASE read_head
  BY <1>12 DEF IInv, PinInv, Recovering, read_head, bufvars
<1>13. ASSUME NEW b \in Block, Recycle(b) PROVE PinInv'
  BY SMTT(60), <1>13 DEF IInv, PinInv, Recovering, Recycle, logvars
<1>14. ASSUME NEW b \in Block, reader_bread(b) PROVE PinInv'
  <2>1. b \in Block /\ bread(b) # NoBlock
    BY BreadType, ConstAssumption DEF IInv, Data
  <2>2. \A c \in pinned' : cache'[c] # NoBlock
    BY SMTT(60), <1>14, <2>1 DEF IInv, PinInv, reader_bread
  <2> QED
    BY <1>14, <2>2 DEF IInv, PinInv, Recovering, reader_bread, logvars
<1>15. CASE Crash
  BY <1>15 DEF PinInv, Crash
<1>16. CASE UNCHANGED vars
  BY <1>16 DEF IInv, PinInv, Recovering, vars
<1> QED
  BY <1>1, <1>2, <1>3, <1>4, <1>5, <1>6, <1>7, <1>8, <1>9, <1>10, <1>11, <1>12,
     <1>13, <1>14, <1>15, <1>16 DEF Next, OpStep, LogStep


-----------------------------------------------------------------------------
(* Block contents and the space in the log: the rest of the inductive      *)
(* step.                                                                   *)

LEMMA TornStep ==
  ASSUME Slack, IInv, [Next]_vars
  PROVE  TornInv'
<1>1. ASSUME NEW p \in Proc, begin_op(p) PROVE TornInv'
  BY <1>1 DEF IInv, TornInv, begin_op, diskvars, bufvars
<1>2. ASSUME NEW p \in Proc, NEW b \in Block, op_bread(p, b) PROVE TornInv'
  BY SMTT(60), <1>2 DEF IInv, HeadInv, TornInv, BlocksIn, op_bread, diskvars, bread,
     ControlInv, Active, InOp
<1>3. ASSUME NEW p \in Proc, NEW v \in Val, log_write_check(p, v) PROVE TornInv'
  BY SMTT(60), <1>3 DEF IInv, TornInv, log_write_check, diskvars
<1>4. ASSUME NEW p \in Proc, log_write_append(p) PROVE TornInv'
  BY <1>4 DEF IInv, TornInv, log_write_append, diskvars
<1>5. ASSUME NEW p \in Proc, op_brelse(p) PROVE TornInv'
  BY <1>5 DEF IInv, TornInv, op_brelse, diskvars, logvars, bufvars
<1>6. ASSUME NEW p \in Proc, end_op(p) PROVE TornInv'
  BY <1>6 DEF IInv, TornInv, end_op, diskvars, bufvars
<1>7. ASSUME NEW p \in Proc, end_commit(p) PROVE TornInv'
  BY <1>7 DEF IInv, TornInv, end_commit, diskvars, bufvars
<1>8. CASE write_log
  <2>1. /\ tail \in 1 .. Len(lh) /\ tail \in 1 .. NLOG - 1 /\ lh[tail] \in Block
    BY <1>8, LoopIndex DEF IInv, write_log
  <2> QED
    BY SMTT(60), <1>8 DEF IInv, HeadInv, TornInv, BlocksIn, bread, write_log
<1>9. CASE write_head
  <2>1. dhead' = lh /\ disk' = disk /\ dlog' = dlog /\ cache' = cache /\ dhead = <<>>
    BY <1>9 DEF IInv, HeadInv, write_head, bufvars
  <2>2. ASSUME NEW b \in Block PROVE disk[b] \in Val /\ cache[b] \in Val \cup {NoBlock}
    <3>1. b \notin BlocksIn(dhead)
      BY SMTT(60), <2>1 DEF BlocksIn
    <3> QED
      BY <3>1 DEF IInv, TornInv
  <2>3. ASSUME NEW i \in DOMAIN lh PROVE dlog[i] \in Val
    <3>1. DOMAIN lh = 1 .. Len(lh) /\ lh[i] \in Block
      BY SMTT(60) DEF IInv, TypeOK
    <3>2. lh[i] \in pinned
      BY <1>9 DEF IInv, PinInv, BlocksIn, write_head
    <3>3. cache[lh[i]] \in Val
      BY <2>2, <3>1, <3>2 DEF IInv, PinInv
    <3>4. dlog[i] = cache[lh[i]]
      BY <1>9, <3>1 DEF IInv, CopyInv, write_head
    <3> QED
      BY <3>3, <3>4
  <2> QED
    BY <2>1, <2>2, <2>3 DEF TornInv
<1>10. CASE install_trans
  <2>1. /\ tail \in 1 .. Len(lh) /\ tail \in 1 .. NLOG - 1 /\ lh[tail] \in Block
    BY <1>10, LoopIndex DEF IInv, install_trans
  <2> QED
    BY SMTT(60), <1>10 DEF IInv, HeadInv, TornInv, install_trans
<1>11. CASE clear_head
  <2>1. dhead' = <<>> /\ disk' = disk /\ cache' = cache
    BY <1>11 DEF clear_head, bufvars
  <2>2. DOMAIN dhead' = {} /\ dhead = lh /\ DOMAIN lh = 1 .. Len(lh)
    <3>1. DOMAIN <<>> = {} /\ DOMAIN lh = 1 .. Len(lh)
      BY SMTT(60) DEF IInv, TypeOK
    <3> QED
      BY <1>11, <2>1, <3>1 DEF IInv, HeadInv, clear_head
  <2>3. ASSUME NEW b \in Block PROVE disk[b] \in Val
    <3>1. CASE b \notin BlocksIn(dhead)
      BY <3>1 DEF IInv, TornInv
    <3>2. CASE b \in BlocksIn(dhead)
      <4>1. PICK i \in DOMAIN dhead : dhead[i] = b
        BY <3>2 DEF BlocksIn
      <4>2. disk[lh[i]] = dlog[i]
        BY <1>11, <2>2 DEF IInv, CopyInv, clear_head
      <4> QED
        BY <2>2, <4>1, <4>2 DEF IInv, TornInv
    <3> QED
      BY <3>1, <3>2
  <2> QED
    BY <2>1, <2>2, <2>3 DEF IInv, TornInv
<1>12. CASE read_head
  BY <1>12 DEF IInv, TornInv, read_head, diskvars, bufvars
<1>13. ASSUME NEW b \in Block, Recycle(b) PROVE TornInv'
  <2>1. \A c \in Block : cache'[c] \in {cache[c], NoBlock}
    BY <1>13 DEF IInv, TypeOK, Recycle
  <2>2. disk' = disk /\ dlog' = dlog /\ dhead' = dhead
    BY <1>13 DEF Recycle, diskvars
  <2> QED
    BY <2>1, <2>2 DEF IInv, TornInv, BlocksIn
<1>14. ASSUME NEW b \in Block, reader_bread(b) PROVE TornInv'
  <2>1. bread(b) \in Val
    <3>1. CASE cache[b] # NoBlock
      BY <3>1 DEF IInv, TornInv, bread
    <3>2. CASE cache[b] = NoBlock /\ b \notin BlocksIn(dhead)
      BY <3>2 DEF IInv, TornInv, bread
    <3>3. CASE cache[b] = NoBlock /\ b \in BlocksIn(dhead)
      <4>1. PICK i \in DOMAIN dhead : dhead[i] = b
        BY <3>3 DEF BlocksIn
      <4>2. phase \in {"install", "clear"} /\ dhead = lh /\ i \in 1 .. Len(lh)
        BY SMTT(60), <1>14 DEF IInv, TypeOK, HeadInv, Running, Recovering, reader_bread
      <4>3. phase = "install" => i < tail
        BY SMTT(60), <3>3, <4>1, <4>2 DEF IInv, TypeOK, PinInv
      <4>4. disk[b] = dlog[i]
        BY SMTT(60), <4>1, <4>2, <4>3 DEF IInv, TypeOK, CopyInv
      <4> QED
        BY <4>4 DEF IInv, TornInv, bread
    <3> QED
      BY <3>1, <3>2, <3>3
  <2> QED
    BY SMTT(60), <1>14, <2>1 DEF IInv, TornInv, reader_bread, diskvars
<1>15. CASE Crash
  <2>1. dhead' = dhead /\ DOMAIN lh = 1 .. Len(lh) /\ \A b \in Block : cache'[b] = NoBlock
    <3>1. DOMAIN lh = 1 .. Len(lh)
      BY SMTT(60) DEF IInv, TypeOK
    <3> QED
      BY <1>15, <3>1 DEF Crash
  <2>2. ASSUME NEW b \in Block, b \notin BlocksIn(dhead) PROVE disk'[b] = disk[b]
    <3>1. CASE disk' = disk
      BY <3>1
    <3>2. CASE phase \in {"install", "rec_install"} /\ disk' = [disk EXCEPT ![lh[tail]] = Torn]
      <4>1. dhead = lh /\ tail \in DOMAIN lh
        BY <2>1, <3>2 DEF IInv, HeadInv
      <4>2. b # lh[tail]
        BY <2>2, <4>1 DEF BlocksIn
      <4> QED
        BY <3>2, <4>2 DEF IInv, TypeOK
    <3> QED
      BY <1>15, <3>1, <3>2 DEF Crash
  <2>3. ASSUME NEW i \in DOMAIN dhead PROVE dlog'[i] = dlog[i]
    <3>1. CASE dlog' = dlog
      BY <3>1
    <3>2. CASE phase = "write_log"
      <4>1. dhead = <<>>
        BY <3>2 DEF IInv, HeadInv
      <4> QED
        BY SMTT(60), <4>1
    <3> QED
      BY <1>15, <3>1, <3>2 DEF Crash
  <2> QED
    BY <2>1, <2>2, <2>3 DEF IInv, TornInv, BlocksIn
<1>16. CASE UNCHANGED vars
  BY <1>16 DEF IInv, TornInv, vars
<1> QED
  BY <1>1, <1>2, <1>3, <1>4, <1>5, <1>6, <1>7, <1>8, <1>9, <1>10, <1>11, <1>12,
     <1>13, <1>14, <1>15, <1>16 DEF Next, OpStep, LogStep

LEMMA CleanStep ==
  ASSUME Slack, IInv, [Next]_vars
  PROVE  CleanInv'
<1>1. ASSUME NEW p \in Proc, begin_op(p) PROVE CleanInv'
  BY SMTT(60), <1>1 DEF IInv, TypeOK, CleanInv, Recovering, begin_op, diskvars, bufvars,
     opvars
<1>2. ASSUME NEW p \in Proc, NEW b \in Block, op_bread(p, b) PROVE CleanInv'
  BY SMTT(60), <1>2 DEF IInv, CleanInv, Recovering, op_bread, diskvars, logvars, bread
<1>3. ASSUME NEW p \in Proc, NEW v \in Val, log_write_check(p, v) PROVE CleanInv'
  <2>1. pc' = [pc EXCEPT ![p] = "append"]
    BY <1>3, ControlStep DEF ControlInv, log_write_check
  <2> QED
    BY <1>3, <2>1 DEF IInv, TypeOK, CleanInv, Recovering, log_write_check,
       diskvars, logvars, opvars
<1>4. ASSUME NEW p \in Proc, log_write_append(p) PROVE CleanInv'
  <2>1. buf[p] \in Block /\ ~Recovering /\ ~Recovering'
    BY <1>4 DEF IInv, TypeOK, BufInv, Running, Recovering, log_write_append
  <2>2. BlocksIn(lh') = BlocksIn(lh) \cup {buf[p]}
    BY <1>4, <2>1, AppendFacts DEF IInv, TypeOK, log_write_append
  <2>3. \A q \in Proc : pc[q] = "append" => pc'[q] = "append" \/ q = p
    BY SMTT(60), <1>4 DEF log_write_append
  <2> QED
    BY SMTT(60), <1>4, <2>1, <2>2 DEF IInv, CleanInv, log_write_append, diskvars
<1>5. ASSUME NEW p \in Proc, op_brelse(p) PROVE CleanInv'
  BY SMTT(60), <1>5 DEF IInv, CleanInv, Recovering, op_brelse, diskvars, logvars, bufvars
<1>6. ASSUME NEW p \in Proc, end_op(p) PROVE CleanInv'
  <2>1. \A q \in Proc : pc[q] = "append" => pc'[q] = "append"
    BY <1>6 DEF IInv, TypeOK, Woken, end_op
  <2>2. ~Recovering'
    BY <1>6 DEF Running, Recovering, end_op
  <2> QED
    BY <1>6, <2>1, <2>2 DEF IInv, CleanInv, end_op, diskvars, bufvars
<1>7. ASSUME NEW p \in Proc, end_commit(p) PROVE CleanInv'
  <2>1. \A q \in Proc : pc[q] = "append" => pc'[q] = "append"
    BY <1>7 DEF Woken, end_commit
  <2>2. ~Recovering'
    BY <1>7 DEF Recovering, end_commit
  <2> QED
    BY <1>7, <2>1, <2>2 DEF IInv, CleanInv, end_commit, diskvars, bufvars, opvars
<1>8. CASE write_log
  <2>1. /\ tail \in 1 .. Len(lh) /\ tail \in 1 .. NLOG - 1 /\ lh[tail] \in Block
    BY <1>8, LoopIndex DEF IInv, write_log
  <2> QED
    BY SMTT(60), <1>8 DEF IInv, CleanInv, Recovering, bread, write_log, LoopStep, logvars,
       opvars
<1>9. CASE write_head
  BY <1>9 DEF IInv, CleanInv, Recovering, write_head, bufvars, logvars, opvars
<1>10. CASE install_trans
  <2>1. /\ tail \in 1 .. Len(lh) /\ tail \in 1 .. NLOG - 1 /\ lh[tail] \in Block
    BY <1>10, LoopIndex DEF IInv, install_trans
  <2> QED
    BY <1>10 DEF IInv, TypeOK, CleanInv, Recovering, install_trans, LoopStep,
       logvars, opvars
<1>11. CASE clear_head
  <2>1. disk' = disk /\ cache' = cache /\ pc' = pc /\ buf' = buf
    BY <1>11 DEF clear_head, bufvars, opvars
  <2>2. ASSUME phase = "clear", NEW b \in BlocksIn(lh) PROVE cache[b] \in {NoBlock, disk[b]}
    <3>1. PICK i \in DOMAIN lh : lh[i] = b
      BY DEF BlocksIn
    <3>2. i \in 1 .. Len(lh)
      BY SMTT(60) DEF IInv, TypeOK
    <3>3. disk[lh[i]] = dlog[i] /\ cache[lh[i]] \in {NoBlock, dlog[i]}
      BY <2>2, <3>2 DEF IInv, CopyInv
    <3> QED
      BY <3>1, <3>3
  <2>3. ASSUME NEW b \in Block PROVE cache[b] \in {NoBlock, disk[b]} \/ \E p \in Proc : pc[p] = "append" /\ buf[p] = b
    BY <1>11, <2>2 DEF IInv, CleanInv, Recovering, clear_head
  <2> QED
    BY <2>1, <2>3 DEF CleanInv
<1>12. CASE read_head
  BY <1>12 DEF IInv, CleanInv, Recovering, read_head, diskvars, bufvars, opvars
<1>13. ASSUME NEW b \in Block, Recycle(b) PROVE CleanInv'
  BY SMTT(60), <1>13 DEF IInv, CleanInv, Recovering, Recycle, diskvars, logvars, opvars
<1>14. ASSUME NEW b \in Block, reader_bread(b) PROVE CleanInv'
  BY SMTT(60), <1>14 DEF IInv, CleanInv, Recovering, reader_bread, diskvars, logvars,
     opvars, bread
<1>15. CASE Crash
  BY <1>15 DEF CleanInv, Crash
<1>16. CASE UNCHANGED vars
  BY <1>16 DEF IInv, CleanInv, Recovering, vars
<1> QED
  BY <1>1, <1>2, <1>3, <1>4, <1>5, <1>6, <1>7, <1>8, <1>9, <1>10, <1>11, <1>12,
     <1>13, <1>14, <1>15, <1>16 DEF Next, OpStep, LogStep

LEMMA CopyStep ==
  ASSUME Slack, IInv, [Next]_vars
  PROVE  CopyInv'
<1>1. ASSUME NEW p \in Proc, begin_op(p) PROVE CopyInv'
  BY <1>1, ConstAssumption DEF IInv, TypeOK, CopyInv, HeadInv, ControlInv,
     Active, InOp, begin_op, diskvars, bufvars, opvars
<1>2. ASSUME NEW p \in Proc, NEW b \in Block, op_bread(p, b) PROVE CopyInv'
  BY <1>2, ConstAssumption DEF IInv, TypeOK, CopyInv, HeadInv, ControlInv,
     Active, InOp, op_bread, diskvars, logvars
<1>3. ASSUME NEW p \in Proc, NEW v \in Val, log_write_check(p, v) PROVE CopyInv'
  BY <1>3, ConstAssumption DEF IInv, TypeOK, CopyInv, HeadInv, ControlInv,
     Active, InOp, log_write_check, diskvars, logvars, opvars
<1>4. ASSUME NEW p \in Proc, log_write_append(p) PROVE CopyInv'
  BY <1>4 DEF IInv, CopyInv, ControlInv, Active, InOp, log_write_append
<1>5. ASSUME NEW p \in Proc, op_brelse(p) PROVE CopyInv'
  BY <1>5 DEF IInv, CopyInv, op_brelse, diskvars, logvars, bufvars
<1>6. ASSUME NEW p \in Proc, end_op(p) PROVE CopyInv'
  <2>1. /\ UNCHANGED <<disk, dlog, cache, lh, tail>>
        /\ phase' = phase \/ phase' \in {"write_log", "done"}
    BY <1>6 DEF end_op, diskvars, bufvars
  <2>2. phase = "idle" /\ tail = 1
    BY <1>6 DEF IInv, HeadInv, ControlInv, Active, InOp, end_op
  <2>3. 1 .. tail - 1 = {}
    BY SMTT(60), <2>2
  <2> QED
    BY <2>1, <2>2, <2>3 DEF CopyInv
<1>7. ASSUME NEW p \in Proc, end_commit(p) PROVE CopyInv'
  BY <1>7 DEF CopyInv, end_commit, opvars
<1>8. CASE write_log
  <2>1. /\ tail \in 1 .. Len(lh) /\ tail \in 1 .. NLOG - 1 /\ lh[tail] \in Block
    BY <1>8, LoopIndex DEF IInv, write_log
  <2>2. lh[tail] \in BlocksIn(lh)
    BY SMTT(60), <2>1 DEF BlocksIn
  <2>3. cache' = cache /\ dlog' = [dlog EXCEPT ![tail] = cache[lh[tail]]]
    BY <1>8, <2>2 DEF IInv, TypeOK, PinInv, bread, write_log
  <2>4. lh' = lh
    BY <1>8 DEF write_log, logvars
  <2>5. \A i \in 1 .. tail : dlog'[i] = cache[lh[i]]
    <3>1. dlog'[tail] = cache[lh[tail]] /\ \A i \in 1 .. NLOG - 1 : i # tail => dlog'[i] = dlog[i]
      BY <2>1, <2>3 DEF IInv, TypeOK
    <3>2. \A i \in 1 .. tail - 1 : dlog[i] = cache[lh[i]]
      BY <1>8 DEF IInv, CopyInv, write_log
    <3>3. ASSUME NEW i \in 1 .. tail PROVE i = tail \/ (i # tail /\ i \in 1 .. tail - 1 /\ i \in 1 .. NLOG - 1)
      BY SMTT(60), <2>1, ConstAssumption
    <3> QED
      BY <3>1, <3>2, <3>3
  <2>6. CASE tail = Len(lh)
    BY <1>8, <2>3, <2>4, <2>5, <2>6 DEF CopyInv, write_log, LoopStep
  <2>7. CASE tail # Len(lh)
    <3>1. tail' = tail + 1 /\ phase' = "write_log"
      BY <1>8, <2>7 DEF write_log, LoopStep
    <3>2. 1 .. tail' - 1 = 1 .. tail
      BY SMTT(60), <2>1, <3>1
    <3> QED
      BY <2>3, <2>4, <2>5, <3>1, <3>2 DEF CopyInv
  <2> QED
    BY <2>6, <2>7
<1>9. CASE write_head
  <2>1. UNCHANGED <<disk, dlog, cache, lh, tail>> /\ phase' = "install"
    BY <1>9 DEF write_head, bufvars, logvars
  <2>2. tail = 1 /\ \A i \in 1 .. Len(lh) : dlog[i] = cache[lh[i]]
    BY <1>9 DEF IInv, HeadInv, CopyInv, write_head
  <2>3. 1 .. tail - 1 = {}
    BY SMTT(60), <2>2
  <2> QED
    BY <2>1, <2>2, <2>3 DEF CopyInv
<1>10. CASE install_trans
  <2>1. /\ tail \in 1 .. Len(lh) /\ tail \in 1 .. NLOG - 1 /\ lh[tail] \in Block
    BY <1>10, LoopIndex DEF IInv, install_trans
  <2>2. \A i \in 1 .. Len(lh) : lh[i] = lh[tail] => i = tail
    BY SMTT(60) DEF IInv, HeadInv, Injective
  <2>3. lh' = lh /\ dlog' = dlog
    BY <1>10 DEF install_trans, logvars
  <2>4. \A i \in 1 .. tail : disk'[lh[i]] = dlog[i]
    <3>1. disk'[lh[tail]] = dlog[tail]
      BY <1>10, <2>1 DEF IInv, TypeOK, install_trans
    <3>2. \A i \in 1 .. tail - 1 : disk[lh[i]] = dlog[i]
      BY <1>10 DEF IInv, CopyInv, install_trans
    <3>3. \A i \in 1 .. tail - 1 : disk'[lh[i]] = disk[lh[i]]
      BY SMTT(60), <1>10, <2>1, <2>2 DEF install_trans
    <3>4. \A i \in 1 .. tail : i = tail \/ i \in 1 .. tail - 1
      BY SMTT(60), <2>1
    <3> QED
      BY <3>1, <3>2, <3>3, <3>4
  <2>5. \A b \in Block : cache'[b] = IF b = lh[tail] THEN dlog[tail] ELSE cache[b]
    BY <1>10, <2>1 DEF IInv, TypeOK, install_trans
  <2>6. \A i \in 1 .. Len(lh) : lh[i] \in Block
    BY SMTT(60) DEF IInv, TypeOK
  <2>7. ASSUME phase = "install", NEW i \in tail + 1 .. Len(lh) PROVE cache'[lh[i]] = dlog[i]
    <3>1. i \in tail .. Len(lh) /\ i \in 1 .. Len(lh) /\ i # tail
      BY SMTT(60), <2>1
    <3>2. cache[lh[i]] = dlog[i]
      BY <2>7, <3>1 DEF IInv, CopyInv
    <3> QED
      BY <2>2, <2>5, <2>6, <3>1, <3>2
  <2>8. ASSUME phase = "install", NEW i \in 1 .. tail PROVE cache'[lh[i]] \in {NoBlock, dlog[i]}
    <3>1. i \in 1 .. Len(lh) /\ (i = tail \/ (i # tail /\ i \in 1 .. tail - 1))
      BY SMTT(60), <2>1
    <3>2. CASE i = tail
      BY <2>5, <2>6, <3>1, <3>2
    <3>3. CASE i # tail /\ i \in 1 .. tail - 1
      <4>1. cache[lh[i]] \in {NoBlock, dlog[i]}
        BY <2>8, <3>3 DEF IInv, CopyInv
      <4> QED
        BY <2>2, <2>5, <2>6, <3>1, <3>3, <4>1
    <3> QED
      BY <3>1, <3>2, <3>3
  <2>9. CASE tail = Len(lh)
    BY <1>10, <2>3, <2>4, <2>8, <2>9 DEF CopyInv, install_trans, LoopStep
  <2>10. CASE tail # Len(lh)
    <3>1. tail' = tail + 1 /\ phase' = phase /\ phase \in {"install", "rec_install"}
      BY <1>10, <2>10 DEF install_trans, LoopStep
    <3>2. 1 .. tail' - 1 = 1 .. tail
      BY SMTT(60), <2>1, <3>1
    <3> QED
      BY <2>3, <2>4, <2>7, <2>8, <3>1, <3>2 DEF CopyInv
  <2> QED
    BY <2>9, <2>10
<1>11. CASE clear_head
  BY <1>11 DEF CopyInv, clear_head, bufvars
<1>12. CASE read_head
  <2>1. /\ tail' = 1 /\ dlog' = dlog /\ disk' = disk
        /\ lh' = dhead /\ phase' = IF Len(dhead) > 0 THEN "rec_install" ELSE "rec_clear"
    BY <1>12 DEF IInv, HeadInv, read_head, diskvars
  <2>2. 1 .. tail' - 1 = {} /\ (~(Len(dhead) > 0) => 1 .. Len(dhead) = {})
    BY SMTT(60), <2>1 DEF IInv, TypeOK
  <2>3. CASE Len(dhead) > 0
    BY <2>1, <2>2, <2>3 DEF CopyInv
  <2>4. CASE ~(Len(dhead) > 0)
    BY <2>1, <2>2, <2>4 DEF CopyInv
  <2> QED
    BY <2>3, <2>4
<1>13. ASSUME NEW b \in Block, Recycle(b) PROVE CopyInv'
  <2>1. \A c \in Block : cache'[c] = cache[c] \/ (cache'[c] = NoBlock /\ c \notin pinned)
    BY SMTT(60), <1>13 DEF Recycle
  <2>2. \A i \in 1 .. Len(lh) : lh[i] \in Block /\ lh[i] \in BlocksIn(lh)
    BY SMTT(60) DEF IInv, TypeOK, BlocksIn
  <2> QED
    BY SMTT(60), <1>13, <2>1, <2>2 DEF IInv, TypeOK, HeadInv, PinInv, CopyInv, Recycle,
       diskvars, logvars
<1>14. ASSUME NEW b \in Block, reader_bread(b) PROVE CopyInv'
  <2>1. \A c \in Block : cache'[c] = cache[c] \/ (cache[c] = NoBlock /\ cache'[c] = disk[c])
    BY SMTT(60), <1>14 DEF bread, reader_bread
  <2>2. \A i \in 1 .. Len(lh) : lh[i] \in Block /\ lh[i] \in BlocksIn(lh)
    BY SMTT(60) DEF IInv, TypeOK, BlocksIn
  <2> QED
    BY SMTT(60), <1>14, <2>1, <2>2 DEF IInv, TypeOK, HeadInv, PinInv, CopyInv,
       reader_bread, diskvars, logvars
<1>15. CASE Crash
  BY <1>15 DEF CopyInv, Crash
<1>16. CASE UNCHANGED vars
  BY <1>16 DEF IInv, CopyInv, vars
<1> QED
  BY <1>1, <1>2, <1>3, <1>4, <1>5, <1>6, <1>7, <1>8, <1>9, <1>10, <1>11, <1>12,
     <1>13, <1>14, <1>15, <1>16 DEF Next, OpStep, LogStep

LEMMA SpaceStep ==
  ASSUME Slack, IInv, [Next]_vars
  PROVE  SpaceInv'
<1>1. ASSUME NEW p \in Proc, begin_op(p) PROVE SpaceInv'
  <2>1. CASE MustWait
    <3>1. Active' = Active
      BY <1>1, <2>1 DEF IInv, TypeOK, Active, InOp, begin_op
    <3> QED
      BY <1>1, <2>1, <3>1 DEF IInv, TypeOK, SpaceInv, Unused, begin_op,
         diskvars, opvars
  <2>2. CASE ~MustWait
    <3>1. Active' = Active \cup {p} /\ p \notin Active /\ Active' \in SUBSET Proc
      BY <1>1, <2>2 DEF IInv, TypeOK, Active, InOp, begin_op
    <3>2. Cardinality(Active') = outstanding + 1
      BY <3>1, ActiveCount, FS_AddElement DEF IInv, ControlInv
    <3>3. /\ Cardinality(Unused') \in Nat
          /\ Cardinality(Unused') <= (outstanding + 1) * MAXOPBLOCKS
      BY <3>1, <3>2, UnusedCount DEF Unused
    <3>4. Len(lh) + (outstanding + 1) * MAXOPBLOCKS <= LOGSIZE
      BY SMTT(60), <2>2, ConstAssumption DEF IInv, TypeOK, MustWait
    <3>5. Len(lh') + Cardinality(Unused') <= LOGSIZE
      BY SMTT(60), <1>1, <3>3, <3>4, ConstAssumption DEF IInv, TypeOK, begin_op
    <3> QED
      BY <1>1, <3>1, <3>5 DEF IInv, TypeOK, SpaceInv, begin_op, diskvars,
         opvars
  <2> QED
    BY <2>1, <2>2
<1>2. ASSUME NEW p \in Proc, NEW b \in Block, op_bread(p, b) PROVE SpaceInv'
  <2>1. Active' = Active
    BY SMTT(60), <1>2 DEF Active, InOp, op_bread
  <2> QED
    BY <1>2, <2>1 DEF IInv, TypeOK, SpaceInv, Unused, op_bread, diskvars,
       logvars
<1>3. ASSUME NEW p \in Proc, NEW v \in Val, log_write_check(p, v) PROVE SpaceInv'
  <2>1. Active' = Active
    BY <1>3 DEF IInv, TypeOK, Active, InOp, log_write_check
  <2> QED
    BY <1>3, <2>1 DEF IInv, TypeOK, SpaceInv, Unused, log_write_check,
       diskvars, logvars, opvars
<1>4. ASSUME NEW p \in Proc, log_write_append(p) PROVE SpaceInv'
  <2>1. /\ Active' = Active /\ p \in Active /\ Active \in SUBSET Proc
        /\ phase = "idle" /\ buf[p] \in Block
    BY <1>4 DEF IInv, TypeOK, ControlInv, BufInv, Active, InOp, log_write_append
  <2>2. BlocksIn(lh') = BlocksIn(lh) \cup {buf[p]}
    BY <1>4, <2>1, AppendFacts DEF IInv, TypeOK, log_write_append
  <2>3. /\ wrote'[p] = wrote[p] \cup {buf[p]}
        /\ \A q \in Proc \ {p} : wrote'[q] = wrote[q]
    BY <1>4 DEF IInv, TypeOK, log_write_append
  <2>4. /\ IsFiniteSet(wrote'[p])
        /\ Cardinality(wrote'[p]) <= OPBLOCKS
        /\ Cardinality(wrote[p]) \in Nat
        /\ Cardinality(wrote'[p]) = IF buf[p] \in wrote[p] THEN Cardinality(wrote[p]) ELSE Cardinality(wrote[p]) + 1
    <3>1. /\ IsFiniteSet(wrote[p])
          /\ Cardinality(wrote[p] \cup {buf[p]}) <= OPBLOCKS
      BY <1>4 DEF IInv, SpaceInv, log_write_append
    <3> QED
      <4>1. PICK S, x : S = wrote[p] /\ x = buf[p] /\ IsFiniteSet(S) /\ Cardinality(S \cup {x}) <= OPBLOCKS
        BY <3>1
      <4>2. /\ IsFiniteSet(S \cup {x})
            /\ Cardinality(S \cup {x}) = IF x \in S THEN Cardinality(S) ELSE Cardinality(S) + 1
        BY <4>1, FS_AddElement
      <4>3. Cardinality(S) \in Nat
        BY <4>1, FS_CardinalityType
      <4>4. wrote'[p] = S \cup {x}
        BY <2>3, <4>1
      <4> QED
        BY <4>1, <4>2, <4>3, <4>4
  <2>5. /\ IsFiniteSet(Unused) /\ Cardinality(Unused) \in Nat
        /\ Cardinality(Unused') \in Nat
    BY <2>1, UnusedCount DEF Unused
  <2>6. Unused' \subseteq Unused
    <3>1. ASSUME NEW q \in Active, NEW n \in 1 .. MAXOPBLOCKS, n > Cardinality(wrote'[q])
          PROVE  n > Cardinality(wrote[q])
      <4>1. CASE q = p
        BY SMTT(60), <2>4, <3>1, <4>1
      <4>2. CASE q # p
        BY <2>1, <2>3, <3>1, <4>2
      <4> QED
        BY <4>1, <4>2
    <3> QED
      BY <2>1, <3>1 DEF Unused, UnusedBy
  <2>7. Len(lh') + Cardinality(Unused') <= LOGSIZE
    <3>1. CASE buf[p] \in BlocksIn(lh)
      <4>1. Cardinality(Unused') <= Cardinality(Unused)
        BY <2>5, <2>6, FS_Subset
      <4> QED
        BY SMTT(60), <1>4, <2>1, <2>5, <3>1, <4>1, ConstAssumption DEF IInv, SpaceInv,
           log_write_append
    <3>2. CASE buf[p] \notin BlocksIn(lh)
      <4> DEFINE t == <<p, Cardinality(wrote[p]) + 1>>
      <4>1. Cardinality(wrote'[p]) = Cardinality(wrote[p]) + 1
        BY <2>4, <3>2 DEF IInv, SpaceInv
      <4>2. t \in Unused /\ t \notin Unused'
        BY SMTT(60), <2>1, <2>4, <4>1, ConstAssumption DEF Unused, UnusedBy
      <4>3. Cardinality(Unused') <= Cardinality(Unused) - 1
        <5>1. Unused' \in SUBSET (Unused \ {t})
          BY <2>6, <4>2
        <5>2. IsFiniteSet(Unused \ {t}) /\ Cardinality(Unused \ {t}) = Cardinality(Unused) - 1
          <6>1. PICK S, x : S = Unused /\ x = t /\ IsFiniteSet(S) /\ x \in S
            BY <2>5, <4>2
          <6>2. IsFiniteSet(S \ {x}) /\ Cardinality(S \ {x}) = IF x \in S THEN Cardinality(S) - 1 ELSE Cardinality(S)
            BY <6>1, FS_RemoveElement
          <6> QED
            BY <6>1, <6>2
        <5> QED
          <6>1. PICK S : S = Unused \ {t} /\ IsFiniteSet(S)
            BY <5>2
          <6>2. PICK T \in SUBSET S : T = Unused'
            BY <5>1, <6>1
          <6>3. Cardinality(T) <= Cardinality(S)
            BY <6>1, FS_Subset
          <6> QED
            BY <5>2, <6>1, <6>2, <6>3
      <4>4. Len(lh') = Len(lh) + 1
        BY SMTT(60), <1>4, <3>2 DEF log_write_append
      <4> QED
        BY SMTT(60), <2>1, <2>5, <4>3, <4>4, ConstAssumption DEF IInv, SpaceInv
    <3> QED
      BY <3>1, <3>2
  <2>8. Len(lh') <= NLOG - 1
    BY SMTT(60), <1>4, <2>1, RoomToLog, ConstAssumption DEF IInv, log_write_append
  <2>9. \A q \in Proc : pc'[q] = "append" => pc[q] = "append" /\ q # p
    BY <1>4 DEF IInv, TypeOK, log_write_append
  <2>10. ASSUME NEW q \in Proc
         PROVE  /\ IsFiniteSet(wrote'[q])
                /\ Cardinality(wrote'[q]) <= OPBLOCKS
                /\ q \in Active' => wrote'[q] \subseteq BlocksIn(lh')
                /\ q \notin Active' => wrote'[q] = {}
                /\ pc'[q] = "append" => Cardinality(wrote'[q] \cup {buf'[q]}) <= OPBLOCKS
    BY <1>4, <2>1, <2>2, <2>3, <2>4, <2>9 DEF IInv, SpaceInv,
       log_write_append
  <2> QED
    BY <1>4, <2>7, <2>8, <2>10 DEF IInv, SpaceInv, log_write_append, diskvars
<1>5. ASSUME NEW p \in Proc, op_brelse(p) PROVE SpaceInv'
  <2>1. Active' = Active
    BY SMTT(60), <1>5 DEF Active, InOp, op_brelse
  <2> QED
    BY <1>5, <2>1 DEF IInv, TypeOK, SpaceInv, Unused, op_brelse,
       diskvars, logvars, bufvars
<1>6. ASSUME NEW p \in Proc, end_op(p) PROVE SpaceInv'
  <2>1. p \in Active /\ Active \in SUBSET Proc /\ Active' = Active \ {p}
    BY <1>6 DEF IInv, TypeOK, ControlInv, CommitPhases, Active, InOp,
       Woken, end_op
  <2>2. wrote'[p] = {} /\ \A q \in Proc \ {p} : wrote'[q] = wrote[q]
    BY <1>6 DEF IInv, TypeOK, end_op
  <2>3. Unused' \subseteq Unused
    BY <2>1, <2>2 DEF Unused, UnusedBy
  <2>4. phase = "idle" => Len(lh) + Cardinality(Unused') <= LOGSIZE
    <3>1. /\ IsFiniteSet(Unused) /\ Cardinality(Unused) \in Nat
          /\ Cardinality(Unused') \in Nat
      BY <2>1, UnusedCount DEF Unused
    <3>2. Cardinality(Unused') <= Cardinality(Unused)
      BY <2>3, <3>1, FS_Subset
    <3> QED
      BY SMTT(60), <3>1, <3>2, ConstAssumption DEF IInv, SpaceInv
  <2>5. \A q \in Proc : pc'[q] = "append" => pc[q] = "append" /\ q # p
    BY <1>6 DEF IInv, TypeOK, Woken, end_op
  <2>6. ASSUME NEW q \in Proc
        PROVE  /\ IsFiniteSet(wrote'[q])
               /\ Cardinality(wrote'[q]) <= OPBLOCKS
               /\ q \in Active' => wrote'[q] \subseteq BlocksIn(lh')
               /\ q \notin Active' => wrote'[q] = {}
               /\ pc'[q] = "append" => Cardinality(wrote'[q] \cup {buf'[q]}) <= OPBLOCKS
    <3>1. CASE q = p
      BY SMTT(60), <2>2, <2>5, <3>1, FS_EmptySet, ConstAssumption
    <3>2. CASE q # p
      BY <1>6, <2>1, <2>2, <2>5, <3>2 DEF IInv, SpaceInv, end_op
    <3> QED
      BY <3>1, <3>2
  <2> QED
    BY <1>6, <2>4, <2>6 DEF IInv, SpaceInv, end_op, diskvars
<1>7. ASSUME NEW p \in Proc, end_commit(p) PROVE SpaceInv'
  <2>1. Active = {} /\ Active' = {}
    BY <1>7 DEF IInv, ControlInv, Active, InOp, Woken, end_commit
  <2>2. Unused' = {}
    BY <2>1 DEF Unused, UnusedBy
  <2>3. Len(lh') = 0
    BY <1>7 DEF IInv, HeadInv, end_commit
  <2>4. Len(lh') + Cardinality(Unused') <= LOGSIZE
    BY SMTT(60), <2>2, <2>3, FS_EmptySet, ConstAssumption
  <2> QED
    BY <1>7, <2>1, <2>3, <2>4 DEF IInv, TypeOK, InOp, SpaceInv, Woken,
       end_commit, diskvars, opvars
<1>8. CASE write_log
  <2>1. Active' = Active
    BY <1>8 DEF Active, write_log
  <2> QED
    BY <1>8, <2>1 DEF IInv, SpaceInv, write_log, logvars, opvars, LoopStep
<1>9. CASE write_head
  <2>1. Active' = Active
    BY <1>9 DEF Active, write_head
  <2> QED
    BY <1>9, <2>1 DEF IInv, SpaceInv, write_head, bufvars, logvars, opvars
<1>10. CASE install_trans
  <2>1. Active' = Active
    BY <1>10 DEF Active, install_trans
  <2> QED
    BY <1>10, <2>1 DEF IInv, TypeOK, SpaceInv, install_trans, logvars,
       opvars, LoopStep
<1>11. CASE clear_head
  <2>1. Active = {} /\ Active' = {}
    BY <1>11 DEF IInv, ControlInv, Active, clear_head
  <2>2. Unused' = {}
    BY <2>1 DEF Unused, UnusedBy
  <2>3. Len(lh') = 0 /\ Len(dhead') = 0
    BY <1>11 DEF clear_head
  <2>4. Len(lh') + Cardinality(Unused') <= LOGSIZE
    BY SMTT(60), <2>2, <2>3, FS_EmptySet, ConstAssumption
  <2>5. wrote' = wrote /\ buf' = buf /\ pc' = pc
    BY <1>11 DEF clear_head, opvars
  <2>6. Len(lh') <= NLOG - 1 /\ Len(dhead') <= NLOG - 1
    BY SMTT(60), <2>3, ConstAssumption
  <2> QED
    BY <2>1, <2>4, <2>5, <2>6 DEF IInv, SpaceInv
<1>12. CASE read_head
  <2>1. Active' = {} /\ Active = {}
    BY <1>12 DEF IInv, ControlInv, Active, read_head
  <2> QED
    BY <1>12, <2>1 DEF IInv, SpaceInv, read_head, diskvars, opvars
<1>13. ASSUME NEW b \in Block, Recycle(b) PROVE SpaceInv'
  <2>1. Active' = Active
    BY <1>13 DEF Active, Recycle
  <2> QED
    BY <1>13, <2>1 DEF IInv, SpaceInv, Unused, Recycle, diskvars, logvars, opvars
<1>14. ASSUME NEW b \in Block, reader_bread(b) PROVE SpaceInv'
  <2>1. Active' = Active
    BY <1>14 DEF Active, reader_bread
  <2> QED
    BY <1>14, <2>1 DEF IInv, SpaceInv, Unused, reader_bread, diskvars,
       logvars, opvars
<1>15. CASE Crash
  <2>1. Active' = {}
    BY <1>15 DEF Active, InOp, Crash
  <2> QED
    BY SMTT(60), <1>15, FS_EmptySet, ConstAssumption DEF IInv, TypeOK, SpaceInv, Crash
<1>16. CASE UNCHANGED vars
  <2>1. Active' = Active
    BY <1>16 DEF Active, vars
  <2> QED
    BY <1>16, <2>1 DEF IInv, SpaceInv, Unused, vars
<1> QED
  BY <1>1, <1>2, <1>3, <1>4, <1>5, <1>6, <1>7, <1>8, <1>9, <1>10, <1>11, <1>12,
     <1>13, <1>14, <1>15, <1>16 DEF Next, OpStep, LogStep

-----------------------------------------------------------------------------
(* The invariant, and what follows from it.                                *)

LEMMA InvInit ==
  ASSUME Init
  PROVE  IInv
<1>1. TypeOK
  <2>1. /\ lh \in Seq(Block) /\ dhead \in Seq(Block)
        /\ wrote \in [Proc -> SUBSET Block]
    BY SMTT(60) DEF Init
  <2>2. committing \in BOOLEAN /\ panicked \in BOOLEAN
    BY DEF Init
  <2> QED
    BY SMTT(60), <2>2, ConstAssumption DEF Init, TypeOK, Data
<1>2. Active = {}
  BY DEF Init, Active, InOp
<1>3. ControlInv /\ QuietInv
  BY <1>2, FS_EmptySet DEF Init, ControlInv, QuietInv, CommitPhases
<1>4. BufInv /\ HeadInv
  BY SMTT(60) DEF Init, BufInv, HeadInv, Injective
<1>5. PinInv /\ TornInv /\ CleanInv /\ CopyInv
  BY SMTT(60), ConstAssumption DEF Init, PinInv, TornInv, CleanInv, CopyInv
<1>6. SpaceInv
  BY SMTT(60), FS_EmptySet, ConstAssumption DEF Init, SpaceInv
<1> QED
  BY <1>1, <1>3, <1>4, <1>5, <1>6 DEF IInv

LEMMA InvStep ==
  ASSUME Slack, IInv, [Next]_vars
  PROVE  IInv'
BY TypeStep, ControlStep, BufStep, HeadStep, QuietStep, PinStep, TornStep,
   CleanStep, CopyStep, SpaceStep DEF IInv

\* IInv is an inductive invariant of log.c.
THEOREM Invariance ==
  ASSUME Slack
  PROVE  Spec => []IInv
<1>1. Init => IInv
  BY InvInit
<1>2. IInv /\ [Next]_vars => IInv'
  BY InvStep
<1> QED
  BY <1>1, <1>2, PTL DEF Spec

\* Every variable of the log keeps its type.
THEOREM TypeCorrect ==
  ASSUME Slack
  PROVE  Spec => []TypeOK
<1>1. IInv => TypeOK
  BY DEF IInv
<1> QED
  BY <1>1, Invariance, PTL

\* logged blocks fit in the on-disk log, for every log geometry with Slack.
THEOREM ReservationSuffices ==
  ASSUME Slack
  PROVE  Spec => []LogSpaceSuffices
<1>1. IInv => LogSpaceSuffices
  BY DEF IInv, ControlInv, SpaceInv, LogSpaceSuffices
<1> QED
  BY <1>1, Invariance, PTL

LEMMA InstallFacts ==
  ASSUME NEW home, NEW log, NEW head \in Seq(Block), Injective(head)
  PROVE  /\ \A i \in DOMAIN head : Install(home, log, head)[head[i]] = log[i]
         /\ \A b \in Block \ BlocksIn(head) : Install(home, log, head)[b] = home[b]
<1>1. ASSUME NEW i \in DOMAIN head
      PROVE  Install(home, log, head)[head[i]] = log[i]
  <2>1. head[i] \in Block /\ head[i] \in BlocksIn(head)
    BY SMTT(60) DEF BlocksIn
  <2>2. i \in Nat /\ \A j \in DOMAIN head : head[j] = head[i] => j = i
    BY SMTT(60) DEF Injective
  <2>3. i = CHOOSE k \in DOMAIN head :
              /\ head[k] = head[i]
              /\ \A j \in DOMAIN head : head[j] = head[i] => j <= k
    BY SMTT(60), <2>2
  <2> QED
    BY <2>1, <2>3 DEF Install
<1> QED
  BY <1>1 DEF Install

LEMMA InstallSame ==
  ASSUME NEW home1, NEW home2, NEW log1, NEW log2, NEW head,
         \A b \in Block \ BlocksIn(head) : home1[b] = home2[b],
         log1 = log2 \/ head = <<>>
  PROVE  Install(home1, log1, head) = Install(home2, log2, head)
<1>1. head = <<>> => BlocksIn(head) = {}
  BY SMTT(60) DEF BlocksIn
<1> QED
  BY SMTT(60), <1>1 DEF Install

\* When nothing is in progress, nothing is left to be made durable.
THEOREM Durability ==
  ASSUME Slack
  PROVE  Spec => []QuiescentDurable
<1>1. ASSUME IInv PROVE QuiescentDurable
  <2>1. SUFFICES ASSUME phase = "idle", outstanding = 0
                 PROVE  View = Recovered /\ pinned = {} /\ lh = <<>>
    BY DEF QuiescentDurable
  <2>2. Active = {}
    BY SMTT(60), <1>1, <2>1, ActiveCount DEF IInv, ControlInv
  <2>3. lh = <<>> /\ dhead = <<>> /\ pinned = {}
    BY SMTT(60), <1>1, <2>1, <2>2 DEF IInv, QuietInv, HeadInv, PinInv, BlocksIn
  <2>4. \A b \in Block : cache[b] \in {NoBlock, disk[b]}
    BY SMTT(60), <1>1, <2>2, <2>3 DEF IInv, CleanInv, Active, InOp, BlocksIn
  <2>5. View = [b \in Block |-> disk[b]]
    BY <2>1, <2>4 DEF View, Recovering, bread
  <2> QED
    <3>1. BlocksIn(dhead) = {}
      BY SMTT(60), <2>3 DEF BlocksIn
    <3> QED
      BY <2>3, <2>5, <3>1 DEF Recovered, Install
<1> QED
  BY <1>1, Invariance, PTL

\* A home block is overwritten only while the header on disk names it.
THEOREM WriteAheadRule ==
  ASSUME Slack
  PROVE  Spec => WriteAhead
<1>1. ASSUME IInv, [Next]_vars
      PROVE  [\A b \in Block : disk'[b] # disk[b] => b \in BlocksIn(dhead)]_vars
  <2>1. CASE install_trans
    <3>1. lh[tail] \in BlocksIn(dhead)
      BY SMTT(60), <1>1, <2>1 DEF IInv, TypeOK, HeadInv, BlocksIn, install_trans
    <3> QED
      BY SMTT(60), <2>1, <3>1 DEF install_trans
  <2>2. CASE Crash
    <3>1. phase \in {"install", "rec_install"} => lh[tail] \in BlocksIn(dhead)
      BY SMTT(60), <1>1 DEF IInv, HeadInv, BlocksIn
    <3> QED
      BY <1>1, <2>2, <3>1 DEF IInv, TypeOK, Crash
  <2>3. CASE disk' = disk
    BY <2>3
  <2>4. install_trans \/ Crash \/ disk' = disk
    BY <1>1 DEF Next, OpStep, LogStep, begin_op, op_bread,
       log_write_check, log_write_append, op_brelse, end_op, end_commit,
       write_log, write_head, clear_head, read_head, Recycle, reader_bread,
       diskvars, vars
  <2> QED
    BY <2>1, <2>2, <2>4
<1> QED
  BY <1>1, Invariance, PTL DEF Spec, WriteAhead

LEMMA StepRefines ==
  ASSUME Slack, IInv, [Next]_vars
  PROVE  [CSD!Next]_(CSD!vars)
<1>1. ASSUME NEW p \in Proc, begin_op(p) PROVE [CSD!Next]_(CSD!vars)
  <2>1. Recovered' = Recovered
    BY <1>1 DEF Recovered, diskvars, begin_op
  <2>2. View' = View
    BY <1>1, <2>1 DEF View, Recovering, bread, begin_op, diskvars, bufvars
  <2>3. CASE MustWait
    <3>1. Active' = Active
      BY <1>1, <2>3 DEF IInv, TypeOK, Active, InOp, begin_op
    <3> QED
      BY <2>1, <2>2, <3>1 DEF CSD!vars
  <2>4. CASE ~MustWait
    <3>1. p \notin Active /\ Active' = Active \cup {p}
      BY <1>1, <2>4 DEF IInv, TypeOK, Active, InOp, begin_op
    <3> QED
      BY <2>1, <2>2, <3>1 DEF CSD!Next, CSD!Begin
  <2> QED
    BY <2>3, <2>4
<1>2. ASSUME NEW p \in Proc, NEW b \in Block, op_bread(p, b) PROVE [CSD!Next]_(CSD!vars)
  <2>1. Recovered' = Recovered
    BY <1>2 DEF Recovered, diskvars, op_bread
  <2>2. Active' = Active
    BY SMTT(60), <1>2 DEF Active, InOp, op_bread
  <2>3. ~Recovering => \A c \in Block : bread(c)' = bread(c)
    BY SMTT(60), <1>2 DEF bread, diskvars, op_bread
  <2>4. View' = View
    BY <1>2, <2>1, <2>3 DEF View, Recovering, op_bread
  <2> QED
    BY <2>1, <2>2, <2>4 DEF CSD!vars
<1>3. ASSUME NEW p \in Proc, NEW v \in Val, log_write_check(p, v) PROVE [CSD!Next]_(CSD!vars)
  <2>1. Recovered' = Recovered
    BY <1>3 DEF Recovered, diskvars, log_write_check
  <2>2. p \in Active /\ Active' = Active /\ buf[p] \in Block
    BY <1>3 DEF IInv, TypeOK, BufInv, Active, InOp, log_write_check
  <2>3. View' = [View EXCEPT ![buf[p]] = v]
    BY <1>3, ConstAssumption DEF IInv, TypeOK, View, Running, Recovering,
       bread, log_write_check, diskvars
  <2> QED
    BY <2>1, <2>2, <2>3 DEF CSD!Next, CSD!Write
<1>4. ASSUME NEW p \in Proc, log_write_append(p) PROVE [CSD!Next]_(CSD!vars)
  <2>1. Recovered' = Recovered
    BY <1>4 DEF Recovered, diskvars, log_write_append
  <2>2. Active' = Active
    BY SMTT(60), <1>4 DEF Active, InOp, log_write_append
  <2>3. View' = View
    BY <1>4, <2>1 DEF View, Recovering, bread, log_write_append, diskvars
  <2> QED
    BY <2>1, <2>2, <2>3 DEF CSD!vars
<1>5. ASSUME NEW p \in Proc, op_brelse(p) PROVE [CSD!Next]_(CSD!vars)
  <2>1. Recovered' = Recovered
    BY <1>5 DEF Recovered, diskvars, op_brelse
  <2>2. Active' = Active
    BY SMTT(60), <1>5 DEF Active, InOp, op_brelse
  <2>3. View' = View
    BY <1>5, <2>1 DEF View, Recovering, bread, op_brelse, diskvars, bufvars
  <2> QED
    BY <2>1, <2>2, <2>3 DEF CSD!vars
<1>6. ASSUME NEW p \in Proc, end_op(p) PROVE [CSD!Next]_(CSD!vars)
  <2>1. Recovered' = Recovered
    BY <1>6 DEF Recovered, diskvars, end_op
  <2>2. p \in Active /\ Active' = Active \ {p}
    BY <1>6 DEF IInv, TypeOK, ControlInv, CommitPhases, Active, InOp,
       Woken, end_op
  <2>3. View' = View
    BY <1>6 DEF View, Running, Recovering, bread, end_op, diskvars, bufvars
  <2> QED
    BY <2>1, <2>2, <2>3 DEF CSD!Next, CSD!End
<1>7. ASSUME NEW p \in Proc, end_commit(p) PROVE [CSD!Next]_(CSD!vars)
  <2>1. Recovered' = Recovered
    BY <1>7 DEF Recovered, diskvars, end_commit
  <2>2. Active' = Active
    BY <1>7 DEF Active, InOp, end_commit, bufvars, Woken
  <2>3. View' = View
    BY <1>7 DEF View, Recovering, bread, end_commit, diskvars, bufvars
  <2> QED
    BY <2>1, <2>2, <2>3 DEF CSD!vars
<1>8. CASE write_log
  <2>1. Recovered' = Recovered
    BY SMTT(60), <1>8, InstallSame DEF IInv, HeadInv, Recovered, write_log
  <2>2. Active' = Active
    BY <1>8 DEF Active, write_log
  <2>3. lh[tail] \in Block
    BY <1>8, LoopIndex DEF IInv, write_log
  <2>4. \A c \in Block : bread(c)' = bread(c)
    BY SMTT(60), <1>8 DEF bread, write_log
  <2>5. View' = View
    BY <1>8, <2>4 DEF View, Recovering, write_log, LoopStep
  <2> QED
    BY <2>1, <2>2, <2>5 DEF CSD!vars
<1>9. CASE write_head
  <2>1. Active = {} /\ Active' = Active
    BY <1>9 DEF IInv, ControlInv, Active, write_head
  <2>2. View' = View /\ View = [b \in Block |-> bread(b)]
    BY <1>9 DEF View, Recovering, bread, write_head, bufvars
  <2>3. ASSUME NEW b \in Block
        PROVE  Recovered'[b] = bread(b)
    <3>1. Recovered' = Install(disk, dlog, lh)
      BY <1>9 DEF Recovered, write_head
    <3>2. CASE b \in BlocksIn(lh)
      <4>1. PICK i \in DOMAIN lh : lh[i] = b
        BY <3>2 DEF BlocksIn
      <4>2. Recovered'[b] = dlog[i]
        <5>1. lh \in Seq(Block) /\ Injective(lh)
          BY DEF IInv, TypeOK, HeadInv
        <5>2. Install(disk, dlog, lh)[lh[i]] = dlog[i]
          BY SMTT(60), <5>1, InstallFacts
        <5> QED
          BY <3>1, <4>1, <5>2
      <4>3. dlog[i] = cache[b] /\ cache[b] # NoBlock
        <5>1. i \in 1 .. Len(lh)
          BY SMTT(60), <4>1 DEF IInv, TypeOK
        <5>2. dlog[i] = cache[lh[i]]
          BY <1>9, <5>1 DEF IInv, CopyInv, write_head
        <5>3. b \in pinned
          BY <1>9, <3>2 DEF IInv, PinInv, write_head
        <5> QED
          BY <4>1, <5>2, <5>3 DEF IInv, PinInv
      <4> QED
        BY <4>2, <4>3 DEF bread
    <3>3. CASE b \notin BlocksIn(lh)
      <4>1. Recovered'[b] = disk[b]
        BY SMTT(60), <3>1, <3>3, InstallFacts DEF IInv, TypeOK, HeadInv
      <4>2. cache[b] \in {NoBlock, disk[b]}
        BY <2>1, <3>3 DEF IInv, CleanInv, Active, InOp
      <4> QED
        BY <4>1, <4>2 DEF bread
    <3> QED
      BY <3>2, <3>3
  <2>4. Recovered' = View
    BY <2>2, <2>3 DEF Recovered, Install
  <2> QED
    BY <2>1, <2>2, <2>4 DEF CSD!Next, CSD!Commit
<1>10. CASE install_trans
  <2>1. lh[tail] \in Block /\ lh[tail] \in BlocksIn(dhead) /\ tail \in 1 .. Len(lh)
    BY SMTT(60), <1>10, LoopIndex DEF IInv, HeadInv, BlocksIn, install_trans
  <2>2. \A c \in Block : c # lh[tail] => disk'[c] = disk[c] /\ cache'[c] = cache[c]
    BY SMTT(60), <1>10 DEF install_trans
  <2>3. Recovered' = Recovered
    <3>1. \A b \in Block \ BlocksIn(dhead) : disk'[b] = disk[b]
      BY <2>1, <2>2
    <3>2. dlog' = dlog /\ dhead' = dhead
      BY <1>10 DEF install_trans
    <3> QED
      BY SMTT(60), <3>1, <3>2, InstallSame DEF Recovered
  <2>4. Active' = Active
    BY <1>10 DEF Active, install_trans
  <2>5. CASE phase = "install"
    <3>1. cache'[lh[tail]] = cache[lh[tail]] /\ cache[lh[tail]] # NoBlock
      BY SMTT(60), <1>10, <2>1, <2>5 DEF IInv, CopyInv, PinInv, install_trans
    <3>2. \A c \in Block : bread(c)' = bread(c)
      BY <2>2, <3>1 DEF bread
    <3>3. View' = View
      BY <1>10, <2>5, <3>2 DEF View, Recovering, install_trans, LoopStep
    <3> QED
      BY <2>3, <2>4, <3>3 DEF CSD!vars
  <2>6. CASE phase = "rec_install"
    <3>1. View' = View
      BY <1>10, <2>3, <2>6 DEF View, Recovering, install_trans, LoopStep
    <3> QED
      BY <2>3, <2>4, <3>1 DEF CSD!vars
  <2> QED
    BY <1>10, <2>5, <2>6 DEF install_trans
<1>11. CASE clear_head
  <2>1. Active' = Active /\ Active = {}
    BY <1>11 DEF IInv, ControlInv, Active, clear_head
  <2>2. ASSUME NEW b \in Block
        PROVE  Recovered[b] = disk[b]
    <3>1. CASE b \in BlocksIn(dhead)
      <4>1. PICK i \in DOMAIN dhead : dhead[i] = b
        BY <3>1 DEF BlocksIn
      <4>2. Recovered[b] = dlog[i]
        <5>1. dhead \in Seq(Block) /\ Injective(dhead)
          BY DEF IInv, TypeOK, HeadInv
        <5>2. Install(disk, dlog, dhead)[dhead[i]] = dlog[i]
          BY SMTT(60), <5>1, InstallFacts
        <5> QED
          BY <4>1, <5>2 DEF Recovered
      <4> QED
        <5>1. dhead = lh /\ DOMAIN lh = 1 .. Len(lh)
          <6>1. DOMAIN lh = 1 .. Len(lh)
            BY SMTT(60) DEF IInv, TypeOK
          <6> QED
            BY <1>11, <6>1 DEF IInv, HeadInv, clear_head
        <5>2. disk[lh[i]] = dlog[i]
          BY <1>11, <5>1 DEF IInv, CopyInv, clear_head
        <5> QED
          BY <4>1, <4>2, <5>1, <5>2
    <3>2. CASE b \notin BlocksIn(dhead)
      BY SMTT(60), <3>2, InstallFacts DEF IInv, TypeOK, HeadInv, Recovered
    <3> QED
      BY <3>1, <3>2
  <2>3. Recovered' = [b \in Block |-> disk[b]]
    <3>1. BlocksIn(dhead') = {} /\ disk' = disk
      BY SMTT(60), <1>11 DEF BlocksIn, clear_head
    <3> QED
      BY <3>1 DEF Recovered, Install
  <2>4. Recovered' = Recovered
    BY <2>2, <2>3 DEF Recovered, Install
  <2>5. CASE phase = "clear"
    BY <1>11, <2>1, <2>4, <2>5 DEF CSD!vars, View, Recovering, bread,
       clear_head, bufvars
  <2>6. CASE phase = "rec_clear"
    <3>1. \A b \in Block : cache[b] \in {NoBlock, disk[b]}
      BY <2>1, <2>6 DEF IInv, CleanInv, Active, InOp, Recovering
    <3>2. View' = [b \in Block |-> disk[b]]
      BY <1>11, <3>1 DEF View, Recovering, bread, clear_head, bufvars
    <3>3. View = Recovered
      BY <2>6 DEF View, Recovering
    <3> QED
      BY <2>1, <2>3, <2>4, <3>2, <3>3 DEF CSD!vars
  <2> QED
    BY <1>11, <2>5, <2>6 DEF clear_head
<1>12. CASE read_head
  <2>1. Recovered' = Recovered
    BY <1>12 DEF Recovered, diskvars, read_head
  <2>2. Active' = Active
    BY <1>12 DEF Active, InOp, read_head
  <2>3. View' = View
    BY <1>12, <2>1 DEF View, Recovering, bread, read_head
  <2> QED
    BY <2>1, <2>2, <2>3 DEF CSD!vars
<1>13. ASSUME NEW b \in Block, Recycle(b) PROVE [CSD!Next]_(CSD!vars)
  <2>1. Recovered' = Recovered
    BY <1>13 DEF Recovered, diskvars, Recycle
  <2>2. Active' = Active
    BY <1>13 DEF Active, InOp, Recycle
  <2>3. ~Recovering => cache[b] = disk[b]
    <3>1. ~Recovering => b \notin BlocksIn(lh) \/ disk[b] = cache[b]
      <4>1. CASE phase = "install"
        <5> SUFFICES ASSUME NEW i \in DOMAIN lh, lh[i] = b PROVE disk[b] = cache[b]
          BY DEF BlocksIn
        <5>1. i \in 1 .. tail - 1 \/ i \in tail .. Len(lh)
          BY SMTT(60) DEF IInv, TypeOK
        <5>2. i \notin tail .. Len(lh)
          BY <1>13, <4>1 DEF IInv, PinInv, Recycle
        <5>3. disk[lh[i]] = dlog[i] /\ cache[lh[i]] \in {NoBlock, dlog[i]}
          BY <4>1, <5>1, <5>2 DEF IInv, CopyInv
        <5> QED
          BY <1>13, <5>3 DEF Recycle
      <4>2. CASE phase \in {"idle", "write_log", "write_head"}
        BY <1>13, <4>2 DEF IInv, PinInv, Recycle
      <4>3. CASE phase = "clear"
        <5>1. DOMAIN lh = 1 .. Len(lh)
          BY SMTT(60) DEF IInv, TypeOK
        <5>2. \A i \in DOMAIN lh : disk[lh[i]] = dlog[i] /\ cache[lh[i]] \in {NoBlock, dlog[i]}
          BY <4>3, <5>1 DEF IInv, CopyInv
        <5> QED
          BY <1>13, <5>2 DEF BlocksIn, Recycle
      <4>4. CASE phase = "done"
        BY SMTT(60), <4>4 DEF IInv, HeadInv, BlocksIn
      <4> QED
        BY <4>1, <4>2, <4>3, <4>4 DEF IInv, TypeOK, Recovering
    <3> QED
      BY <1>13, <3>1 DEF IInv, CleanInv, Recycle
  <2>4. ~Recovering => \A c \in Block : bread(c)' = bread(c)
    BY SMTT(60), <1>13, <2>3 DEF IInv, bread, diskvars, Recycle
  <2>5. View' = View
    BY <1>13, <2>1, <2>4 DEF View, Recovering, Recycle
  <2> QED
    BY <2>1, <2>2, <2>5 DEF CSD!vars
<1>14. ASSUME NEW b \in Block, reader_bread(b) PROVE [CSD!Next]_(CSD!vars)
  <2>1. Recovered' = Recovered
    BY <1>14 DEF Recovered, diskvars, reader_bread
  <2>2. Active' = Active
    BY <1>14 DEF Active, reader_bread
  <2>3. ~Recovering => \A c \in Block : bread(c)' = bread(c)
    BY SMTT(60), <1>14 DEF bread, diskvars, reader_bread
  <2>4. View' = View
    BY <1>14, <2>1, <2>3 DEF View, Recovering, reader_bread
  <2> QED
    BY <2>1, <2>2, <2>4 DEF CSD!vars
<1>15. CASE Crash
  <2>1. Recovered' = Recovered
    <3>1. phase \in {"install", "rec_install"} => lh[tail] \in BlocksIn(dhead)
      BY SMTT(60) DEF IInv, HeadInv, BlocksIn
    <3>2. \A b \in Block \ BlocksIn(dhead) : disk'[b] = disk[b]
      BY <1>15, <3>1 DEF IInv, TypeOK, Crash
    <3>3. dlog' = dlog \/ dhead = <<>>
      BY <1>15 DEF IInv, HeadInv, Crash
    <3> QED
      BY SMTT(60), <1>15, <3>2, <3>3, InstallSame DEF Recovered, Crash
  <2>2. Active' = {}
    BY <1>15 DEF Active, InOp, Crash
  <2>3. View' = Recovered'
    BY <1>15 DEF View, Recovering, Crash
  <2> QED
    BY <2>1, <2>2, <2>3 DEF CSD!Next, CSD!Crash
<1>16. CASE UNCHANGED vars
  BY <1>16 DEF CSD!vars, vars, Recovered, View, Recovering, bread, Active
<1> QED
  BY <1>1, <1>2, <1>3, <1>4, <1>5, <1>6, <1>7, <1>8, <1>9, <1>10, <1>11, <1>12,
     <1>13, <1>14, <1>15, <1>16 DEF Next, OpStep, LogStep

\* log.c makes the file system's system calls atomic with respect to crashes.
THEOREM LogImplementsCrashSafeDisk ==
  ASSUME Slack
  PROVE  Spec => CrashAtomic
<1>1. Init => CSD!Init
  <2>1. ASSUME Init PROVE Recovered = [b \in Block |-> Zero]
    <3>1. BlocksIn(dhead) = {}
      BY SMTT(60), <2>1 DEF Init, BlocksIn
    <3> QED
      BY <2>1, <3>1 DEF Init, Recovered, Install
  <2>2. ASSUME Init PROVE View = Recovered /\ Active = {}
    BY <2>2 DEF Init, View, Recovering, Active, InOp
  <2> QED
    BY <2>1, <2>2 DEF CSD!Init
<1>2. IInv /\ [Next]_vars => [CSD!Next]_(CSD!vars)
  BY StepRefines
<1> QED
  BY <1>1, <1>2, Invariance, PTL DEF Spec, CrashAtomic, CSD!Spec
=============================================================================
