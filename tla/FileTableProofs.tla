-------------------------- MODULE FileTableProofs --------------------------
(***************************************************************************)
(* The reference counts of module FileTable, for any number of processes,  *)
(* descriptors, entries, inodes and pipes.                                 *)
(*                                                                         *)
(* A count is the size of a set of owners.  A step adds one owner to such  *)
(* a set, takes one from it or moves one from a set to another, and the    *)
(* code adjusts the counter accordingly.                                   *)
(***************************************************************************)
EXTENDS FileTable, TLAPS

USE ZenonT(120)

\* Subsets A and B of S that agree but for a, and how many they are.
Near(S, A, B, a) == A \in SUBSET S /\ B \in SUBSET S /\ \A x \in S : x # a => (x \in A <=> x \in B)
Apart(A, B, a) ==
  /\ Cardinality(A) \in Nat /\ Cardinality(B) \in Nat
  /\ (a \in A <=> a \in B) => A = B
  /\ a \notin A /\ a \in B => Cardinality(B) = Cardinality(A) + 1
  /\ a \in A /\ a \notin B => Cardinality(A) = Cardinality(B) + 1

\* Facts about finite sets, which the end of the module proves.
Counting ==
  /\ \A S, A, B : \A a \in S : IsFiniteSet(S) /\ Near(S, A, B, a) => Apart(A, B, a)
  /\ \A S : IsFiniteSet(S) => \A A \in SUBSET S : Cardinality(A) \in Nat /\ (Cardinality(A) = 0 => A = {})
  /\ Cardinality({}) = 0 /\ \A x : Cardinality({x}) = 1
  /\ IsFiniteSet(Fd) /\ IsFiniteSet(File) /\ IsFiniteSet(Local) /\ IsFiniteSet(Proc)
  /\ IsFiniteSet(Proc \X Fd) /\ IsFiniteSet(Proc \X Local)

LEMMA Differ ==
  ASSUME Counting, NEW S, IsFiniteSet(S), NEW A, NEW B, NEW a \in S, Near(S, A, B, a)
  PROVE  Apart(A, B, a)
BY DEF Counting

LEMMA Finite ==
  ASSUME Counting
  PROVE  /\ IsFiniteSet(Fd) /\ IsFiniteSet(File) /\ IsFiniteSet(Local) /\ IsFiniteSet(Proc)
         /\ IsFiniteSet(Proc \X Fd) /\ IsFiniteSet(Proc \X Local)
BY DEF Counting

LEMMA SmallCount ==
  ASSUME Counting
  PROVE  /\ Cardinality({}) = 0 /\ \A x : Cardinality({x}) = 1
         /\ \A S : IsFiniteSet(S) => \A A \in SUBSET S : Cardinality(A) \in Nat /\ (Cardinality(A) = 0 => A = {})
BY DEF Counting

-----------------------------------------------------------------------------
(* The inductive invariant.                                                *)

\* Entry e, or a copy of it, holds a reference to inode o or to end s of pipe o.
Names(e, t, o, s) == e.type = t /\ e.obj = o /\ (t = "FD_PIPE" => EndOf(e) = s)
Live(fl, t, o, s) == {f \in File : fl[f].ref > 0 /\ Names(fl[f], t, o, s)}
Late(g, t, o, s) == {p \in Proc : Names(g[p], t, o, s)}
Tot(fl, g, t, o, s) == Cardinality(Live(fl, t, o, s)) + Cardinality(Late(g, t, o, s))
Object == {"FD_PIPE", "FD_INODE"}
Having(m, i) == Cardinality({p \in Proc : m[p] = i})

InodeInv == \A i \in Inode : iref[i] = Tot(file, ff, "FD_INODE", i, "r") + Having(cwd, i) + Having(ip, i)
PipeInv ==
  \A q \in Pipe, end \in {"r", "w"} : Tot(file, ff, "FD_PIPE", q, end) = IF end \in pipe[q] THEN 1 ELSE 0

\* A variable of a call owns its entry alone; a descriptor's entry has a type,
\* and an entry that is not in use has none.
PtrType ==
  /\ file \in [File -> Entry] /\ ff \in [Proc -> Entry]
  /\ ofile \in [Proc -> [Fd -> File \cup {0}]] /\ local \in [Proc -> [Local -> File \cup {0}]]
Sole ==
  /\ \A p, q \in Proc, j, k \in Local : local[p][j] # 0 /\ local[p][j] = local[q][k] => p = q /\ j = k
  /\ \A p, q \in Proc, k \in Local, d \in Fd : local[p][k] # 0 => local[p][k] # ofile[q][d]
Typed == \A p \in Proc, d \in Fd : ofile[p][d] # 0 => file[ofile[p][d]].type # "FD_NONE"
FreeNone == \A f \in File : file[f].ref = 0 => file[f].type = "FD_NONE"
PtrInv == PtrType /\ FileRefs /\ Sole /\ Typed /\ FreeNone /\ ~panicked

Place == {"idle", "open", "pipe1", "pipe2", "drop", "fork", "exit"}
ProcType ==
  /\ ip \in [Proc -> Inode \cup {Nil}] /\ cwd \in [Proc -> Inode \cup {Nil}]
  /\ state \in [Proc -> {"UNUSED", "EMBRYO", "RUNNING"}]
  /\ pc \in [Proc -> Place]
  /\ fd \in [Proc -> 0 .. NOFILE]
  /\ child \in [Proc -> Proc \cup {Nil}]
  /\ pipe \in [Pipe -> SUBSET {"r", "w"}]
  /\ iref \in [Inode -> Int]

\* What the variables of a process are at each place of its calls.
Frame(p) ==
  /\ \A k \in Local : local[p][k] # 0 => pc[p] \in {"pipe1", "pipe2", "drop"}
  /\ pc[p] = "pipe1" => local[p][1] # 0 /\ local[p][2] = 0
  /\ pc[p] = "pipe2" => local[p][1] # 0 /\ local[p][2] # 0
  /\ pc[p] \in {"pipe1", "pipe2"} =>
       \A k \in Local : local[p][k] # 0 => file[local[p][k]].type = "FD_NONE"
  /\ ip[p] # Nil => pc[p] \in {"open", "drop"}
Slot(p) ==
  /\ state[p] # "RUNNING" => pc[p] = "idle" /\ cwd[p] = Nil
  /\ state[p] = "UNUSED" => \A d \in Fd : ofile[p][d] = 0
  /\ pc[p] = "fork" => /\ child[p] \in Proc /\ state[child[p]] = "EMBRYO"
                       /\ \A d \in Fd : fd[p] <= d => ofile[child[p]][d] = 0
Children == \A p, q \in Proc : pc[p] = "fork" /\ pc[q] = "fork" /\ child[p] = child[q] => p = q

ProcInv == ProcType /\ (\A p \in Proc : Frame(p)) /\ (\A p \in Proc : Slot(p)) /\ Children

IInv == PtrInv /\ ProcInv /\ InodeInv /\ PipeInv

-----------------------------------------------------------------------------
(* Pointers to entries.                                                    *)

Ptr(m, S, f) == {x \in Proc \X S : m[x[1]][x[2]] = f}

LEMMA Pair ==
  ASSUME NEW S, NEW T, NEW x \in S, NEW y \in T
  PROVE  <<x, y>> \in S \X T /\ <<x, y>>[1] = x /\ <<x, y>>[2] = y
OBVIOUS

LEMMA Parts ==
  ASSUME NEW S, NEW T, NEW x \in S \X T
  PROVE  x[1] \in S /\ x[2] \in T /\ x = <<x[1], x[2]>>
BY SMTT(60)

LEMMA Holding ==
  /\ \A f : Holders(f) = Ptr(ofile, Fd, f) /\ FrameHolders(f) = Ptr(local, Local, f)
  /\ \A f : Holders(f)' = Ptr(ofile', Fd, f) /\ FrameHolders(f)' = Ptr(local', Local, f)
BY DEF Holders, FrameHolders, Ptr

\* m and n agree but for pointer a; n is m with one pointer changed.
Agree(m, n, S, a) == \A x \in Proc \X S : x # a => n[x[1]][x[2]] = m[x[1]][x[2]]
Puts(m, n, p, d, v) == n = [m EXCEPT ![p][d] = v]

\* The pointers to f, when one changes from u to v.
Moved(m, n, S, u, v, f) ==
  /\ Cardinality(Ptr(n, S, f)) \in Nat /\ Cardinality(Ptr(m, S, f)) \in Nat
  /\ f = v => Cardinality(Ptr(n, S, f)) = Cardinality(Ptr(m, S, f)) + 1
  /\ f = u => Cardinality(Ptr(m, S, f)) = Cardinality(Ptr(n, S, f)) + 1
  /\ f # v /\ f # u => Ptr(n, S, f) = Ptr(m, S, f)

LEMMA PtrDiffer ==
  ASSUME Counting, NEW S, IsFiniteSet(Proc \X S), NEW m, NEW n, NEW a \in Proc \X S, Agree(m, n, S, a),
         NEW u, NEW v, u # v, u = m[a[1]][a[2]], v = n[a[1]][a[2]], NEW f
  PROVE  Moved(m, n, S, u, v, f)
<1>1. Ptr(m, S, f) \in SUBSET (Proc \X S) /\ Ptr(n, S, f) \in SUBSET (Proc \X S)
  BY DEF Ptr
<1>2. \A x \in Proc \X S : x # a => (x \in Ptr(m, S, f) <=> x \in Ptr(n, S, f))
  BY DEF Ptr, Agree
<1>3. (a \in Ptr(m, S, f) <=> f = u) /\ (a \in Ptr(n, S, f) <=> f = v)
  BY DEF Ptr
<1>4. Near(Proc \X S, Ptr(m, S, f), Ptr(n, S, f), a)
  BY <1>1, <1>2 DEF Near
<1>5. Apart(Ptr(m, S, f), Ptr(n, S, f), a)
  BY <1>4, Differ
<1> QED
  BY <1>3, <1>5 DEF Moved, Apart

LEMMA PtrPut ==
  ASSUME Counting, NEW S, IsFiniteSet(Proc \X S), NEW m \in [Proc -> [S -> File \cup {0}]],
         NEW p \in Proc, NEW d \in S, NEW v \in File \cup {0}, v # m[p][d],
         NEW n, Puts(m, n, p, d, v)
  PROVE  /\ n \in [Proc -> [S -> File \cup {0}]] /\ n[p][d] = v
         /\ \A q \in Proc, e \in S : q # p \/ e # d => n[q][e] = m[q][e]
         /\ \A f : Moved(m, n, S, m[p][d], v, f)
<1>1. n \in [Proc -> [S -> File \cup {0}]] /\ n[p][d] = v
  BY SMTT(60) DEF Puts
<1>2. \A q \in Proc, e \in S : q # p \/ e # d => n[q][e] = m[q][e]
  BY SMTT(60) DEF Puts
<1>3. PICK a : a = <<p, d>>
  OBVIOUS
<1>4. a \in Proc \X S /\ a[1] = p /\ a[2] = d
  BY <1>3, Pair
<1>5. Agree(m, n, S, a)
  <2> SUFFICES ASSUME NEW x \in Proc \X S, x # a PROVE n[x[1]][x[2]] = m[x[1]][x[2]]
    BY DEF Agree
  <2>1. x[1] \in Proc /\ x[2] \in S /\ x = <<x[1], x[2]>>
    BY Parts
  <2>2. x[1] # p \/ x[2] # d
    BY <1>3, <2>1
  <2> QED
    BY <1>2, <2>1, <2>2
<1>6. PICK u : u = m[p][d]
  OBVIOUS
<1>7. u # v /\ u = m[a[1]][a[2]] /\ v = n[a[1]][a[2]]
  BY <1>1, <1>4, <1>6
<1>8. \A f : Moved(m, n, S, u, v, f)
  BY <1>4, <1>5, <1>7, PtrDiffer
<1> QED
  BY <1>1, <1>2, <1>6, <1>8

\* The same for the two kinds of pointer.
FdMoved(u, v, f) ==
  /\ f = v => Cardinality(Holders(f)') = Cardinality(Holders(f)) + 1
  /\ f = u => Cardinality(Holders(f)) = Cardinality(Holders(f)') + 1
  /\ f # v /\ f # u => Holders(f)' = Holders(f)
  /\ Cardinality(Holders(f)') \in Nat
LocalMoved(u, v, f) ==
  /\ f = v => Cardinality(FrameHolders(f)') = Cardinality(FrameHolders(f)) + 1
  /\ f = u => Cardinality(FrameHolders(f)) = Cardinality(FrameHolders(f)') + 1
  /\ f # v /\ f # u => FrameHolders(f)' = FrameHolders(f)
  /\ Cardinality(FrameHolders(f)') \in Nat

LEMMA FdPut ==
  ASSUME Counting, PtrType, NEW p \in Proc, NEW d \in Fd, NEW v \in File \cup {0}, v # ofile[p][d],
         Puts(ofile, ofile', p, d, v)
  PROVE  /\ ofile' \in [Proc -> [Fd -> File \cup {0}]] /\ ofile'[p][d] = v
         /\ \A q \in Proc, e \in Fd : q # p \/ e # d => ofile'[q][e] = ofile[q][e]
         /\ \A f : FdMoved(ofile[p][d], v, f)
<1>1. ofile \in [Proc -> [Fd -> File \cup {0}]] /\ IsFiniteSet(Proc \X Fd)
  BY Finite DEF PtrType
<1>2. /\ ofile' \in [Proc -> [Fd -> File \cup {0}]] /\ ofile'[p][d] = v
      /\ \A q \in Proc, e \in Fd : q # p \/ e # d => ofile'[q][e] = ofile[q][e]
      /\ \A f : Moved(ofile, ofile', Fd, ofile[p][d], v, f)
  BY <1>1, PtrPut
<1> QED
  BY <1>2, Holding DEF Moved, FdMoved

LEMMA LocalPut ==
  ASSUME Counting, PtrType, NEW p \in Proc, NEW k \in Local, NEW v \in File \cup {0}, v # local[p][k],
         Puts(local, local', p, k, v)
  PROVE  /\ local' \in [Proc -> [Local -> File \cup {0}]] /\ local'[p][k] = v
         /\ \A q \in Proc, j \in Local : q # p \/ j # k => local'[q][j] = local[q][j]
         /\ \A f : LocalMoved(local[p][k], v, f)
<1>1. local \in [Proc -> [Local -> File \cup {0}]] /\ IsFiniteSet(Proc \X Local)
  BY Finite DEF PtrType
<1>2. /\ local' \in [Proc -> [Local -> File \cup {0}]] /\ local'[p][k] = v
      /\ \A q \in Proc, j \in Local : q # p \/ j # k => local'[q][j] = local[q][j]
      /\ \A f : Moved(local, local', Local, local[p][k], v, f)
  BY <1>1, PtrPut
<1> QED
  BY <1>2, Holding DEF Moved, LocalMoved

LEMMA FdSet ==
  ASSUME Counting, PtrType, NEW p \in Proc, NEW d \in Fd, ofile[p][d] = 0, NEW f \in File,
         Puts(ofile, ofile', p, d, f)
  PROVE  /\ ofile' \in [Proc -> [Fd -> File \cup {0}]] /\ ofile'[p][d] = f
         /\ \A q \in Proc, e \in Fd : q # p \/ e # d => ofile'[q][e] = ofile[q][e]
         /\ \A g \in File : FdMoved(0, f, g)
<1>1. f # 0 /\ f \in File \cup {0}
  BY SMTT(60) DEF File
<1> QED
  BY <1>1, FdPut

LEMMA FdClear ==
  ASSUME Counting, PtrType, NEW p \in Proc, NEW d \in Fd, NEW f, f = ofile[p][d], f # 0,
         Puts(ofile, ofile', p, d, 0)
  PROVE  /\ ofile' \in [Proc -> [Fd -> File \cup {0}]] /\ ofile'[p][d] = 0
         /\ \A q \in Proc, e \in Fd : q # p \/ e # d => ofile'[q][e] = ofile[q][e]
         /\ \A g \in File : FdMoved(f, 0, g)
<1>1. 0 \in File \cup {0}
  OBVIOUS
<1> QED
  BY <1>1, FdPut

LEMMA LocalSet ==
  ASSUME Counting, PtrType, NEW p \in Proc, NEW k \in Local, local[p][k] = 0, NEW f \in File,
         Puts(local, local', p, k, f)
  PROVE  /\ local' \in [Proc -> [Local -> File \cup {0}]] /\ local'[p][k] = f
         /\ \A q \in Proc, e \in Local : q # p \/ e # k => local'[q][e] = local[q][e]
         /\ \A g \in File : LocalMoved(0, f, g)
<1>1. f # 0 /\ f \in File \cup {0}
  BY SMTT(60) DEF File
<1> QED
  BY <1>1, LocalPut

LEMMA LocalClear ==
  ASSUME Counting, PtrType, NEW p \in Proc, NEW k \in Local, NEW f, f = local[p][k], f # 0,
         Puts(local, local', p, k, 0)
  PROVE  /\ local' \in [Proc -> [Local -> File \cup {0}]] /\ local'[p][k] = 0
         /\ \A q \in Proc, e \in Local : q # p \/ e # k => local'[q][e] = local[q][e]
         /\ \A g \in File : LocalMoved(f, 0, g)
<1>1. 0 \in File \cup {0}
  OBVIOUS
<1> QED
  BY <1>1, LocalPut

LEMMA CountNat ==
  ASSUME Counting, NEW f
  PROVE  /\ Cardinality(Holders(f)) \in Nat /\ (Cardinality(Holders(f)) = 0 => Holders(f) = {})
         /\ Cardinality(FrameHolders(f)) \in Nat /\ (Cardinality(FrameHolders(f)) = 0 => FrameHolders(f) = {})
<1>1. Holders(f) \in SUBSET (Proc \X Fd) /\ FrameHolders(f) \in SUBSET (Proc \X Local)
  BY DEF Holders, FrameHolders
<1> QED
  BY <1>1, Finite, SmallCount

\* An entry with a descriptor is in use, and with one reference it has no other.
FdHolds(p, d, f) ==
  /\ f \in File /\ file[f].ref \in Nat /\ file[f].ref >= 1
  /\ file[f].ref = 1 => /\ \A q \in Proc, e \in Fd : ofile[q][e] = f => q = p /\ e = d
                        /\ \A q \in Proc, k \in Local : local[q][k] # f

LEMMA HeldFd ==
  ASSUME Counting, PtrInv, NEW p \in Proc, NEW d \in Fd, NEW f, f = ofile[p][d], f # 0
  PROVE  FdHolds(p, d, f)
<1>1. f \in File
  BY SMTT(60) DEF PtrInv, PtrType
<1>2. file[f].ref = Cardinality(Holders(f)) + Cardinality(FrameHolders(f))
  BY <1>1 DEF PtrInv, FileRefs
<1>3. PICK a \in Proc \X Fd : a = <<p, d>> /\ a[1] = p /\ a[2] = d
  <2>1. PICK a : a = <<p, d>>
    OBVIOUS
  <2>2. a \in Proc \X Fd /\ a[1] = p /\ a[2] = d
    BY <2>1, Pair
  <2> QED
    BY <2>1, <2>2
<1>4. a \in Holders(f)
  BY <1>3 DEF Holders
<1>5. PICK A : A = Holders(f) \ {a}
  OBVIOUS
<1>6. /\ Cardinality(A) \in Nat /\ (Cardinality(A) = 0 => A = {})
      /\ Cardinality(Holders(f)) = Cardinality(A) + 1
  <2>1. PICK H : H = Holders(f)
    OBVIOUS
  <2>2. H \in SUBSET (Proc \X Fd) /\ A \in SUBSET (Proc \X Fd)
    BY <1>5, <2>1 DEF Holders
  <2>3. (\A x \in Proc \X Fd : x # a => (x \in A <=> x \in H)) /\ a \notin A /\ a \in H
    BY <1>4, <1>5, <2>1
  <2>4. Near(Proc \X Fd, A, H, a)
    BY <2>2, <2>3 DEF Near
  <2>5. Apart(A, H, a)
    BY <2>4, Finite, Differ
  <2>6. Cardinality(H) = Cardinality(A) + 1
    BY <2>3, <2>5 DEF Apart
  <2> QED
    BY <2>1, <2>2, <2>6, Finite, SmallCount
<1>7. PICK h \in Nat, c \in Nat, r \in Nat : h = Cardinality(A) /\ c = Cardinality(FrameHolders(f)) /\ r = Cardinality(Holders(f))
  BY <1>6, CountNat
<1>8. r = h + 1 /\ file[f].ref = r + c
  BY <1>2, <1>6, <1>7, CountNat
<1>9. r + c \in Nat /\ r + c >= 1 /\ (r + c = 1 => h = 0 /\ c = 0)
  BY SMTT(60), <1>7, <1>8
<1>10. ASSUME file[f].ref = 1
       PROVE  /\ \A q \in Proc, e \in Fd : ofile[q][e] = f => q = p /\ e = d
              /\ \A q \in Proc, k \in Local : local[q][k] # f
  <2>1. h = 0 /\ c = 0
    BY <1>8, <1>9, <1>10
  <2>2. A = {} /\ FrameHolders(f) = {}
    BY <1>6, <1>7, <2>1, CountNat
  <2>3. ASSUME NEW q \in Proc, NEW e \in Fd, ofile[q][e] = f PROVE q = p /\ e = d
    <3>1. <<q, e>> \in Holders(f)
      BY <2>3 DEF Holders
    <3> QED
      BY SMTT(60), <1>3, <1>5, <2>2, <3>1
  <2>4. ASSUME NEW q \in Proc, NEW k \in Local, local[q][k] = f PROVE FALSE
    <3>1. <<q, k>> \in FrameHolders(f)
      BY <2>4 DEF FrameHolders
    <3> QED
      BY <2>2, <3>1
  <2> QED
    BY <2>3, <2>4
<1> QED
  BY <1>1, <1>8, <1>9, <1>10 DEF FdHolds

\* An entry that a call's variable points to has that reference and no other.
LEMMA HeldLocal ==
  ASSUME Counting, PtrInv, NEW p \in Proc, NEW k \in Local, NEW f, f = local[p][k], f # 0
  PROVE  f \in File /\ file[f].ref = 1
<1>1. f \in File
  BY SMTT(60) DEF PtrInv, PtrType
<1>2. Holders(f) = {}
  BY SMTT(60) DEF Holders, PtrInv, Sole
<1>3. FrameHolders(f) = {<<p, k>>}
  BY SMTT(60) DEF FrameHolders, PtrInv, Sole
<1>4. Cardinality(Holders(f)) = 0 /\ Cardinality(FrameHolders(f)) = 1
  BY <1>2, <1>3, SmallCount
<1>5. file[f].ref = 0 + 1
  BY <1>1, <1>4 DEF PtrInv, FileRefs
<1> QED
  BY SMTT(60), <1>1, <1>5

LEMMA LocalSole ==
  ASSUME PtrInv, NEW p \in Proc, NEW q \in Proc, NEW j \in Local, NEW k \in Local,
         local[p][j] # 0, local[p][j] = local[q][k]
  PROVE  p = q /\ j = k
<1>1. \A x, y \in Proc : \A l, m \in Local : local[x][l] # 0 /\ local[x][l] = local[y][m] => x = y /\ l = m
  BY DEF PtrInv, Sole
<1> QED
  BY SMTT(60), <1>1

LEMMA Unheld ==
  ASSUME Counting, PtrInv, NEW f \in File, file[f].ref = 0
  PROVE  (\A p \in Proc, d \in Fd : ofile[p][d] # f) /\ (\A p \in Proc, k \in Local : local[p][k] # f)
<1>1. f # 0
  BY SMTT(60) DEF File
<1>2. ~(0 >= 1) /\ 0 # 1
  BY SMTT(60)
<1>3. ASSUME NEW p \in Proc, NEW d \in Fd, ofile[p][d] = f PROVE FALSE
  <2>1. FdHolds(p, d, f)
    BY <1>1, <1>3, HeldFd
  <2> QED
    BY <1>2, <2>1 DEF FdHolds
<1>4. ASSUME NEW p \in Proc, NEW k \in Local, local[p][k] = f PROVE FALSE
  BY <1>1, <1>2, <1>4, HeldLocal
<1> QED
  BY <1>3, <1>4

-----------------------------------------------------------------------------
(* filedup(), fileclose() and filealloc() on the table.                    *)

\* e names what g names.
SameObject(e, g) == e.type = g.type /\ e.obj = g.obj /\ e.writable = g.writable
OneEntry(m, n, f) == n \in [File -> Entry] /\ \A g \in File : g # f => n[g] = m[g]

TotKept == \A t \in Object : \A o, s : Tot(file', ff', t, o, s) = Tot(file, ff, t, o, s)
LocalKept ==
  \A q \in Proc, k \in Local : local'[q][k] # 0 /\ local'[q][k] = local[q][k] =>
    file'[local[q][k]].type = file[local[q][k]].type

LEMMA NotNone == \A t \in Object : t # "FD_NONE"
BY DEF Object

LEMMA PutEntry ==
  ASSUME PtrType, NEW f \in File, NEW e \in Entry, file' = [file EXCEPT ![f] = e]
  PROVE  OneEntry(file, file', f) /\ file'[f] = e
BY SMTT(60) DEF PtrType, OneEntry

LEMMA DupFacts ==
  ASSUME PtrType, NEW f \in File, file[f].ref >= 1, filedup(f)
  PROVE  /\ ~panicked' /\ OneEntry(file, file', f) /\ SameObject(file'[f], file[f])
         /\ file'[f].ref = file[f].ref + 1
<1>1. file[f] \in Entry /\ file[f].ref \in Nat /\ ~(file[f].ref < 1)
  BY SMTT(60) DEF PtrType, Entry
<1>2. PICK e : e = [file[f] EXCEPT !.ref = file[f].ref + 1]
  OBVIOUS
<1>3. e \in Entry /\ SameObject(e, file[f]) /\ e.ref = file[f].ref + 1
  BY SMTT(60), <1>1, <1>2 DEF Entry, SameObject
<1>4. file' = [file EXCEPT ![f] = e]
  BY SMTT(60), <1>1, <1>2 DEF filedup
<1> QED
  BY <1>1, <1>3, <1>4, PutEntry DEF filedup

LEMMA TypePut ==
  ASSUME NEW c \in Entry, NEW t \in Type, NEW e, e = [c EXCEPT !.type = t]
  PROVE  e \in Entry /\ e.type = t /\ e.ref = c.ref /\ e.obj = c.obj /\ e.writable = c.writable
BY SMTT(60) DEF Entry

LEMMA PutTwice ==
  ASSUME NEW S, NEW T, NEW m \in [S -> T], NEW x \in S, NEW c, NEW e
  PROVE  [[m EXCEPT ![x] = c] EXCEPT ![x] = e] = [m EXCEPT ![x] = e]
OBVIOUS

LEMMA CloseFacts ==
  ASSUME PtrType, NEW p \in Proc, NEW f \in File, file[f].ref >= 1, fileclose(p, f)
  PROVE  /\ ~panicked' /\ OneEntry(file, file', f)
         /\ ff' \in [Proc -> Entry] /\ \A q \in Proc : q # p => ff'[q] = ff[q]
         /\ file'[f].ref = file[f].ref - 1
         /\ file[f].ref = 1 => file'[f].type = "FD_NONE" /\ SameObject(ff'[p], file[f])
         /\ file[f].ref # 1 => SameObject(file'[f], file[f]) /\ ff'[p] = ff[p]
<1>1. file[f] \in Entry /\ file[f].ref \in Nat /\ ~(file[f].ref < 1) /\ ff[p] \in Entry
  BY SMTT(60) DEF PtrType, Entry
<1>2. PICK last : last = (file[f].ref = 1)
  OBVIOUS
<1>3. PICK t, r, c, e : /\ t = IF last THEN "FD_NONE" ELSE file[f].type
                        /\ r = file[f].ref - 1
                        /\ c = [file[f] EXCEPT !.ref = r] /\ e = [c EXCEPT !.type = t]
  OBVIOUS
<1>4. c \in Entry /\ e \in Entry /\ e.ref = r /\ e.type = t /\ e.obj = file[f].obj /\ e.writable = file[f].writable
  <2>1. r \in Nat
    BY SMTT(60), <1>1, <1>3
  <2>2. t \in Type
    <3>1. file[f].type \in Type /\ "FD_NONE" \in Type
      BY SMTT(60), <1>1 DEF Entry, Type
    <3> QED
      BY <1>3, <3>1
  <2>3. c \in Entry /\ c.ref = r /\ c.obj = file[f].obj /\ c.writable = file[f].writable
    BY SMTT(60), <1>1, <1>3, <2>1 DEF Entry
  <2>4. e \in Entry /\ e.type = t /\ e.ref = c.ref /\ e.obj = c.obj /\ e.writable = c.writable
    <3>1. e = [c EXCEPT !.type = t] /\ c \in Entry
      BY <1>3, <2>3
    <3> QED
      BY SMTT(60), <2>2, <3>1, TypePut
  <2> QED
    BY <2>3, <2>4
<1>5. file' = [file EXCEPT ![f] = e]
  <2>1. /\ (IF file[f].ref < 1 THEN file[f].ref ELSE file[f].ref - 1) = r
        /\ (IF file[f].ref = 1 THEN "FD_NONE" ELSE file[f].type) = t
    BY <1>1, <1>2, <1>3
  <2>2. file' = [file EXCEPT ![f].ref = IF @ < 1 THEN @ ELSE @ - 1,
                              ![f].type = IF file[f].ref = 1 THEN "FD_NONE" ELSE @]
    BY DEF fileclose
  <2>3. PICK h : h = [file EXCEPT ![f] = c]
    OBVIOUS
  <2>4. file' = [h EXCEPT ![f].type = IF file[f].ref = 1 THEN "FD_NONE" ELSE @]
    BY SMTT(60), <1>1, <1>3, <2>1, <2>2, <2>3 DEF PtrType
  <2>5. h \in [File -> Entry] /\ h[f] = c /\ c.type = file[f].type /\ \A g \in File : g # f => h[g] = file[g]
    BY SMTT(60), <1>1, <1>3, <1>4, <2>3 DEF PtrType, Entry
  <2>6. file' = [h EXCEPT ![f] = e]
    <3>1. (IF file[f].ref = 1 THEN "FD_NONE" ELSE h[f].type) = t
      BY <2>1, <2>5
    <3>2. file' = [h EXCEPT ![f] = [h[f] EXCEPT !.type = t]]
      BY <2>4, <3>1
    <3> QED
      BY <1>3, <2>5, <3>2
  <2>7. file' = [[file EXCEPT ![f] = c] EXCEPT ![f] = e]
    BY <2>3, <2>6
  <2> QED
    BY <2>7, PutTwice DEF PtrType
<1>6. PICK g : g = [file[f] EXCEPT !.ref = 0]
  OBVIOUS
<1>7. g \in Entry /\ SameObject(g, file[f])
  BY SMTT(60), <1>1, <1>6 DEF Entry, SameObject
<1>8. ff' = [ff EXCEPT ![p] = IF last THEN g ELSE ff[p]]
  BY <1>2, <1>6 DEF fileclose
<1>9. ff' \in [Proc -> Entry] /\ (\A q \in Proc : q # p => ff'[q] = ff[q]) /\ ff'[p] = IF last THEN g ELSE ff[p]
  BY SMTT(60), <1>1, <1>7, <1>8 DEF PtrType
<1>10. OneEntry(file, file', f) /\ file'[f] = e
  BY <1>4, <1>5, PutEntry
<1> QED
  BY <1>1, <1>2, <1>3, <1>4, <1>7, <1>9, <1>10 DEF fileclose, SameObject

LEMMA AllocFacts ==
  ASSUME PtrType, NEW f \in File, file' = [file EXCEPT ![f].ref = 1]
  PROVE  OneEntry(file, file', f) /\ SameObject(file'[f], file[f]) /\ file'[f].ref = 1
<1>1. file[f] \in Entry
  BY DEF PtrType
<1>2. PICK e : e = [file[f] EXCEPT !.ref = 1]
  OBVIOUS
<1>3. e \in Entry /\ SameObject(e, file[f]) /\ e.ref = 1
  BY SMTT(60), <1>1, <1>2 DEF Entry, SameObject
<1>4. file' = [file EXCEPT ![f] = e]
  BY SMTT(60), <1>1, <1>2
<1> QED
  BY <1>3, <1>4, PutEntry

LEMMA SameNames ==
  ASSUME NEW e, NEW g, SameObject(e, g), NEW t, NEW o, NEW s
  PROVE  Names(e, t, o, s) <=> Names(g, t, o, s)
BY DEF SameObject, Names, EndOf

\* How the set of entries that name an object changes with one entry.
LEMMA LivePut ==
  ASSUME Counting, NEW m, NEW n, NEW f \in File, OneEntry(m, n, f), NEW t, NEW o, NEW s
  PROVE  /\ Apart(Live(m, t, o, s), Live(n, t, o, s), f)
         /\ f \in Live(m, t, o, s) <=> m[f].ref > 0 /\ Names(m[f], t, o, s)
         /\ f \in Live(n, t, o, s) <=> n[f].ref > 0 /\ Names(n[f], t, o, s)
<1>1. PICK A, B : A = Live(m, t, o, s) /\ B = Live(n, t, o, s)
  OBVIOUS
<1>2. A \in SUBSET File /\ B \in SUBSET File
  BY <1>1 DEF Live
<1>3. \A x \in File : x # f => (x \in A <=> x \in B)
  BY <1>1 DEF Live, OneEntry
<1>4. Near(File, A, B, f)
  BY <1>2, <1>3 DEF Near
<1>5. Apart(A, B, f)
  BY <1>4, Finite, Differ
<1>6. /\ f \in A <=> m[f].ref > 0 /\ Names(m[f], t, o, s)
      /\ f \in B <=> n[f].ref > 0 /\ Names(n[f], t, o, s)
  BY <1>1 DEF Live
<1> QED
  BY <1>1, <1>5, <1>6

LEMMA LatePut ==
  ASSUME Counting, NEW p \in Proc, \A q \in Proc : q # p => ff'[q] = ff[q], NEW t, NEW o, NEW s
  PROVE  /\ Apart(Late(ff, t, o, s), Late(ff', t, o, s), p)
         /\ p \in Late(ff, t, o, s) <=> Names(ff[p], t, o, s)
         /\ p \in Late(ff', t, o, s) <=> Names(ff'[p], t, o, s)
<1>1. PICK A, B : A = Late(ff, t, o, s) /\ B = Late(ff', t, o, s)
  OBVIOUS
<1>2. A \in SUBSET Proc /\ B \in SUBSET Proc
  BY <1>1 DEF Late
<1>3. \A x \in Proc : x # p => (x \in A <=> x \in B)
  BY <1>1 DEF Late
<1>4. Near(Proc, A, B, p)
  BY <1>2, <1>3 DEF Near
<1>5. Apart(A, B, p)
  BY <1>4, Finite, Differ
<1>6. (p \in A <=> Names(ff[p], t, o, s)) /\ (p \in B <=> Names(ff'[p], t, o, s))
  BY <1>1 DEF Late
<1> QED
  BY <1>1, <1>5, <1>6

\* The same for the inodes of processes.
ButFor(m, n, p) == \A q \in Proc : q # p => n[q] = m[q]
Shift(m, n, i, was, is) ==
  /\ (was = i <=> is = i) => Having(n, i) = Having(m, i)
  /\ was # i /\ is = i => Having(n, i) = Having(m, i) + 1
  /\ was = i /\ is # i => Having(m, i) = Having(n, i) + 1

LEMMA HavingPut ==
  ASSUME Counting, NEW m, NEW n, NEW p \in Proc, ButFor(m, n, p), NEW i
  PROVE  Shift(m, n, i, m[p], n[p])
<1>1. PICK A, B : A = {q \in Proc : m[q] = i} /\ B = {q \in Proc : n[q] = i}
  OBVIOUS
<1>2. A \in SUBSET Proc /\ B \in SUBSET Proc
  BY <1>1
<1>3. \A x \in Proc : x # p => (x \in A <=> x \in B)
  BY <1>1 DEF ButFor
<1>4. Near(Proc, A, B, p)
  BY <1>2, <1>3 DEF Near
<1>5. Apart(A, B, p)
  BY <1>4, Finite, Differ
<1>6. (p \in A <=> m[p] = i) /\ (p \in B <=> n[p] = i)
  BY <1>1
<1> QED
  BY <1>1, <1>5, <1>6 DEF Apart, Having, Shift

-----------------------------------------------------------------------------
(* Steps that move a pointer.                                              *)

\* An entry that a descriptor points to.
Shared(f) ==
  /\ file[f].ref \in Nat /\ file[f].ref >= 1 /\ file[f].type # "FD_NONE"
  /\ \A q \in Proc, k \in Local : local[q][k] # f

LEMMA FdShared ==
  ASSUME Counting, PtrInv, NEW p \in Proc, NEW d \in Fd, ofile[p][d] # 0
  PROVE  ofile[p][d] \in File /\ Shared(ofile[p][d])
<1>1. PICK f : f = ofile[p][d] /\ f # 0
  OBVIOUS
<1>2. FdHolds(p, d, f)
  BY <1>1, HeldFd
<1>3. file[f].type # "FD_NONE"
  BY <1>1 DEF PtrInv, Typed
<1>4. \A q \in Proc, k \in Local : local[q][k] # f
  BY SMTT(60), <1>1 DEF PtrInv, Sole
<1> QED
  BY <1>1, <1>2, <1>3, <1>4 DEF Shared, FdHolds

\* A pointer to f is copied to a descriptor: filedup().
LEMMA DupStep ==
  ASSUME Counting, PtrInv, NEW f \in File, Shared(f), filedup(f),
         NEW p \in Proc, NEW d \in Fd, ofile[p][d] = 0, Puts(ofile, ofile', p, d, f),
         UNCHANGED <<local, ff>>
  PROVE  PtrInv' /\ TotKept /\ LocalKept
<1>1. file[f].ref \in Nat /\ file[f].ref >= 1
  BY DEF Shared
<1>2. PtrType /\ ofile \in [Proc -> [Fd -> File \cup {0}]] /\ f \in File \cup {0}
  BY <1>1 DEF PtrInv, PtrType
<1>3. /\ ~panicked' /\ OneEntry(file, file', f) /\ SameObject(file'[f], file[f])
      /\ file'[f].ref = file[f].ref + 1
  BY <1>1, <1>2, DupFacts
<1>4. /\ ofile' \in [Proc -> [Fd -> File \cup {0}]] /\ ofile'[p][d] = f
      /\ \A x \in Proc, y \in Fd : x # p \/ y # d => ofile'[x][y] = ofile[x][y]
      /\ \A g \in File : FdMoved(0, f, g)
  BY <1>1, <1>2, FdSet
<1>5. PtrType'
  BY <1>2, <1>3, <1>4 DEF PtrType, OneEntry
<1>6. FileRefs'
  <2> SUFFICES ASSUME NEW g \in File
               PROVE  file'[g].ref = Cardinality(Holders(g)') + Cardinality(FrameHolders(g)')
    BY DEF FileRefs
  <2>1. FrameHolders(g)' = FrameHolders(g) /\ file[g].ref = Cardinality(Holders(g)) + Cardinality(FrameHolders(g))
    BY DEF FrameHolders, PtrInv, FileRefs
  <2>2. g # 0
    BY SMTT(60) DEF File
  <2>3. CASE g = f
    <3>1. PICK h \in Nat, c \in Nat : h = Cardinality(Holders(g)) /\ c = Cardinality(FrameHolders(g))
      BY CountNat
    <3>2. Cardinality(Holders(g)') = h + 1
      BY <1>4, <2>3, <3>1 DEF FdMoved
    <3>3. file'[g].ref = (h + c) + 1
      BY <1>3, <2>1, <2>3, <3>1
    <3>4. (h + c) + 1 = (h + 1) + c
      BY SMTT(60)
    <3> QED
      BY <2>1, <3>1, <3>2, <3>3, <3>4
  <2>4. CASE g # f
    <3>1. Holders(g)' = Holders(g) /\ file'[g] = file[g]
      BY <1>3, <1>4, <2>2, <2>4 DEF OneEntry, FdMoved
    <3> QED
      BY <2>1, <3>1
  <2> QED
    BY <2>3, <2>4
<1>7. \A x \in Proc, k \in Local : local[x][k] # f
  BY DEF Shared
<1>8. Sole'
  <2>1. ASSUME NEW x \in Proc, NEW y \in Proc, NEW k \in Local, NEW z \in Fd, local[x][k] # 0
        PROVE  local[x][k] # ofile'[y][z]
    BY SMTT(60), <1>4, <1>7, <2>1 DEF PtrInv, Sole
  <2> QED
    BY SMTT(60), <2>1 DEF PtrInv, Sole
<1>9. \A g \in File : file'[g].type = file[g].type
  BY <1>3 DEF OneEntry, SameObject
<1>10. Typed'
  <2> SUFFICES ASSUME NEW x \in Proc, NEW y \in Fd, ofile'[x][y] # 0
               PROVE  file'[ofile'[x][y]].type # "FD_NONE"
    BY DEF Typed
  <2>1. CASE x = p /\ y = d
    BY <1>4, <1>9, <2>1 DEF Shared
  <2>2. CASE x # p \/ y # d
    BY SMTT(60), <1>2, <1>4, <1>9, <2>2 DEF PtrInv, Typed
  <2> QED
    BY <2>1, <2>2
<1>11. FreeNone'
  <2> SUFFICES ASSUME NEW g \in File, file'[g].ref = 0 PROVE file'[g].type = "FD_NONE"
    BY DEF FreeNone
  <2>1. g # f
    BY SMTT(60), <1>1, <1>3
  <2> QED
    BY <1>3, <2>1 DEF OneEntry, PtrInv, FreeNone
<1>12. TotKept
  <2>1. file[f].ref > 0 /\ file'[f].ref > 0
    BY SMTT(60), <1>1, <1>3
  <2>2. ASSUME NEW t \in Object, NEW o, NEW s PROVE Live(file', t, o, s) = Live(file, t, o, s)
    BY SMTT(60), <1>1, <1>3, <2>1, LivePut, SameNames DEF Apart
  <2> QED
    BY <2>2 DEF TotKept, Tot
<1>13. LocalKept
  BY SMTT(60), <1>2, <1>9 DEF LocalKept, PtrType
<1> QED
  BY <1>3, <1>5, <1>6, <1>8, <1>10, <1>11, <1>12, <1>13 DEF PtrInv

\* fileclose() leaves the object to the copy when the reference is the last.
LEMMA CloseTot ==
  ASSUME Counting, PtrType, NEW p \in Proc, NEW f \in File, file[f].ref \in Nat, file[f].ref >= 1,
         fileclose(p, f), ff[p].type = "FD_NONE"
  PROVE  TotKept
<1> SUFFICES ASSUME NEW t \in Object, NEW o, NEW s
             PROVE  Tot(file', ff', t, o, s) = Tot(file, ff, t, o, s)
  BY DEF TotKept
<1>1. /\ OneEntry(file, file', f) /\ \A q \in Proc : q # p => ff'[q] = ff[q]
      /\ file'[f].ref = file[f].ref - 1
      /\ file[f].ref = 1 => file'[f].type = "FD_NONE" /\ SameObject(ff'[p], file[f])
      /\ file[f].ref # 1 => SameObject(file'[f], file[f]) /\ ff'[p] = ff[p]
  BY CloseFacts
<1>2. file[f].ref > 0 /\ (file[f].ref # 1 => file'[f].ref > 0)
  BY SMTT(60), <1>1
<1>3. ~Names(ff[p], t, o, s)
  BY NotNone DEF Names
<1>4. CASE file[f].ref # 1
  <2>1. Live(file', t, o, s) = Live(file, t, o, s)
    BY SMTT(60), <1>1, <1>2, <1>4, LivePut, SameNames DEF Apart
  <2>2. Late(ff', t, o, s) = Late(ff, t, o, s)
    BY <1>1, <1>4, LatePut DEF Apart
  <2> QED
    BY <2>1, <2>2 DEF Tot
<1>5. CASE file[f].ref = 1 /\ ~Names(file[f], t, o, s)
  <2>1. ~Names(file'[f], t, o, s) /\ ~Names(ff'[p], t, o, s)
    <3>1. file'[f].type = "FD_NONE" /\ SameObject(ff'[p], file[f])
      BY <1>1, <1>5
    <3>2. ~Names(file'[f], t, o, s)
      BY <3>1, NotNone DEF Names
    <3>3. ~Names(ff'[p], t, o, s)
      BY <1>5, <3>1, SameNames
    <3> QED
      BY <3>2, <3>3
  <2>2. Live(file', t, o, s) = Live(file, t, o, s)
    BY SMTT(60), <1>1, <1>5, <2>1, LivePut DEF Apart
  <2>3. Late(ff', t, o, s) = Late(ff, t, o, s)
    BY <1>1, <1>3, <2>1, LatePut DEF Apart
  <2> QED
    BY <2>2, <2>3 DEF Tot
<1>6. CASE file[f].ref = 1 /\ Names(file[f], t, o, s)
  <2>1. ~Names(file'[f], t, o, s) /\ Names(ff'[p], t, o, s)
    <3>1. ~Names(file'[f], t, o, s)
      BY <1>1, <1>6, NotNone DEF Names
    <3> QED
      BY <1>1, <1>6, <3>1, SameNames
  <2>2. /\ Cardinality(Live(file', t, o, s)) \in Nat
        /\ Cardinality(Live(file, t, o, s)) = Cardinality(Live(file', t, o, s)) + 1
    BY SMTT(60), <1>1, <1>2, <1>6, <2>1, LivePut DEF Apart
  <2>3. /\ Cardinality(Late(ff, t, o, s)) \in Nat
        /\ Cardinality(Late(ff', t, o, s)) = Cardinality(Late(ff, t, o, s)) + 1
    BY SMTT(60), <1>1, <1>3, <2>1, LatePut DEF Apart
  <2>4. PICK a \in Nat, b \in Nat : a = Cardinality(Live(file', t, o, s)) /\ b = Cardinality(Late(ff, t, o, s))
    BY <2>2, <2>3
  <2>5. a + (b + 1) = (a + 1) + b
    BY SMTT(60)
  <2> QED
    BY <2>2, <2>3, <2>4, <2>5 DEF Tot
<1> QED
  BY <1>4, <1>5, <1>6

\* A descriptor is cleared and its file closed.
LEMMA CloseFd ==
  ASSUME Counting, PtrInv, NEW p \in Proc, NEW d \in Fd, NEW f \in File, Shared(f), FdHolds(p, d, f),
         f = ofile[p][d], Puts(ofile, ofile', p, d, 0), fileclose(p, f), ff[p].type = "FD_NONE", UNCHANGED local
  PROVE  PtrInv' /\ TotKept /\ LocalKept
<1>1. file[f].ref \in Nat /\ file[f].ref >= 1 /\ PtrType /\ f # 0
  BY SMTT(60) DEF Shared, PtrInv, File
<1>2. /\ ~panicked' /\ OneEntry(file, file', f) /\ ff' \in [Proc -> Entry]
      /\ file'[f].ref = file[f].ref - 1
      /\ file[f].ref = 1 => file'[f].type = "FD_NONE"
      /\ file[f].ref # 1 => SameObject(file'[f], file[f])
  BY <1>1, CloseFacts
<1>3. /\ ofile' \in [Proc -> [Fd -> File \cup {0}]] /\ ofile'[p][d] = 0
      /\ \A x \in Proc, y \in Fd : x # p \/ y # d => ofile'[x][y] = ofile[x][y]
      /\ \A g \in File : FdMoved(f, 0, g)
  BY SMTT(60), <1>1, FdClear
<1>4. PtrType'
  BY <1>1, <1>2, <1>3 DEF PtrType, OneEntry
<1>5. FileRefs'
  <2> SUFFICES ASSUME NEW g \in File
               PROVE  file'[g].ref = Cardinality(Holders(g)') + Cardinality(FrameHolders(g)')
    BY DEF FileRefs
  <2>1. FrameHolders(g)' = FrameHolders(g) /\ file[g].ref = Cardinality(Holders(g)) + Cardinality(FrameHolders(g))
    BY DEF FrameHolders, PtrInv, FileRefs
  <2>2. g # 0
    BY SMTT(60) DEF File
  <2>3. CASE g = f
    <3>1. PICK h \in Nat, c \in Nat : h = Cardinality(Holders(g)') /\ c = Cardinality(FrameHolders(g))
      BY <1>3, CountNat DEF FdMoved
    <3>2. Cardinality(Holders(g)) = h + 1
      BY <1>3, <2>3, <3>1 DEF FdMoved
    <3>3. file'[g].ref = ((h + 1) + c) - 1
      BY <1>2, <2>1, <2>3, <3>1, <3>2
    <3>4. ((h + 1) + c) - 1 = h + c
      BY SMTT(60)
    <3> QED
      BY <2>1, <3>1, <3>3, <3>4
  <2>4. CASE g # f
    <3>1. Holders(g)' = Holders(g) /\ file'[g] = file[g]
      BY <1>2, <1>3, <2>2, <2>4 DEF OneEntry, FdMoved
    <3> QED
      BY <2>1, <3>1
  <2> QED
    BY <2>3, <2>4
<1>6. \A x \in Proc, k \in Local : local[x][k] # f
  BY DEF Shared
<1>7. Sole'
  <2>1. ASSUME NEW x \in Proc, NEW y \in Proc, NEW k \in Local, NEW z \in Fd, local[x][k] # 0
        PROVE  local[x][k] # ofile'[y][z]
    BY SMTT(60), <1>3, <2>1 DEF PtrInv, Sole
  <2> QED
    BY SMTT(60), <2>1 DEF PtrInv, Sole
<1>8. Typed'
  <2> SUFFICES ASSUME NEW x \in Proc, NEW y \in Fd, ofile'[x][y] # 0
               PROVE  file'[ofile'[x][y]].type # "FD_NONE"
    BY DEF Typed
  <2>1. (x # p \/ y # d) /\ ofile'[x][y] = ofile[x][y] /\ ofile[x][y] \in File
    BY SMTT(60), <1>1, <1>3 DEF PtrType
  <2>2. PICK g \in File : g = ofile[x][y]
    BY <2>1
  <2>3. file[g].type # "FD_NONE"
    BY <2>1, <2>2 DEF PtrInv, Typed
  <2>4. CASE g = f
    <3>1. file[f].ref # 1
      BY <2>1, <2>2, <2>4 DEF FdHolds
    <3> QED
      BY <1>2, <2>1, <2>2, <2>3, <2>4, <3>1 DEF SameObject
  <2>5. CASE g # f
    BY <1>2, <2>1, <2>2, <2>3, <2>5 DEF OneEntry
  <2> QED
    BY <2>4, <2>5
<1>9. FreeNone'
  <2> SUFFICES ASSUME NEW g \in File, file'[g].ref = 0 PROVE file'[g].type = "FD_NONE"
    BY DEF FreeNone
  <2>1. CASE g = f
    <3>1. file[f].ref = 1
      BY SMTT(60), <1>1, <1>2, <2>1
    <3> QED
      BY <1>2, <2>1, <3>1
  <2>2. CASE g # f
    BY <1>2, <2>2 DEF OneEntry, PtrInv, FreeNone
  <2> QED
    BY <2>1, <2>2
<1>10. TotKept
  BY <1>1, CloseTot
<1>11. LocalKept
  <2> SUFFICES ASSUME NEW x \in Proc, NEW k \in Local, local[x][k] # 0
               PROVE  file'[local[x][k]].type = file[local[x][k]].type
    BY DEF LocalKept
  <2>1. local[x][k] \in File /\ local[x][k] # f
    BY SMTT(60), <1>1, <1>6 DEF PtrType
  <2> QED
    BY <1>2, <2>1 DEF OneEntry
<1> QED
  BY <1>2, <1>4, <1>5, <1>7, <1>8, <1>9, <1>10, <1>11 DEF PtrInv

\* A variable of the call is cleared and its file closed.
LEMMA CloseLocal ==
  ASSUME Counting, PtrInv, NEW p \in Proc, NEW k \in Local, NEW f \in File, f = local[p][k],
         Puts(local, local', p, k, 0), fileclose(p, f), ff[p].type = "FD_NONE", UNCHANGED ofile
  PROVE  PtrInv' /\ TotKept /\ LocalKept
<1>1. PtrType /\ f # 0
  BY SMTT(60) DEF PtrInv, File
<1>2. file[f].ref = 1 /\ file[f].ref \in Nat /\ file[f].ref >= 1
  <2>1. file[f].ref = 1
    BY <1>1, HeldLocal
  <2> QED
    BY SMTT(60), <2>1
<1>3. /\ ~panicked' /\ OneEntry(file, file', f) /\ ff' \in [Proc -> Entry]
      /\ file'[f].ref = file[f].ref - 1 /\ file'[f].type = "FD_NONE"
  BY <1>1, <1>2, CloseFacts
<1>4. /\ local' \in [Proc -> [Local -> File \cup {0}]] /\ local'[p][k] = 0
      /\ \A x \in Proc, y \in Local : x # p \/ y # k => local'[x][y] = local[x][y]
      /\ \A g \in File : LocalMoved(f, 0, g)
  BY SMTT(60), <1>1, LocalClear
<1>5. PtrType'
  BY <1>1, <1>3, <1>4 DEF PtrType, OneEntry
<1>6. FileRefs'
  <2> SUFFICES ASSUME NEW g \in File
               PROVE  file'[g].ref = Cardinality(Holders(g)') + Cardinality(FrameHolders(g)')
    BY DEF FileRefs
  <2>1. Holders(g)' = Holders(g) /\ file[g].ref = Cardinality(Holders(g)) + Cardinality(FrameHolders(g))
    BY DEF Holders, PtrInv, FileRefs
  <2>2. g # 0
    BY SMTT(60) DEF File
  <2>3. CASE g = f
    <3>1. PICK h \in Nat, c \in Nat : c = Cardinality(FrameHolders(g)') /\ h = Cardinality(Holders(g))
      BY <1>4, CountNat DEF LocalMoved
    <3>2. Cardinality(FrameHolders(g)) = c + 1
      BY <1>4, <2>3, <3>1 DEF LocalMoved
    <3>3. file'[g].ref = (h + (c + 1)) - 1
      BY <1>3, <2>1, <2>3, <3>1, <3>2
    <3>4. (h + (c + 1)) - 1 = h + c
      BY SMTT(60)
    <3> QED
      BY <2>1, <3>1, <3>3, <3>4
  <2>4. CASE g # f
    <3>1. FrameHolders(g)' = FrameHolders(g) /\ file'[g] = file[g]
      BY <1>3, <1>4, <2>2, <2>4 DEF OneEntry, LocalMoved
    <3> QED
      BY <2>1, <3>1
  <2> QED
    BY <2>3, <2>4
<1>7. \A x \in Proc, y \in Fd : ofile[x][y] # f
  BY SMTT(60), <1>1 DEF PtrInv, Sole
<1>8. \A x \in Proc, j \in Local : local'[x][j] # 0 => local'[x][j] = local[x][j] /\ local[x][j] # f
  <2> SUFFICES ASSUME NEW x \in Proc, NEW j \in Local, local'[x][j] # 0
               PROVE  local'[x][j] = local[x][j] /\ local[x][j] # f
    OBVIOUS
  <2>1. x # p \/ j # k
    BY <1>4
  <2>2. local'[x][j] = local[x][j]
    BY <1>4, <2>1
  <2> QED
    BY SMTT(60), <1>1, <2>1, <2>2 DEF PtrInv, Sole
<1>9. Sole'
  <2>1. ASSUME NEW x \in Proc, NEW y \in Proc, NEW j \in Local, NEW l \in Local,
               local'[x][j] # 0, local'[x][j] = local'[y][l]
        PROVE  x = y /\ j = l
    <3>1. local'[x][j] = local[x][j] /\ local'[y][l] = local[y][l]
      BY <1>8, <2>1
    <3>2. local[x][j] # 0 /\ local[x][j] = local[y][l]
      BY <2>1, <3>1
    <3> QED
      BY SMTT(60), <3>2, LocalSole
  <2>2. ASSUME NEW x \in Proc, NEW y \in Proc, NEW j \in Local, NEW z \in Fd, local'[x][j] # 0
        PROVE  local'[x][j] # ofile[y][z]
    BY SMTT(60), <1>8, <2>2 DEF PtrInv, Sole
  <2> QED
    BY SMTT(60), <2>1, <2>2 DEF Sole
<1>10. Typed'
  <2> SUFFICES ASSUME NEW x \in Proc, NEW y \in Fd, ofile[x][y] # 0
               PROVE  file'[ofile[x][y]].type # "FD_NONE"
    BY DEF Typed
  <2>1. ofile[x][y] \in File /\ ofile[x][y] # f
    BY SMTT(60), <1>1, <1>7 DEF PtrType
  <2> QED
    BY <1>3, <2>1 DEF OneEntry, PtrInv, Typed
<1>11. FreeNone'
  BY <1>3 DEF OneEntry, PtrInv, FreeNone
<1>12. TotKept
  BY <1>1, <1>2, CloseTot
<1>13. LocalKept
  <2> SUFFICES ASSUME NEW x \in Proc, NEW j \in Local, local'[x][j] # 0, local'[x][j] = local[x][j]
               PROVE  file'[local[x][j]].type = file[local[x][j]].type
    BY DEF LocalKept
  <2>1. local[x][j] \in File /\ local[x][j] # f
    BY SMTT(60), <1>1, <1>8 DEF PtrType
  <2> QED
    BY <1>3, <2>1 DEF OneEntry
<1> QED
  BY <1>3, <1>5, <1>6, <1>9, <1>10, <1>11, <1>12, <1>13 DEF PtrInv

\* An entry that is not in use: no pointer, no reference, no type.
Fresh(f) ==
  /\ file[f].ref = 0 /\ file[f].type = "FD_NONE"
  /\ \A p \in Proc, d \in Fd : ofile[p][d] # f
  /\ \A p \in Proc, k \in Local : local[p][k] # f
  /\ Cardinality(Holders(f)) = 0 /\ Cardinality(FrameHolders(f)) = 0

LEMMA IsFresh ==
  ASSUME Counting, PtrInv, NEW f \in File, IsFree(f)
  PROVE  Fresh(f)
<1>1. file[f].ref = 0
  BY DEF IsFree
<1>2. file[f].type = "FD_NONE"
  BY <1>1 DEF PtrInv, FreeNone
<1>3. PICK h \in Nat, c \in Nat : h = Cardinality(Holders(f)) /\ c = Cardinality(FrameHolders(f))
  BY CountNat
<1>4. 0 = h + c
  BY <1>1, <1>3 DEF PtrInv, FileRefs
<1>5. h = 0 /\ c = 0
  BY SMTT(60), <1>4
<1>6. (\A p \in Proc, d \in Fd : ofile[p][d] # f) /\ (\A p \in Proc, k \in Local : local[p][k] # f)
  BY <1>1, Unheld
<1> QED
  BY <1>1, <1>2, <1>3, <1>5, <1>6 DEF Fresh

\* The entries that are in use and name an object, when entry f, which names
\* nothing, becomes e, and ff does not change.
TotPlus(e) ==
  \A t \in Object : \A o, s :
    /\ Tot(file, ff, t, o, s) \in Nat
    /\ Names(e, t, o, s) => Tot(file', ff', t, o, s) = Tot(file, ff, t, o, s) + 1
    /\ ~Names(e, t, o, s) => Tot(file', ff', t, o, s) = Tot(file, ff, t, o, s)

LEMMA LateNat ==
  ASSUME Counting, NEW g, NEW t, NEW o, NEW s
  PROVE  Cardinality(Late(g, t, o, s)) \in Nat
<1>1. Late(g, t, o, s) \in SUBSET Proc
  BY DEF Late
<1> QED
  BY <1>1, Finite, SmallCount

LEMMA FillTot ==
  ASSUME Counting, NEW f \in File, file[f].type = "FD_NONE", OneEntry(file, file', f), UNCHANGED ff,
         file'[f].ref = 1
  PROVE  TotPlus(file'[f])
<1> SUFFICES ASSUME NEW t \in Object, NEW o, NEW s
             PROVE  /\ Tot(file, ff, t, o, s) \in Nat
                    /\ Names(file'[f], t, o, s) => Tot(file', ff', t, o, s) = Tot(file, ff, t, o, s) + 1
                    /\ ~Names(file'[f], t, o, s) => Tot(file', ff', t, o, s) = Tot(file, ff, t, o, s)
  BY DEF TotPlus
<1>1. ~Names(file[f], t, o, s)
  BY NotNone DEF Names
<1>2. /\ Apart(Live(file, t, o, s), Live(file', t, o, s), f)
      /\ f \notin Live(file, t, o, s)
      /\ f \in Live(file', t, o, s) <=> file'[f].ref > 0 /\ Names(file'[f], t, o, s)
  BY <1>1, LivePut
<1>3. file'[f].ref > 0
  BY SMTT(60)
<1>4. PICK a \in Nat, b \in Nat : a = Cardinality(Live(file, t, o, s)) /\ b = Cardinality(Late(ff, t, o, s))
  BY <1>2, LateNat DEF Apart
<1>5. a + b \in Nat /\ (a + 1) + b = (a + b) + 1
  BY SMTT(60)
<1>6. ASSUME Names(file'[f], t, o, s) PROVE Cardinality(Live(file', t, o, s)) = a + 1
  BY <1>2, <1>3, <1>4, <1>6 DEF Apart
<1>7. ASSUME ~Names(file'[f], t, o, s) PROVE Cardinality(Live(file', t, o, s)) = a
  BY <1>2, <1>4, <1>7 DEF Apart
<1> QED
  BY <1>4, <1>5, <1>6, <1>7 DEF Tot

\* filealloc() into a variable of the call.
LEMMA AllocLocal ==
  ASSUME Counting, PtrInv, NEW p \in Proc, NEW k \in Local, local[p][k] = 0, NEW f \in File, Fresh(f),
         file' = [file EXCEPT ![f].ref = 1], Puts(local, local', p, k, f), UNCHANGED <<ofile, ff, panicked>>
  PROVE  PtrInv' /\ TotKept /\ LocalKept /\ local'[p][k] = f /\ file'[f].type = "FD_NONE"
<1>1. PtrType /\ f # 0 /\ file[f].ref = 0 /\ file[f].type = "FD_NONE"
  BY SMTT(60) DEF PtrInv, File, Fresh
<1>2. OneEntry(file, file', f) /\ file'[f].type = "FD_NONE" /\ file'[f].ref = 1
  BY <1>1, AllocFacts DEF SameObject
<1>3. /\ local' \in [Proc -> [Local -> File \cup {0}]] /\ local'[p][k] = f
      /\ \A x \in Proc, y \in Local : x # p \/ y # k => local'[x][y] = local[x][y]
      /\ \A g \in File : LocalMoved(0, f, g)
  BY <1>1, LocalSet
<1>4. PtrType'
  BY <1>1, <1>2, <1>3 DEF PtrType, OneEntry
<1>5. FileRefs'
  <2> SUFFICES ASSUME NEW g \in File
               PROVE  file'[g].ref = Cardinality(Holders(g)') + Cardinality(FrameHolders(g)')
    BY DEF FileRefs
  <2>1. Holders(g)' = Holders(g) /\ file[g].ref = Cardinality(Holders(g)) + Cardinality(FrameHolders(g))
    BY DEF Holders, PtrInv, FileRefs
  <2>2. g # 0
    BY SMTT(60) DEF File
  <2>3. CASE g = f
    <3>1. Cardinality(Holders(g)') = 0 /\ Cardinality(FrameHolders(g)') = 0 + 1
      BY <1>3, <2>1, <2>3 DEF LocalMoved, Fresh
    <3>2. 1 = 0 + (0 + 1)
      BY SMTT(60)
    <3> QED
      BY <1>2, <2>3, <3>1, <3>2
  <2>4. CASE g # f
    <3>1. FrameHolders(g)' = FrameHolders(g) /\ file'[g] = file[g]
      BY <1>2, <1>3, <2>2, <2>4 DEF OneEntry, LocalMoved
    <3> QED
      BY <2>1, <3>1
  <2> QED
    BY <2>3, <2>4
<1>6. Sole'
  <2>1. ASSUME NEW x \in Proc, NEW y \in Proc, NEW j \in Local, NEW l \in Local,
               local'[x][j] # 0, local'[x][j] = local'[y][l]
        PROVE  x = y /\ j = l
    <3>1. CASE local'[x][j] = f
      <4>1. ASSUME NEW z \in Proc, NEW m \in Local, local'[z][m] = f, z # p \/ m # k PROVE FALSE
        <5>1. local[z][m] = f
          BY SMTT(60), <1>3, <4>1
        <5> QED
          BY <5>1 DEF Fresh
      <4>2. local'[y][l] = f
        BY <2>1, <3>1
      <4>3. (x = p /\ j = k) /\ (y = p /\ l = k)
        BY <3>1, <4>1, <4>2
      <4> QED
        BY <4>3
    <3>2. CASE local'[x][j] # f
      <4>1. local'[x][j] = local[x][j] /\ local'[y][l] = local[y][l]
        BY SMTT(60), <1>3, <2>1, <3>2
      <4>2. local[x][j] # 0 /\ local[x][j] = local[y][l]
        BY <2>1, <4>1
      <4> QED
        BY SMTT(60), <4>2, LocalSole
    <3> QED
      BY <3>1, <3>2
  <2>2. ASSUME NEW x \in Proc, NEW y \in Proc, NEW j \in Local, NEW z \in Fd, local'[x][j] # 0
        PROVE  local'[x][j] # ofile[y][z]
    <3>1. CASE x = p /\ j = k
      BY <1>3, <3>1 DEF Fresh
    <3>2. CASE x # p \/ j # k
      <4>1. local'[x][j] = local[x][j]
        BY <1>3, <3>2
      <4>2. \A a, b \in Proc : \A l \in Local, e \in Fd : local[a][l] # 0 => local[a][l] # ofile[b][e]
        BY DEF PtrInv, Sole
      <4> QED
        BY SMTT(60), <2>2, <4>1, <4>2
    <3> QED
      BY <3>1, <3>2
  <2> QED
    BY SMTT(60), <2>1, <2>2 DEF Sole
<1>7. \A g \in File : file'[g].type = file[g].type
  BY <1>1, <1>2 DEF OneEntry
<1>8. Typed'
  BY SMTT(60), <1>1, <1>7 DEF PtrInv, PtrType, Typed
<1>9. FreeNone'
  <2>1. 1 # 0
    BY SMTT(60)
  <2> QED
    BY <1>2, <2>1 DEF OneEntry, PtrInv, FreeNone
<1>10. TotKept
  <2>1. TotPlus(file'[f])
    BY <1>1, <1>2, FillTot
  <2>2. \A t \in Object : \A o, s : ~Names(file'[f], t, o, s)
    BY <1>2, NotNone DEF Names
  <2> QED
    BY <2>1, <2>2 DEF TotKept, TotPlus
<1>11. LocalKept
  BY SMTT(60), <1>1, <1>7 DEF LocalKept, PtrType
<1> QED
  BY <1>2, <1>3, <1>4, <1>5, <1>6, <1>8, <1>9, <1>10, <1>11 DEF PtrInv

\* sys_open() with an entry and a descriptor.
LEMMA OpenStep ==
  ASSUME Counting, PtrInv, NEW p \in Proc, NEW d \in Fd, ofile[p][d] = 0, NEW f \in File, Fresh(f),
         NEW e \in Entry, e.ref = 1, e.type # "FD_NONE", file' = [file EXCEPT ![f] = e],
         Puts(ofile, ofile', p, d, f), UNCHANGED <<local, ff, panicked>>
  PROVE  PtrInv' /\ TotPlus(e) /\ LocalKept
<1>1. PtrType /\ f # 0 /\ file[f].ref = 0 /\ file[f].type = "FD_NONE"
  BY SMTT(60) DEF PtrInv, File, Fresh
<1>2. OneEntry(file, file', f) /\ file'[f] = e
  BY <1>1, PutEntry
<1>3. /\ ofile' \in [Proc -> [Fd -> File \cup {0}]] /\ ofile'[p][d] = f
      /\ \A x \in Proc, y \in Fd : x # p \/ y # d => ofile'[x][y] = ofile[x][y]
      /\ \A g \in File : FdMoved(0, f, g)
  BY <1>1, FdSet
<1>4. PtrType'
  BY <1>1, <1>2, <1>3 DEF PtrType, OneEntry
<1>5. FileRefs'
  <2> SUFFICES ASSUME NEW g \in File
               PROVE  file'[g].ref = Cardinality(Holders(g)') + Cardinality(FrameHolders(g)')
    BY DEF FileRefs
  <2>1. FrameHolders(g)' = FrameHolders(g) /\ file[g].ref = Cardinality(Holders(g)) + Cardinality(FrameHolders(g))
    BY DEF FrameHolders, PtrInv, FileRefs
  <2>2. g # 0
    BY SMTT(60) DEF File
  <2>3. CASE g = f
    <3>1. Cardinality(FrameHolders(g)') = 0 /\ Cardinality(Holders(g)') = 0 + 1
      BY <1>3, <2>1, <2>3 DEF FdMoved, Fresh
    <3>2. 1 = (0 + 1) + 0
      BY SMTT(60)
    <3> QED
      BY <1>2, <2>3, <3>1, <3>2
  <2>4. CASE g # f
    <3>1. Holders(g)' = Holders(g) /\ file'[g] = file[g]
      BY <1>2, <1>3, <2>2, <2>4 DEF OneEntry, FdMoved
    <3> QED
      BY <2>1, <3>1
  <2> QED
    BY <2>3, <2>4
<1>6. Sole'
  <2>1. ASSUME NEW x \in Proc, NEW y \in Proc, NEW k \in Local, NEW z \in Fd, local[x][k] # 0
        PROVE  local[x][k] # ofile'[y][z]
    <3>1. CASE y = p /\ z = d
      BY <1>3, <3>1 DEF Fresh
    <3>2. CASE y # p \/ z # d
      BY SMTT(60), <1>3, <2>1, <3>2 DEF PtrInv, Sole
    <3> QED
      BY <3>1, <3>2
  <2> QED
    BY SMTT(60), <2>1 DEF PtrInv, Sole
<1>7. Typed'
  <2> SUFFICES ASSUME NEW x \in Proc, NEW y \in Fd, ofile'[x][y] # 0
               PROVE  file'[ofile'[x][y]].type # "FD_NONE"
    BY DEF Typed
  <2>1. CASE x = p /\ y = d
    BY <1>2, <1>3, <2>1
  <2>2. CASE x # p \/ y # d
    <3>1. ofile'[x][y] = ofile[x][y] /\ ofile[x][y] \in File /\ ofile[x][y] # f
      BY SMTT(60), <1>1, <1>3, <2>2 DEF PtrType, Fresh
    <3> QED
      BY SMTT(60), <1>2, <3>1 DEF OneEntry, PtrInv, Typed
  <2> QED
    BY <2>1, <2>2
<1>8. FreeNone'
  <2>1. 1 # 0
    BY SMTT(60)
  <2> QED
    BY <1>2, <2>1 DEF OneEntry, PtrInv, FreeNone
<1>9. TotPlus(e)
  BY <1>1, <1>2, FillTot
<1>10. LocalKept
  <2> SUFFICES ASSUME NEW x \in Proc, NEW k \in Local, local[x][k] # 0
               PROVE  file'[local[x][k]].type = file[local[x][k]].type
    BY DEF LocalKept
  <2>1. local[x][k] \in File /\ local[x][k] # f
    BY SMTT(60), <1>1 DEF PtrType, Fresh
  <2> QED
    BY <1>2, <2>1 DEF OneEntry
<1> QED
  BY <1>4, <1>5, <1>6, <1>7, <1>8, <1>9, <1>10 DEF PtrInv

-----------------------------------------------------------------------------
(* The two ends of a new pipe.                                             *)

\* The two entries of sys_pipe() before they get their type.
Ends(p, a, b) ==
  /\ a \in File /\ b \in File /\ a # b /\ a = local[p][1] /\ b = local[p][2]
  /\ file[a].ref = 1 /\ file[b].ref = 1 /\ file[a].type = "FD_NONE" /\ file[b].type = "FD_NONE"
  /\ \A x \in Proc, y \in Fd : ofile[x][y] # a /\ ofile[x][y] # b
  /\ \A x \in Proc, k \in Local : x # p => local[x][k] # a /\ local[x][k] # b

LEMMA EndsHold ==
  ASSUME Counting, PtrInv, NEW p \in Proc, Frame(p), pc[p] = "pipe2"
  PROVE  Ends(p, local[p][1], local[p][2])
<1>1. 1 \in Local /\ 2 \in Local /\ 1 # 2
  BY SMTT(60) DEF Local
<1>2. PICK a, b : a = local[p][1] /\ b = local[p][2]
  OBVIOUS
<1>3. a # 0 /\ b # 0
  BY <1>2 DEF Frame
<1>4. a \in File /\ b \in File
  BY SMTT(60), <1>1, <1>2, <1>3 DEF PtrInv, PtrType
<1>5. file[a].ref = 1
  BY <1>1, <1>2, <1>3, HeldLocal
<1>6. file[b].ref = 1
  BY <1>1, <1>2, <1>3, HeldLocal
<1>7. file[a].type = "FD_NONE" /\ file[b].type = "FD_NONE"
  BY <1>1, <1>2, <1>3 DEF Frame
<1>8. a # b
  <2> SUFFICES ASSUME a = b PROVE FALSE
    OBVIOUS
  <2>1. PICK i \in Local, j \in Local : i = 1 /\ j = 2 /\ i # j
    BY <1>1
  <2>2. local[p][i] # 0 /\ local[p][i] = local[p][j]
    BY <1>2, <1>3, <2>1
  <2> QED
    BY <2>1, <2>2, LocalSole
<1>9. ASSUME NEW x \in Proc, NEW y \in Fd PROVE ofile[x][y] # a /\ ofile[x][y] # b
  BY SMTT(60), <1>1, <1>2, <1>3 DEF PtrInv, Sole
<1>10. ASSUME NEW x \in Proc, NEW k \in Local, x # p PROVE local[x][k] # a /\ local[x][k] # b
  <2>1. local[x][k] # a
    BY SMTT(60), <1>1, <1>2, <1>3, <1>10, LocalSole
  <2>2. local[x][k] # b
    BY SMTT(60), <1>1, <1>2, <1>3, <1>10, LocalSole
  <2> QED
    BY <2>1, <2>2
<1>11. Ends(p, a, b)
  BY <1>2, <1>4, <1>5, <1>6, <1>7, <1>8, <1>9, <1>10 DEF Ends
<1> QED
  BY <1>2, <1>11

\* Two entries get their type.
Filled(a, b, c, e) ==
  /\ file' \in [File -> Entry] /\ file'[a] = c /\ file'[b] = e
  /\ \A g \in File : g # a /\ g # b => file'[g] = file[g]
  /\ \A g \in File : file'[g].ref = file[g].ref
TotPair(c, e) ==
  \A t \in Object : \A o, s :
    /\ Tot(file, ff, t, o, s) \in Nat
    /\ Names(c, t, o, s) /\ ~Names(e, t, o, s) => Tot(file', ff', t, o, s) = Tot(file, ff, t, o, s) + 1
    /\ ~Names(c, t, o, s) /\ Names(e, t, o, s) => Tot(file', ff', t, o, s) = Tot(file, ff, t, o, s) + 1
    /\ ~Names(c, t, o, s) /\ ~Names(e, t, o, s) => Tot(file', ff', t, o, s) = Tot(file, ff, t, o, s)

LEMMA FillPair ==
  ASSUME Counting, PtrType, NEW p \in Proc, NEW a, NEW b, Ends(p, a, b), NEW c \in Entry, NEW e \in Entry,
         c.ref = 1, e.ref = 1, file' = [file EXCEPT ![a] = c, ![b] = e], UNCHANGED ff
  PROVE  Filled(a, b, c, e) /\ TotPair(c, e)
<1>1. /\ a \in File /\ b \in File /\ a # b /\ file \in [File -> Entry]
      /\ file[a].ref = 1 /\ file[b].ref = 1 /\ file[a].type = "FD_NONE" /\ file[b].type = "FD_NONE"
  BY DEF Ends, PtrType
<1>2. PICK h : h = [file EXCEPT ![a] = c]
  OBVIOUS
<1>3. h \in [File -> Entry] /\ h[a] = c /\ \A g \in File : g # a => h[g] = file[g]
  BY SMTT(60), <1>1, <1>2
<1>4. file' \in [File -> Entry] /\ file'[b] = e /\ \A g \in File : g # b => file'[g] = h[g]
  BY SMTT(60), <1>1, <1>2, <1>3
<1>5. Filled(a, b, c, e)
  <2>1. file'[a] = c /\ \A g \in File : g # a /\ g # b => file'[g] = file[g]
    BY <1>1, <1>3, <1>4
  <2>2. \A g \in File : file'[g].ref = file[g].ref
    BY <1>1, <1>4, <2>1
  <2> QED
    BY <1>4, <2>1, <2>2 DEF Filled
<1>6. OneEntry(file, h, a) /\ OneEntry(h, file', b)
  BY <1>3, <1>4 DEF OneEntry
<1>7. ASSUME NEW t \in Object, NEW o, NEW s
      PROVE  /\ Tot(file, ff, t, o, s) \in Nat
             /\ Names(c, t, o, s) /\ ~Names(e, t, o, s) => Tot(file', ff', t, o, s) = Tot(file, ff, t, o, s) + 1
             /\ ~Names(c, t, o, s) /\ Names(e, t, o, s) => Tot(file', ff', t, o, s) = Tot(file, ff, t, o, s) + 1
             /\ ~Names(c, t, o, s) /\ ~Names(e, t, o, s) => Tot(file', ff', t, o, s) = Tot(file, ff, t, o, s)
  <2>1. ~Names(file[a], t, o, s) /\ ~Names(h[b], t, o, s)
    BY <1>1, <1>3, NotNone DEF Names
  <2>2. h[a].ref > 0 /\ file'[b].ref > 0
    BY SMTT(60), <1>3, <1>4
  <2>3. PICK A, B, C : A = Live(file, t, o, s) /\ B = Live(h, t, o, s) /\ C = Live(file', t, o, s)
    OBVIOUS
  <2>4. Apart(A, B, a) /\ a \notin A /\ (a \in B <=> Names(c, t, o, s))
    BY <1>1, <1>3, <1>6, <2>1, <2>2, <2>3, LivePut
  <2>5. Apart(B, C, b) /\ b \notin B /\ (b \in C <=> Names(e, t, o, s))
    <3>1. /\ Apart(Live(h, t, o, s), Live(file', t, o, s), b)
          /\ b \in Live(h, t, o, s) <=> h[b].ref > 0 /\ Names(h[b], t, o, s)
          /\ b \in Live(file', t, o, s) <=> file'[b].ref > 0 /\ Names(file'[b], t, o, s)
      BY <1>1, <1>6, LivePut
    <3> QED
      BY <1>4, <2>1, <2>2, <2>3, <3>1
  <2>6. PICK n \in Nat, l \in Nat : n = Cardinality(A) /\ l = Cardinality(Late(ff, t, o, s))
    BY <2>4, LateNat DEF Apart
  <2>7. n + l \in Nat /\ (n + 1) + l = (n + l) + 1
    BY SMTT(60)
  <2>8. ASSUME Names(c, t, o, s), ~Names(e, t, o, s) PROVE Cardinality(C) = n + 1
    BY <2>4, <2>5, <2>6, <2>8 DEF Apart
  <2>9. ASSUME ~Names(c, t, o, s), Names(e, t, o, s) PROVE Cardinality(C) = n + 1
    BY <2>4, <2>5, <2>6, <2>9 DEF Apart
  <2>10. ASSUME ~Names(c, t, o, s), ~Names(e, t, o, s) PROVE Cardinality(C) = n
    BY <2>4, <2>5, <2>6, <2>10 DEF Apart
  <2> QED
    BY <2>3, <2>6, <2>7, <2>8, <2>9, <2>10 DEF Tot
<1> QED
  BY <1>5, <1>7 DEF TotPair

\* What the variables of the other processes point to.
OthersKept(p) ==
  \A q \in Proc, k \in Local : q # p /\ local[q][k] # 0 => file'[local[q][k]].type = file[local[q][k]].type

LEMMA FilledFacts ==
  ASSUME PtrInv, NEW p \in Proc, NEW a, NEW b, Ends(p, a, b), NEW c, NEW e, Filled(a, b, c, e),
         c.type # "FD_NONE", e.type # "FD_NONE"
  PROVE  /\ FreeNone' /\ OthersKept(p)
         /\ \A x \in Proc, y \in Fd : ofile[x][y] # 0 => file'[ofile[x][y]].type # "FD_NONE"
<1>1. FreeNone'
  <2> SUFFICES ASSUME NEW g \in File, file'[g].ref = 0 PROVE file'[g].type = "FD_NONE"
    BY DEF FreeNone
  <2>1. 1 # 0
    BY SMTT(60)
  <2>2. g # a /\ g # b
    BY SMTT(60), <2>1 DEF Filled, Ends
  <2> QED
    BY <2>2 DEF Filled, PtrInv, FreeNone
<1>2. ASSUME NEW q \in Proc, NEW k \in Local, q # p, local[q][k] # 0
      PROVE  file'[local[q][k]].type = file[local[q][k]].type
  <2>1. local[q][k] # a /\ local[q][k] # b
    BY <1>2 DEF Ends
  <2>2. local[q][k] \in File
    BY SMTT(60), <1>2 DEF PtrInv, PtrType
  <2> QED
    BY <2>1, <2>2 DEF Filled
<1>3. ASSUME NEW x \in Proc, NEW y \in Fd, ofile[x][y] # 0 PROVE file'[ofile[x][y]].type # "FD_NONE"
  <2>1. ofile[x][y] # a /\ ofile[x][y] # b
    BY DEF Ends
  <2>2. ofile[x][y] \in File
    BY SMTT(60), <1>3 DEF PtrInv, PtrType
  <2>3. file[ofile[x][y]].type # "FD_NONE"
    BY <1>3 DEF PtrInv, Typed
  <2> QED
    BY <2>1, <2>2, <2>3 DEF Filled
<1> QED
  BY <1>1, <1>2, <1>3 DEF OthersKept

\* pipealloc() succeeds and sys_pipe() fails: its variables keep the entries.
LEMMA PipeKept ==
  ASSUME Counting, PtrInv, NEW p \in Proc, NEW a, NEW b, Ends(p, a, b), NEW c, NEW e, Filled(a, b, c, e),
         c.type # "FD_NONE", e.type # "FD_NONE", UNCHANGED <<ofile, local, ff, panicked>>
  PROVE  PtrInv' /\ OthersKept(p)
<1>1. PtrType'
  BY DEF PtrInv, PtrType, Filled
<1>2. FileRefs'
  <2>1. \A g : Holders(g)' = Holders(g) /\ FrameHolders(g)' = FrameHolders(g)
    BY DEF Holders, FrameHolders
  <2> QED
    BY <2>1 DEF FileRefs, PtrInv, Filled
<1>3. Sole'
  BY SMTT(60) DEF PtrInv, Sole
<1>4. FreeNone' /\ OthersKept(p) /\ Typed'
  BY FilledFacts DEF Typed
<1> QED
  BY <1>1, <1>2, <1>3, <1>4 DEF PtrInv

\* sys_pipe() succeeds: two descriptors take the entries over.
Handed(p, d, e, a, b) ==
  /\ d # e /\ ofile[p][d] = 0 /\ ofile[p][e] = 0
  /\ ofile' \in [Proc -> [Fd -> File \cup {0}]] /\ ofile'[p][d] = a /\ ofile'[p][e] = b
  /\ \A x \in Proc, y \in Fd : x # p \/ (y # d /\ y # e) => ofile'[x][y] = ofile[x][y]
  /\ local' \in [Proc -> [Local -> File \cup {0}]]
  /\ \A k \in Local : local'[p][k] = 0
  /\ \A x \in Proc, k \in Local : x # p => local'[x][k] = local[x][k]

LEMMA HandedHolders ==
  ASSUME NEW p \in Proc, NEW d \in Fd, NEW e \in Fd, NEW a, NEW b, Ends(p, a, b), Handed(p, d, e, a, b),
         NEW g \in File
  PROVE  /\ g = a => Holders(g)' = {<<p, d>>} /\ FrameHolders(g)' = {}
         /\ g = b => Holders(g)' = {<<p, e>>} /\ FrameHolders(g)' = {}
         /\ g # a /\ g # b => Holders(g)' = Holders(g) /\ FrameHolders(g)' = FrameHolders(g)
<1>1. g # 0
  BY SMTT(60) DEF File
<1>2. ASSUME NEW x \in Proc, NEW y \in Fd
      PROVE  /\ g = a => (ofile'[x][y] = g <=> x = p /\ y = d)
             /\ g = b => (ofile'[x][y] = g <=> x = p /\ y = e)
             /\ g # a /\ g # b => (ofile'[x][y] = g <=> ofile[x][y] = g)
  <2>1. CASE x = p /\ y = d
    BY <1>1, <2>1 DEF Handed, Ends
  <2>2. CASE x = p /\ y = e
    BY <1>1, <2>2 DEF Handed, Ends
  <2>3. CASE x # p \/ (y # d /\ y # e)
    BY SMTT(60), <2>3 DEF Handed, Ends
  <2> QED
    BY <2>1, <2>2, <2>3
<1>3. ASSUME NEW x \in Proc, NEW k \in Local
      PROVE  /\ g = a \/ g = b => local'[x][k] # g
             /\ g # a /\ g # b => (local'[x][k] = g <=> local[x][k] = g)
  <2>1. CASE x = p
    <3>1. local'[x][k] # g
      BY <1>1, <2>1 DEF Handed
    <3>2. local[x][k] = a \/ local[x][k] = b
      BY <2>1 DEF Ends, Local
    <3> QED
      BY <3>1, <3>2
  <2>2. CASE x # p
    BY SMTT(60), <2>2 DEF Handed, Ends
  <2> QED
    BY <2>1, <2>2
<1>4. ASSUME NEW z \in Proc \X Fd
      PROVE  /\ g = a => (ofile'[z[1]][z[2]] = g <=> z = <<p, d>>)
             /\ g = b => (ofile'[z[1]][z[2]] = g <=> z = <<p, e>>)
             /\ g # a /\ g # b => (ofile'[z[1]][z[2]] = g <=> ofile[z[1]][z[2]] = g)
  <2>1. z[1] \in Proc /\ z[2] \in Fd /\ z = <<z[1], z[2]>>
    BY Parts
  <2>2. /\ z = <<p, d>> <=> z[1] = p /\ z[2] = d
        /\ z = <<p, e>> <=> z[1] = p /\ z[2] = e
    BY SMTT(60), <2>1, Pair
  <2> QED
    BY <1>2, <2>1, <2>2
<1>5. ASSUME NEW z \in Proc \X Local
      PROVE  /\ g = a \/ g = b => local'[z[1]][z[2]] # g
             /\ g # a /\ g # b => (local'[z[1]][z[2]] = g <=> local[z[1]][z[2]] = g)
  <2>1. z[1] \in Proc /\ z[2] \in Local
    BY Parts
  <2> QED
    BY <1>3, <2>1
<1>6. <<p, d>> \in Proc \X Fd /\ <<p, e>> \in Proc \X Fd
  BY Pair
<1>7. ASSUME g = a PROVE Holders(g)' = {<<p, d>>} /\ FrameHolders(g)' = {}
  BY <1>4, <1>5, <1>6, <1>7 DEF Holders, FrameHolders
<1>8. ASSUME g = b PROVE Holders(g)' = {<<p, e>>} /\ FrameHolders(g)' = {}
  BY <1>4, <1>5, <1>6, <1>8 DEF Holders, FrameHolders
<1>9. ASSUME g # a, g # b PROVE Holders(g)' = Holders(g) /\ FrameHolders(g)' = FrameHolders(g)
  BY <1>4, <1>5, <1>9 DEF Holders, FrameHolders
<1> QED
  BY <1>7, <1>8, <1>9

LEMMA PipeSet ==
  ASSUME Counting, PtrInv, NEW p \in Proc, NEW d \in Fd, NEW e \in Fd, NEW a, NEW b, Ends(p, a, b),
         NEW u, NEW v, Filled(a, b, u, v), u.type # "FD_NONE", v.type # "FD_NONE", Handed(p, d, e, a, b),
         UNCHANGED <<ff, panicked>>
  PROVE  PtrInv' /\ OthersKept(p)
<1>1. PtrType'
  BY DEF PtrInv, PtrType, Filled, Handed
<1>2. FreeNone' /\ OthersKept(p) /\ \A x \in Proc, y \in Fd : ofile[x][y] # 0 => file'[ofile[x][y]].type # "FD_NONE"
  BY FilledFacts
<1>3. FileRefs'
  <2> SUFFICES ASSUME NEW g \in File
               PROVE  file'[g].ref = Cardinality(Holders(g)') + Cardinality(FrameHolders(g)')
    BY DEF FileRefs
  <2>1. /\ g = a => Holders(g)' = {<<p, d>>} /\ FrameHolders(g)' = {}
        /\ g = b => Holders(g)' = {<<p, e>>} /\ FrameHolders(g)' = {}
        /\ g # a /\ g # b => Holders(g)' = Holders(g) /\ FrameHolders(g)' = FrameHolders(g)
    BY SMTT(60), HandedHolders
  <2>2. CASE g = a \/ g = b
    <3>1. Cardinality(Holders(g)') = 1 /\ Cardinality(FrameHolders(g)') = 0
      BY <2>1, <2>2, SmallCount
    <3>2. file'[g].ref = 1
      BY SMTT(60), <2>2 DEF Ends, Filled
    <3>3. 1 = 1 + 0
      BY SMTT(60)
    <3> QED
      BY <3>1, <3>2, <3>3
  <2>3. CASE g # a /\ g # b
    BY <2>1, <2>3 DEF PtrInv, FileRefs, Filled
  <2> QED
    BY <2>2, <2>3
<1>4. Sole'
  <2>1. ASSUME NEW x \in Proc, NEW k \in Local, local'[x][k] # 0
        PROVE  x # p /\ local'[x][k] = local[x][k]
    BY <2>1 DEF Handed
  <2>2. ASSUME NEW x \in Proc, NEW y \in Proc, NEW j \in Local, NEW l \in Local,
               local'[x][j] # 0, local'[x][j] = local'[y][l]
        PROVE  x = y /\ j = l
    <3>1. local'[x][j] = local[x][j] /\ local'[y][l] = local[y][l]
      BY <2>1, <2>2
    <3>2. local[x][j] # 0 /\ local[x][j] = local[y][l]
      BY <2>2, <3>1
    <3> QED
      BY SMTT(60), <3>2, LocalSole
  <2>3. ASSUME NEW x \in Proc, NEW y \in Proc, NEW k \in Local, NEW z \in Fd, local'[x][k] # 0
        PROVE  local'[x][k] # ofile'[y][z]
    <3>1. x # p /\ local'[x][k] = local[x][k] /\ local[x][k] # a /\ local[x][k] # b
      BY <2>1, <2>3 DEF Ends
    <3>2. CASE y = p /\ (z = d \/ z = e)
      BY <3>1, <3>2 DEF Handed
    <3>3. CASE y # p \/ (z # d /\ z # e)
      <4>1. ofile'[y][z] = ofile[y][z]
        BY <3>3 DEF Handed
      <4> QED
        BY SMTT(60), <2>3, <3>1, <4>1 DEF PtrInv, Sole
    <3> QED
      BY <3>2, <3>3
  <2> QED
    BY SMTT(60), <2>2, <2>3 DEF Sole
<1>5. Typed'
  <2> SUFFICES ASSUME NEW x \in Proc, NEW y \in Fd, ofile'[x][y] # 0
               PROVE  file'[ofile'[x][y]].type # "FD_NONE"
    BY DEF Typed
  <2>1. CASE x = p /\ (y = d \/ y = e)
    BY <2>1 DEF Handed, Filled
  <2>2. CASE x # p \/ (y # d /\ y # e)
    <3>1. ofile'[x][y] = ofile[x][y]
      BY <2>2 DEF Handed
    <3> QED
      BY <1>2, <3>1
  <2> QED
    BY <2>1, <2>2
<1> QED
  BY <1>1, <1>2, <1>3, <1>4, <1>5 DEF PtrInv

-----------------------------------------------------------------------------
(* What a step of p leaves alone.                                          *)

Own(p) == \A x \in Proc : x # p => ofile'[x] = ofile[x] /\ local'[x] = local[x] /\ ip'[x] = ip[x]

LEMMA PutsOwn ==
  ASSUME NEW T, NEW m \in [Proc -> T], NEW n, NEW p \in Proc, NEW d, NEW v, Puts(m, n, p, d, v)
  PROVE  \A x \in Proc : x # p => n[x] = m[x]
BY DEF Puts

LEMMA OwnKept ==
  ASSUME NEW p \in Proc, Own(p), LocalKept
  PROVE  OthersKept(p)
BY SMTT(60) DEF Own, LocalKept, OthersKept

\* Processes other than p, when p runs a call other than fork().
LEMMA OthersStep ==
  ASSUME ProcInv, NEW p \in Proc, state[p] = "RUNNING", NEW w \in Place, w # "fork",
         pc' = [pc EXCEPT ![p] = w], UNCHANGED <<cwd, state, fd, child>>, Own(p), OthersKept(p),
         ip' \in [Proc -> Inode \cup {Nil}], pipe' \in [Pipe -> SUBSET {"r", "w"}], iref' \in [Inode -> Int],
         Frame(p)'
  PROVE  ProcInv'
<1>1. pc' \in [Proc -> Place] /\ pc'[p] = w /\ \A x \in Proc : x # p => pc'[x] = pc[x]
  BY DEF ProcInv, ProcType
<1>2. ProcType'
  BY <1>1 DEF ProcInv, ProcType
<1>3. ASSUME NEW x \in Proc PROVE Frame(x)'
  <2>1. CASE x # p
    <3>1. Frame(x) /\ local'[x] = local[x] /\ ip'[x] = ip[x] /\ pc'[x] = pc[x]
      BY <1>1, <2>1 DEF ProcInv, Own
    <3>2. \A k \in Local : local[x][k] # 0 => file'[local[x][k]].type = file[local[x][k]].type
      BY <2>1 DEF OthersKept
    <3> QED
      BY SMTT(60), <3>1, <3>2 DEF Frame
  <2> QED
    BY <2>1
<1>4. ASSUME NEW x \in Proc PROVE Slot(x)'
  <2>1. Slot(x)
    BY DEF ProcInv
  <2>2. CASE x = p
    <3>1. state'[p] = "RUNNING" /\ pc'[p] # "fork"
      BY <1>1
    <3> QED
      BY <2>2, <3>1 DEF Slot
  <2>3. CASE x # p
    <3>1. pc'[x] = pc[x] /\ ofile'[x] = ofile[x] /\ state' = state /\ cwd' = cwd /\ child' = child /\ fd' = fd
      BY <1>1, <2>3 DEF Own
    <3>2. (state'[x] # "RUNNING" => pc'[x] = "idle" /\ cwd'[x] = Nil) /\ (state'[x] = "UNUSED" => \A d \in Fd : ofile'[x][d] = 0)
      BY <2>1, <3>1 DEF Slot
    <3>3. ASSUME pc'[x] = "fork"
          PROVE  /\ child'[x] \in Proc /\ state'[child'[x]] = "EMBRYO"
                 /\ \A d \in Fd : fd'[x] <= d => ofile'[child'[x]][d] = 0
      <4>1. /\ child[x] \in Proc /\ state[child[x]] = "EMBRYO"
            /\ \A d \in Fd : fd[x] <= d => ofile[child[x]][d] = 0
        BY <2>1, <3>1, <3>3 DEF Slot
      <4>2. ofile'[child[x]] = ofile[child[x]]
        BY <4>1 DEF Own
      <4> QED
        BY <3>1, <4>1, <4>2
    <3> QED
      BY <3>2, <3>3 DEF Slot
  <2> QED
    BY <2>2, <2>3
<1>5. Children'
  BY <1>1 DEF ProcInv, Children
<1> QED
  BY <1>2, <1>3, <1>4, <1>5 DEF ProcInv

\* Objects, when nothing that names one changes.
LEMMA ObjectsKept ==
  ASSUME InodeInv, PipeInv, TotKept, UNCHANGED <<iref, cwd, ip, pipe>>
  PROVE  InodeInv' /\ PipeInv'
<1>1. "FD_INODE" \in Object /\ "FD_PIPE" \in Object
  BY DEF Object
<1>2. InodeInv'
  <2>1. \A i : Tot(file', ff', "FD_INODE", i, "r") = Tot(file, ff, "FD_INODE", i, "r")
    BY <1>1 DEF TotKept
  <2> QED
    BY <2>1 DEF InodeInv
<1>3. PipeInv'
  <2>1. \A q, end : Tot(file', ff', "FD_PIPE", q, end) = Tot(file, ff, "FD_PIPE", q, end)
    BY <1>1 DEF TotKept
  <2> QED
    BY <2>1 DEF PipeInv
<1> QED
  BY <1>2, <1>3

\* A step that only moves pointers of p, at a place it does not leave.
LEMMA PointerStep ==
  ASSUME IInv, NEW p \in Proc, At(p, pc[p]), pc[p] # "fork", PtrInv', TotKept, LocalKept, Own(p),
         \A k \in Local : local'[p][k] # 0 => local'[p][k] = local[p][k],
         pc[p] \notin {"pipe1", "pipe2"}, UNCHANGED <<ip, cwd, state, pc, fd, child, pipe, iref>>
  PROVE  IInv'
<1>1. ProcInv /\ Frame(p) /\ state[p] = "RUNNING"
  BY DEF IInv, ProcInv, At
<1>2. pc[p] \in Place /\ pc' = [pc EXCEPT ![p] = pc[p]] /\ ProcType
  BY <1>1 DEF ProcInv, ProcType
<1>3. Frame(p)'
  BY <1>1 DEF Frame
<1>4. OthersKept(p)
  BY OwnKept
<1>5. ProcInv'
  <2>1. PICK w \in Place : w = pc[p]
    BY <1>2
  <2>2. /\ ip' \in [Proc -> Inode \cup {Nil}] /\ pipe' \in [Pipe -> SUBSET {"r", "w"}]
        /\ iref' \in [Inode -> Int]
    BY <1>2 DEF ProcType
  <2>3. w # "fork" /\ pc' = [pc EXCEPT ![p] = w]
    BY <1>2, <2>1
  <2> QED
    BY <1>1, <1>3, <1>4, <2>2, <2>3, OthersStep
<1>6. InodeInv' /\ PipeInv'
  BY ObjectsKept DEF IInv
<1> QED
  BY <1>5, <1>6 DEF IInv

-----------------------------------------------------------------------------
(* The actions.                                                            *)

LEMMA DupAction ==
  ASSUME Counting, IInv, NEW p \in Proc, sys_dup(p)
  PROVE  IInv'
<1>1. PICK d \in Fd, e \in Fd : /\ argfd(p, d) /\ IsFreeFd(ofile[p], e)
                                /\ ofile' = [ofile EXCEPT ![p][e] = ofile[p][d]]
                                /\ filedup(ofile[p][d])
  BY DEF sys_dup
<1>2. PtrInv /\ PtrType /\ Frame(p) /\ UNCHANGED <<local, ff>> /\ ofile[p][d] # 0 /\ ofile[p][e] = 0 /\ At(p, "idle")
  BY <1>1 DEF IInv, PtrInv, ProcInv, argfd, IsFreeFd, sys_dup
<1>3. ofile[p][d] \in File /\ Shared(ofile[p][d])
  BY <1>2, FdShared
<1>4. Puts(ofile, ofile', p, e, ofile[p][d])
  BY <1>1 DEF Puts
<1>5. PtrInv' /\ TotKept /\ LocalKept
  BY <1>1, <1>2, <1>3, <1>4, DupStep
<1>6. UNCHANGED <<ip, cwd, state, pc, fd, child, pipe, iref>> /\ pc[p] = "idle"
  BY <1>2 DEF sys_dup, At
<1>7. Own(p)
  <2>1. \A x \in Proc : x # p => ofile'[x] = ofile[x]
    BY <1>2, <1>4, PutsOwn DEF PtrType
  <2> QED
    BY <1>2, <1>6, <2>1 DEF Own
<1>8. At(p, pc[p]) /\ pc[p] # "fork" /\ pc[p] \notin {"pipe1", "pipe2"}
  BY <1>2, <1>6
<1>9. \A k \in Local : local'[p][k] # 0 => local'[p][k] = local[p][k]
  BY <1>2
<1> QED
  BY <1>5, <1>6, <1>7, <1>8, <1>9, PointerStep

\* sys_close() and exit() close the file of a descriptor.
LEMMA CloseAction ==
  ASSUME Counting, IInv, NEW p \in Proc, NEW w \in {"idle", "exit"}, At(p, w), NEW d \in Fd, ofile[p][d] # 0,
         ofile' = [ofile EXCEPT ![p][d] = 0], fileclose(p, ofile[p][d]),
         UNCHANGED <<local, ip, cwd, state, pc, fd, child, pipe, iref>>
  PROVE  IInv'
<1>1. PtrInv /\ PtrType /\ ff[p].type = "FD_NONE" /\ pc[p] = w /\ UNCHANGED local
  BY DEF IInv, PtrInv, At
<1>2. PICK f : f = ofile[p][d]
  OBVIOUS
<1>3. f \in File /\ Shared(f) /\ FdHolds(p, d, f)
  <2>1. f \in File /\ Shared(f)
    BY <1>1, <1>2, FdShared
  <2>2. f # 0
    BY <1>2
  <2>3. FdHolds(p, d, f)
    BY <1>1, <1>2, <2>2, HeldFd
  <2> QED
    BY <2>1, <2>3
<1>4. Puts(ofile, ofile', p, d, 0)
  BY DEF Puts
<1>5. fileclose(p, f)
  BY <1>2
<1>6. PtrInv' /\ TotKept /\ LocalKept
  BY <1>1, <1>2, <1>3, <1>4, <1>5, CloseFd
<1>7. Own(p)
  <2>1. \A x \in Proc : x # p => ofile'[x] = ofile[x]
    BY <1>1, <1>4, PutsOwn DEF PtrType
  <2> QED
    BY <2>1 DEF Own
<1>8. At(p, pc[p]) /\ pc[p] # "fork" /\ pc[p] \notin {"pipe1", "pipe2"}
  BY <1>1
<1>9. \A k \in Local : local'[p][k] # 0 => local'[p][k] = local[p][k]
  OBVIOUS
<1> QED
  BY <1>6, <1>7, <1>8, <1>9, PointerStep

LEMMA DropAction ==
  ASSUME Counting, IInv, NEW p \in Proc, drop_file(p)
  PROVE  IInv'
<1>1. PICK k \in Local : local[p][k] # 0 /\ local' = [local EXCEPT ![p][k] = 0] /\ fileclose(p, local[p][k])
  BY DEF drop_file
<1>2. /\ PtrInv /\ PtrType /\ ff[p].type = "FD_NONE" /\ pc[p] = "drop" /\ At(p, pc[p])
      /\ UNCHANGED <<ofile, ip, cwd, state, pc, fd, child, pipe, iref>>
  BY DEF IInv, PtrInv, At, drop_file
<1>3. PICK f : f = local[p][k]
  OBVIOUS
<1>4. f \in File /\ fileclose(p, f)
  BY SMTT(60), <1>1, <1>2, <1>3 DEF PtrType
<1>5. Puts(local, local', p, k, 0)
  BY <1>1 DEF Puts
<1>6. PtrInv' /\ TotKept /\ LocalKept
  BY <1>2, <1>3, <1>4, <1>5, CloseLocal
<1>7. Own(p)
  <2>1. \A x \in Proc : x # p => local'[x] = local[x]
    BY <1>2, <1>5, PutsOwn DEF PtrType
  <2> QED
    BY <1>2, <2>1 DEF Own
<1>8. pc[p] # "fork" /\ pc[p] \notin {"pipe1", "pipe2"}
  BY <1>2
<1>9. \A j \in Local : local'[p][j] # 0 => local'[p][j] = local[p][j]
  BY <1>1, <1>2 DEF PtrType
<1> QED
  BY <1>2, <1>6, <1>7, <1>8, <1>9, PointerStep

LEMMA ReadWriteAction ==
  ASSUME Counting, IInv, NEW p \in Proc, sys_rw(p)
  PROVE  ~panicked'
<1>1. PICK d \in Fd : argfd(p, d) /\ (fileread(ofile[p][d]) \/ filewrite(ofile[p][d]))
  BY DEF sys_rw
<1>2. file[ofile[p][d]].type # "FD_NONE"
  BY <1>1 DEF IInv, PtrInv, Typed, argfd
<1> QED
  BY <1>1, <1>2 DEF fileread, filewrite

\* The state of the tables and of the processes in steps that touch neither.
LEMMA TableKept ==
  ASSUME PtrInv, UNCHANGED <<file, ofile, local, ff>>, ~panicked'
  PROVE  PtrInv' /\ TotKept /\ LocalKept
<1>1. PtrType' /\ Sole' /\ Typed' /\ FreeNone'
  BY SMTT(60) DEF PtrInv, PtrType, Sole, Typed, FreeNone
<1>2. FileRefs'
  BY DEF PtrInv, FileRefs, Holders, FrameHolders
<1> QED
  BY <1>1, <1>2 DEF TotKept, LocalKept, PtrInv

LEMMA SysRwAction ==
  ASSUME Counting, IInv, NEW p \in Proc, sys_rw(p)
  PROVE  IInv'
<1>1. /\ UNCHANGED <<file, ofile, local, ff, ip, cwd, state, pc, fd, child, pipe, iref>>
      /\ At(p, pc[p]) /\ pc[p] = "idle"
  BY DEF sys_rw, At
<1>2. ~panicked'
  BY ReadWriteAction
<1>3. PtrInv' /\ TotKept /\ LocalKept
  BY <1>1, <1>2, TableKept DEF IInv
<1>4. Own(p) /\ pc[p] # "fork" /\ pc[p] \notin {"pipe1", "pipe2"}
  BY <1>1 DEF Own
<1>5. \A k \in Local : local'[p][k] # 0 => local'[p][k] = local[p][k]
  BY <1>1
<1> QED
  BY <1>1, <1>3, <1>4, <1>5, PointerStep


\* Counts are natural numbers.
LEMMA TotNat ==
  ASSUME Counting, NEW fl, NEW g, NEW t, NEW o, NEW s
  PROVE  Tot(fl, g, t, o, s) \in Nat
<1>1. Live(fl, t, o, s) \in SUBSET File
  BY DEF Live
<1>2. PICK a \in Nat : a = Cardinality(Live(fl, t, o, s))
  BY <1>1, Finite, SmallCount
<1>3. PICK b \in Nat : b = Cardinality(Late(g, t, o, s))
  BY LateNat
<1>4. a + b \in Nat
  BY SMTT(60)
<1> QED
  BY <1>2, <1>3, <1>4 DEF Tot

LEMMA HavingNat ==
  ASSUME Counting, NEW m, NEW i
  PROVE  Having(m, i) \in Nat
<1>1. {p \in Proc : m[p] = i} \in SUBSET Proc
  OBVIOUS
<1> QED
  BY <1>1, Finite, SmallCount DEF Having

Took(m, n, i) == \A j \in Inode : Having(n, j) = IF j = i THEN Having(m, j) + 1 ELSE Having(m, j)
Put(m, n, p, v) == n = [m EXCEPT ![p] = v]

\* A process takes or gives up an inode.
LEMMA TakeInode ==
  ASSUME Counting, NEW T, NEW m \in [Proc -> T], NEW p \in Proc, m[p] = Nil, NEW i, NEW n, Put(m, n, p, i)
  PROVE  Took(m, n, i)
<1> SUFFICES ASSUME NEW j \in Inode
             PROVE  Having(n, j) = IF j = i THEN Having(m, j) + 1 ELSE Having(m, j)
  BY DEF Took
<1>1. n[p] = i /\ ButFor(m, n, p)
  BY DEF Put, ButFor
<1>2. m[p] # j
  BY TableConstants
<1>3. Shift(m, n, j, m[p], n[p])
  BY <1>1, HavingPut
<1> QED
  BY <1>1, <1>2, <1>3 DEF Shift

LEMMA GiveInode ==
  ASSUME Counting, NEW T, NEW m \in [Proc -> T], NEW p \in Proc, NEW n, Put(m, n, p, Nil)
  PROVE  Took(n, m, m[p])
<1> SUFFICES ASSUME NEW j \in Inode
             PROVE  Having(m, j) = IF j = m[p] THEN Having(n, j) + 1 ELSE Having(n, j)
  BY DEF Took
<1>1. n[p] = Nil /\ ButFor(m, n, p)
  BY DEF Put, ButFor
<1>2. n[p] # j
  BY <1>1, TableConstants
<1>3. Shift(m, n, j, m[p], n[p])
  BY <1>1, HavingPut
<1> QED
  BY <1>1, <1>2, <1>3 DEF Shift

LEMMA Sums ==
  ASSUME NEW a \in Nat, NEW b \in Nat, NEW c \in Nat
  PROVE  /\ ((a + b) + c) + 1 = (a + (b + 1)) + c
         /\ ((a + b) + c) + 1 = (a + b) + (c + 1)
         /\ (a + b) + (c + 1) = ((a + 1) + b) + c
         /\ ((a + (b + 1)) + c) - 1 = (a + b) + c
         /\ ((a + b) + (c + 1)) - 1 = (a + b) + c
         /\ (((a + 1) + b) + c) - 1 = (a + b) + c
BY SMTT(60)

LEMMA PipesKept ==
  ASSUME PipeInv, TotKept, UNCHANGED pipe
  PROVE  PipeInv'
<1>1. "FD_PIPE" \in Object
  BY DEF Object
<1>2. \A q, end : Tot(file', ff', "FD_PIPE", q, end) = Tot(file, ff, "FD_PIPE", q, end)
  BY <1>1 DEF TotKept
<1> QED
  BY <1>2 DEF PipeInv

LEMMA SysOpenAction ==
  ASSUME Counting, IInv, NEW p \in Proc, sys_open(p)
  PROVE  IInv'
<1>1. PICK i \in Inode : ip' = [ip EXCEPT ![p] = i] /\ iref' = [iref EXCEPT ![i] = @ + 1]
  BY DEF sys_open
<1>2. /\ UNCHANGED <<file, ofile, local, ff, cwd, state, fd, child, pipe, panicked>>
      /\ pc' = [pc EXCEPT ![p] = "open"] /\ pc[p] = "idle" /\ state[p] = "RUNNING" /\ ~panicked
  BY DEF sys_open, At, Goto
<1>3. ProcInv /\ ProcType /\ Frame(p) /\ PtrInv
  BY DEF IInv, ProcInv
<1>4. PtrInv' /\ TotKept /\ LocalKept
  BY <1>2, <1>3, TableKept
<1>5. /\ ip' \in [Proc -> Inode \cup {Nil}] /\ \A x \in Proc : x # p => ip'[x] = ip[x]
      /\ iref' \in [Inode -> Int] /\ pipe' \in [Pipe -> SUBSET {"r", "w"}]
  BY SMTT(60), <1>1, <1>2, <1>3 DEF ProcType
<1>6. Own(p) /\ OthersKept(p)
  <2>1. Own(p)
    BY <1>2, <1>5 DEF Own
  <2> QED
    BY <1>4, <2>1, OwnKept
<1>7. ip[p] = Nil /\ \A k \in Local : local[p][k] = 0
  BY <1>2, <1>3 DEF Frame
<1>8. Frame(p)'
  <2>1. pc'[p] = "open" /\ \A k \in Local : local'[p][k] = 0
    BY <1>2, <1>3, <1>7 DEF ProcType
  <2> QED
    BY <2>1 DEF Frame
<1>9. ProcInv'
  <2>1. "open" \in Place /\ "open" # "fork" /\ UNCHANGED <<cwd, state, fd, child>>
    BY <1>2 DEF Place
  <2> QED
    BY <1>2, <1>3, <1>5, <1>6, <1>8, <2>1, OthersStep
<1>10. InodeInv'
  <2> SUFFICES ASSUME NEW j \in Inode
               PROVE  iref'[j] = Tot(file', ff', "FD_INODE", j, "r") + Having(cwd', j) + Having(ip', j)
    BY DEF InodeInv
  <2>1. PICK a \in Nat, b \in Nat, c \in Nat :
          a = Tot(file, ff, "FD_INODE", j, "r") /\ b = Having(cwd, j) /\ c = Having(ip, j)
    BY TotNat, HavingNat
  <2>2. iref[j] = (a + b) + c
    BY <2>1 DEF IInv, InodeInv
  <2>3. Tot(file', ff', "FD_INODE", j, "r") = a /\ Having(cwd', j) = b
    BY <1>2, <2>1
  <2>4. Having(ip', j) = IF j = i THEN c + 1 ELSE c
    <3>1. Put(ip, ip', p, i) /\ ip \in [Proc -> Inode \cup {Nil}]
      BY <1>1, <1>3 DEF Put, ProcType
    <3>2. Took(ip, ip', i)
      BY <1>7, <3>1, TakeInode
    <3> QED
      BY <2>1, <3>2 DEF Took
  <2>5. iref'[j] = IF j = i THEN ((a + b) + c) + 1 ELSE (a + b) + c
    BY <1>1, <1>3, <2>2 DEF ProcType
  <2> QED
    BY SMTT(60), <2>3, <2>4, <2>5, Sums
<1>11. PipeInv'
  BY <1>2, <1>4, PipesKept DEF IInv
<1> QED
  BY <1>4, <1>9, <1>10, <1>11 DEF IInv

\* A step that takes p to another place and leaves objects alone.
LEMMA PlaceStep ==
  ASSUME IInv, NEW p \in Proc, state[p] = "RUNNING", NEW w \in Place, w # "fork", pc' = [pc EXCEPT ![p] = w],
         PtrInv', TotKept, LocalKept, Own(p), UNCHANGED <<ip, cwd, state, fd, child, pipe, iref>>, Frame(p)'
  PROVE  IInv'
<1>1. ProcInv /\ ProcType
  BY DEF IInv, ProcInv
<1>2. /\ ip' \in [Proc -> Inode \cup {Nil}] /\ pipe' \in [Pipe -> SUBSET {"r", "w"}]
      /\ iref' \in [Inode -> Int]
  BY <1>1 DEF ProcType
<1>3. OthersKept(p)
  BY OwnKept
<1>4. ProcInv'
  BY <1>1, <1>2, <1>3, OthersStep
<1>5. InodeInv' /\ PipeInv'
  BY ObjectsKept DEF IInv
<1> QED
  BY <1>4, <1>5 DEF IInv

\* Where a step leaves pc.
LEMMA PlaceOf ==
  ASSUME ProcType, NEW p \in Proc, NEW w, pc' = [pc EXCEPT ![p] = w]
  PROVE  pc'[p] = w
BY DEF ProcType

LEMMA PlaceNames ==
  /\ 1 \in Local /\ 2 \in Local /\ 1 # 2 /\ (\A k \in Local : k = 1 \/ k = 2)
  /\ "idle" \in Place /\ "drop" \in Place /\ "pipe1" \in Place /\ "pipe2" \in Place /\ "exit" \in Place
BY SMTT(60) DEF Local, Place

\* A step to "drop" or "idle" that leaves the tables and the variables alone.
LEMMA StayStep ==
  ASSUME IInv, NEW p \in Proc, At(p, pc[p]), NEW w \in {"drop", "exit"}, pc' = [pc EXCEPT ![p] = w],
         w = "exit" => pc[p] = "idle",
         UNCHANGED <<file, ofile, local, ff, ip, cwd, state, fd, child, pipe, iref, panicked>>
  PROVE  IInv'
<1>1. state[p] = "RUNNING" /\ ~panicked' /\ PtrInv /\ ProcType /\ Frame(p)
  BY DEF At, IInv, ProcInv
<1>2. PtrInv' /\ TotKept /\ LocalKept
  BY <1>1, TableKept
<1>3. Own(p)
  BY DEF Own
<1>4. pc'[p] = w
  BY <1>1, PlaceOf
<1>5. Frame(p)'
  BY <1>1, <1>4 DEF Frame
<1>6. w \in Place /\ w # "fork"
  BY DEF Place
<1> QED
  BY <1>1, <1>2, <1>3, <1>5, <1>6, PlaceStep

\* filealloc() into variable k of the call.
LEMMA AllocAction ==
  ASSUME Counting, IInv, NEW p \in Proc, state[p] = "RUNNING", NEW w \in {"drop", "pipe1", "pipe2"},
         NEW k \in Local, local[p][k] = 0,
         w = "pipe1" => k = 1 /\ pc[p] = "idle",
         w = "pipe2" => k = 2 /\ pc[p] = "pipe1",
         pc' = [pc EXCEPT ![p] = w], NEW f \in File, IsFree(f),
         file' = [file EXCEPT ![f].ref = 1], local' = [local EXCEPT ![p][k] = f],
         UNCHANGED <<ofile, ff, ip, cwd, state, fd, child, pipe, iref, panicked>>, ip[p] # Nil => w = "drop"
  PROVE  IInv'
<1>1. PtrInv /\ PtrType /\ ProcType /\ Frame(p)
  BY DEF IInv, PtrInv, ProcInv
<1>2. Fresh(f)
  BY <1>1, IsFresh
<1>3. Puts(local, local', p, k, f)
  BY DEF Puts
<1>4. PtrInv' /\ TotKept /\ LocalKept /\ local'[p][k] = f /\ file'[f].type = "FD_NONE"
  BY <1>1, <1>2, <1>3, AllocLocal
<1>5. Own(p)
  <2>1. \A x \in Proc : x # p => local'[x] = local[x]
    BY <1>1, <1>3, PutsOwn DEF PtrType
  <2> QED
    BY <2>1 DEF Own
<1>6. pc'[p] = w
  BY <1>1, PlaceOf
<1>7. f # 0 /\ \A j \in Local : j # k => local'[p][j] = local[p][j]
  <2>1. f # 0
    BY SMTT(60) DEF File
  <2>2. \A j \in Local : j # k => local'[p][j] = local[p][j]
    BY <1>1 DEF PtrType
  <2> QED
    BY <2>1, <2>2
<1>8. Frame(p)'
  <2>1. CASE w = "drop"
    BY <1>6, <2>1 DEF Frame
  <2>2. CASE w = "pipe1"
    <3>1. k = 1 /\ local'[p][2] = 0 /\ ip'[p] = Nil
      BY <1>1, <1>7, <2>2, PlaceNames DEF Frame
    <3>2. \A j \in Local : local'[p][j] # 0 => local'[p][j] = f
      BY <1>4, <3>1, PlaceNames
    <3> QED
      BY <1>4, <1>6, <1>7, <2>2, <3>1, <3>2 DEF Frame
  <2>3. CASE w = "pipe2"
    <3>1. k = 2 /\ local[p][1] # 0 /\ local'[p][1] = local[p][1] /\ ip'[p] = Nil /\ pc[p] = "pipe1"
      BY <1>1, <1>7, <2>3, PlaceNames DEF Frame
    <3>2. file'[local[p][1]].type = "FD_NONE"
      BY <1>1, <1>4, <3>1, PlaceNames DEF Frame, LocalKept
    <3>3. \A j \in Local : local'[p][j] # 0 => local'[p][j] = f \/ local'[p][j] = local[p][1]
      BY <1>4, <3>1, PlaceNames
    <3> QED
      BY <1>4, <1>6, <1>7, <2>3, <3>1, <3>2, <3>3 DEF Frame
  <2> QED
    BY <2>1, <2>2, <2>3
<1>9. w \in Place /\ w # "fork"
  BY DEF Place
<1> QED
  BY <1>4, <1>5, <1>8, <1>9, PlaceStep

LEMMA SysPipeAction ==
  ASSUME Counting, IInv, NEW p \in Proc, sys_pipe(p)
  PROVE  IInv'
<1>1. PICK f \in File : IsFree(f) /\ file' = [file EXCEPT ![f].ref = 1] /\ local' = [local EXCEPT ![p][1] = f]
  BY DEF sys_pipe
<1>2. /\ UNCHANGED <<ofile, ff, ip, cwd, state, fd, child, pipe, iref, panicked>>
      /\ pc' = [pc EXCEPT ![p] = "pipe1"] /\ pc[p] = "idle" /\ state[p] = "RUNNING"
  BY DEF sys_pipe, At, Goto
<1>3. local[p][1] = 0 /\ ip[p] = Nil
  BY <1>2, PlaceNames DEF IInv, ProcInv, Frame
<1>4. PICK w \in {"drop", "pipe1", "pipe2"}, k \in Local : w = "pipe1" /\ k = 1
  BY PlaceNames
<1>5. w # "pipe2" /\ pc' = [pc EXCEPT ![p] = w] /\ local[p][k] = 0 /\ local' = [local EXCEPT ![p][k] = f]
  BY <1>1, <1>2, <1>3, <1>4
<1> QED
  BY <1>1, <1>2, <1>3, <1>4, <1>5, AllocAction

LEMMA PipeSecondAction ==
  ASSUME Counting, IInv, NEW p \in Proc, pipe_second(p)
  PROVE  IInv'
<1>1. /\ UNCHANGED <<ofile, ff, ip, cwd, state, fd, child, pipe, iref, panicked>>
      /\ pc[p] = "pipe1" /\ state[p] = "RUNNING" /\ At(p, pc[p])
  BY DEF pipe_second, At
<1>2. CASE pc' = [pc EXCEPT ![p] = "drop"] /\ UNCHANGED <<file, local>>
  <2>1. PICK w \in {"drop", "exit"} : w = "drop"
    OBVIOUS
  <2>2. pc' = [pc EXCEPT ![p] = w] /\ w # "exit"
    BY <1>2, <2>1
  <2> QED
    BY <1>1, <1>2, <2>2, StayStep
<1>3. ASSUME NEW f \in File, IsFree(f), file' = [file EXCEPT ![f].ref = 1],
             local' = [local EXCEPT ![p][2] = f], pc' = [pc EXCEPT ![p] = "pipe2"]
      PROVE  IInv'
  <2>1. local[p][2] = 0 /\ ip[p] = Nil
    BY <1>1, PlaceNames DEF IInv, ProcInv, Frame
  <2>2. PICK w \in {"drop", "pipe1", "pipe2"}, k \in Local : w = "pipe2" /\ k = 2
    BY PlaceNames
  <2>3. w # "pipe1" /\ pc' = [pc EXCEPT ![p] = w] /\ local[p][k] = 0 /\ local' = [local EXCEPT ![p][k] = f]
    BY <1>3, <2>1, <2>2
  <2> QED
    BY <1>1, <1>3, <2>1, <2>2, <2>3, AllocAction
<1> QED
  BY <1>2, <1>3 DEF pipe_second, Goto

\* sys_open() hands its reference to a new entry.
LEMMA OpenInodes ==
  ASSUME Counting, IInv, NEW p \in Proc, NEW e, e.type = "FD_INODE", e.obj = ip[p], TotPlus(e),
         Put(ip, ip', p, Nil), UNCHANGED <<cwd, pipe, iref>>
  PROVE  InodeInv' /\ PipeInv'
<1>1. "FD_INODE" \in Object /\ "FD_PIPE" \in Object /\ "FD_INODE" # "FD_PIPE" /\ ProcType
  BY DEF Object, IInv, ProcInv
<1>2. InodeInv'
  <2> SUFFICES ASSUME NEW j \in Inode
               PROVE  iref'[j] = Tot(file', ff', "FD_INODE", j, "r") + Having(cwd', j) + Having(ip', j)
    BY DEF InodeInv
  <2>1. PICK a \in Nat, b \in Nat, c \in Nat :
          a = Tot(file, ff, "FD_INODE", j, "r") /\ b = Having(cwd, j) /\ c = Having(ip', j)
    BY TotNat, HavingNat
  <2>2. Took(ip', ip, ip[p])
    BY <1>1, GiveInode DEF ProcType
  <2>3. Having(ip, j) = IF j = ip[p] THEN c + 1 ELSE c
    BY <2>1, <2>2 DEF Took
  <2>4. iref'[j] = (a + b) + Having(ip, j) /\ Having(cwd', j) = b
    BY <2>1 DEF IInv, InodeInv
  <2>5. Names(e, "FD_INODE", j, "r") <=> j = ip[p]
    BY <1>1 DEF Names
  <2>6. Tot(file', ff', "FD_INODE", j, "r") = IF j = ip[p] THEN a + 1 ELSE a
    BY <1>1, <2>1, <2>5 DEF TotPlus
  <2> QED
    BY SMTT(60), <2>1, <2>3, <2>4, <2>6, Sums
<1>3. PipeInv'
  <2>1. ASSUME NEW q, NEW end PROVE Tot(file', ff', "FD_PIPE", q, end) = Tot(file, ff, "FD_PIPE", q, end)
    <3>1. ~Names(e, "FD_PIPE", q, end)
      BY <1>1 DEF Names
    <3> QED
      BY <1>1, <3>1 DEF TotPlus
  <2> QED
    BY SMTT(60), <2>1 DEF IInv, PipeInv
<1> QED
  BY <1>2, <1>3

Opened(p, m, e) == e = [ref |-> 1, type |-> "FD_INODE", obj |-> ip[p], readable |-> m[1], writable |-> m[2]]

LEMMA OpenAction ==
  ASSUME Counting, IInv, NEW p \in Proc, state[p] = "RUNNING", pc[p] = "open",
         NEW f \in File, NEW d \in Fd, NEW m \in Mode, IsFree(f), IsFreeFd(ofile[p], d), NEW e, Opened(p, m, e),
         file' = [file EXCEPT ![f] = e], ofile' = [ofile EXCEPT ![p][d] = f], ip' = [ip EXCEPT ![p] = Nil],
         pc' = [pc EXCEPT ![p] = "idle"], UNCHANGED <<local, ff, cwd, state, fd, child, pipe, iref, panicked>>
  PROVE  IInv'
<1>1. PtrInv /\ PtrType /\ ProcInv /\ ProcType /\ Frame(p) /\ ofile[p][d] = 0
  BY DEF IInv, PtrInv, ProcInv, IsFreeFd
<1>2. Fresh(f)
  BY <1>1, IsFresh
<1>3. e \in Entry /\ e.ref = 1 /\ e.type = "FD_INODE" /\ e.obj = ip[p]
  <2>1. m[1] \in BOOLEAN /\ m[2] \in BOOLEAN
    BY SMTT(60), TableConstants
  <2>2. ip[p] \in Inode \cup Pipe \cup {Nil}
    BY <1>1 DEF ProcType
  <2> QED
    BY SMTT(60), <2>1, <2>2 DEF Entry, Type, Opened
<1>4. Puts(ofile, ofile', p, d, f) /\ Put(ip, ip', p, Nil)
  BY DEF Puts, Put
<1>5. PtrInv' /\ TotPlus(e) /\ LocalKept
  <2>1. e.type # "FD_NONE"
    BY <1>3
  <2> QED
    BY <1>1, <1>2, <1>3, <1>4, <2>1, OpenStep
<1>6. ip' \in [Proc -> Inode \cup {Nil}] /\ \A x \in Proc : x # p => ip'[x] = ip[x]
  BY <1>1 DEF ProcType
<1>7. Own(p) /\ OthersKept(p)
  <2>1. \A x \in Proc : x # p => ofile'[x] = ofile[x]
    BY <1>1, <1>4, PutsOwn DEF PtrType
  <2>2. Own(p)
    BY <1>6, <2>1 DEF Own
  <2> QED
    BY <1>5, <2>2, OwnKept
<1>8. Frame(p)'
  <2>1. pc'[p] = "idle" /\ ip'[p] = Nil /\ \A k \in Local : local'[p][k] = 0
    BY <1>1 DEF ProcType, Frame
  <2> QED
    BY <2>1 DEF Frame
<1>9. ProcInv'
  <2>1. "idle" # "fork" /\ pipe' \in [Pipe -> SUBSET {"r", "w"}] /\ iref' \in [Inode -> Int]
    BY <1>1 DEF ProcType
  <2> QED
    BY <1>1, <1>6, <1>7, <1>8, <2>1, PlaceNames, OthersStep
<1>10. InodeInv' /\ PipeInv'
  BY <1>3, <1>4, <1>5, OpenInodes
<1> QED
  BY <1>5, <1>9, <1>10 DEF IInv

LEMMA OpenFileAction ==
  ASSUME Counting, IInv, NEW p \in Proc, open_file(p)
  PROVE  IInv'
<1>1. /\ UNCHANGED <<ff, cwd, state, fd, child, pipe, iref, panicked>>
      /\ pc[p] = "open" /\ state[p] = "RUNNING" /\ At(p, pc[p])
  BY DEF open_file, At
<1>2. CASE pc' = [pc EXCEPT ![p] = "drop"] /\ UNCHANGED <<file, ofile, local, ip>>
  <2>1. PICK w \in {"drop", "exit"} : w = "drop"
    OBVIOUS
  <2>2. pc' = [pc EXCEPT ![p] = w] /\ w # "exit"
    BY <1>2, <2>1
  <2> QED
    BY <1>1, <1>2, <2>2, StayStep
<1>3. ASSUME NEW f \in File, IsFree(f), file' = [file EXCEPT ![f].ref = 1],
             local' = [local EXCEPT ![p][1] = f], pc' = [pc EXCEPT ![p] = "drop"], UNCHANGED <<ofile, ip>>
      PROVE  IInv'
  <2>1. local[p][1] = 0
    BY <1>1, PlaceNames DEF IInv, ProcInv, Frame
  <2>2. PICK w \in {"drop", "pipe1", "pipe2"}, k \in Local : w = "drop" /\ k = 1
    BY PlaceNames
  <2>3. /\ w # "pipe1" /\ w # "pipe2" /\ pc' = [pc EXCEPT ![p] = w] /\ local[p][k] = 0
        /\ local' = [local EXCEPT ![p][k] = f]
    BY <1>3, <2>1, <2>2
  <2> QED
    BY <1>1, <1>3, <2>2, <2>3, AllocAction
<1>4. ASSUME NEW f \in File, NEW d \in Fd, NEW m \in Mode, IsFree(f), IsFreeFd(ofile[p], d),
             file' = [file EXCEPT ![f] = [ref |-> 1, type |-> "FD_INODE", obj |-> ip[p],
                                          readable |-> m[1], writable |-> m[2]]],
             ofile' = [ofile EXCEPT ![p][d] = f], ip' = [ip EXCEPT ![p] = Nil],
             pc' = [pc EXCEPT ![p] = "idle"], UNCHANGED local
      PROVE  IInv'
  <2>1. PICK e : Opened(p, m, e)
    BY DEF Opened
  <2>2. file' = [file EXCEPT ![f] = e]
    BY <1>4, <2>1 DEF Opened
  <2>3. /\ IsFree(f) /\ IsFreeFd(ofile[p], d) /\ ofile' = [ofile EXCEPT ![p][d] = f]
        /\ ip' = [ip EXCEPT ![p] = Nil] /\ pc' = [pc EXCEPT ![p] = "idle"]
        /\ UNCHANGED <<local, ff, cwd, state, fd, child, pipe, iref, panicked>>
    BY <1>1, <1>4
  <2> QED
    BY <1>1, <2>1, <2>2, <2>3, OpenAction
<1> QED
  BY <1>2, <1>3, <1>4 DEF open_file, Goto

LEMMA DropInodeAction ==
  ASSUME Counting, IInv, NEW p \in Proc, drop_inode(p)
  PROVE  IInv'
<1>1. /\ iref' = [i \in Inode |-> IF i = ip[p] THEN iref[i] - 1 ELSE iref[i]]
      /\ ip' = [ip EXCEPT ![p] = Nil] /\ pc' = [pc EXCEPT ![p] = "idle"]
      /\ UNCHANGED <<file, ofile, local, ff, cwd, state, fd, child, pipe, panicked>>
      /\ state[p] = "RUNNING" /\ ~panicked /\ \A k \in Local : local[p][k] = 0
  BY DEF drop_inode, At, Goto
<1>2. ProcInv /\ ProcType /\ PtrInv
  BY DEF IInv, ProcInv
<1>3. PtrInv' /\ TotKept /\ LocalKept
  BY <1>1, <1>2, TableKept
<1>4. /\ ip' \in [Proc -> Inode \cup {Nil}] /\ ip'[p] = Nil /\ (\A x \in Proc : x # p => ip'[x] = ip[x])
      /\ pipe' \in [Pipe -> SUBSET {"r", "w"}]
  BY <1>1, <1>2 DEF ProcType
<1>5. iref' \in [Inode -> Int]
  BY SMTT(60), <1>1, <1>2 DEF ProcType
<1>6. Own(p) /\ OthersKept(p)
  <2>1. Own(p)
    BY <1>1, <1>4 DEF Own
  <2> QED
    BY <1>3, <2>1, OwnKept
<1>7. Frame(p)'
  <2>1. pc'[p] = "idle" /\ \A k \in Local : local'[p][k] = 0
    BY <1>1, <1>2 DEF ProcType
  <2> QED
    BY <1>4, <2>1 DEF Frame
<1>8. ProcInv'
  <2>1. "idle" # "fork" /\ UNCHANGED <<cwd, state, fd, child>>
    BY <1>1
  <2> QED
    BY <1>1, <1>2, <1>4, <1>5, <1>6, <1>7, <2>1, PlaceNames, OthersStep
<1>9. InodeInv'
  <2> SUFFICES ASSUME NEW j \in Inode
               PROVE  iref'[j] = Tot(file', ff', "FD_INODE", j, "r") + Having(cwd', j) + Having(ip', j)
    BY DEF InodeInv
  <2>1. PICK a \in Nat, b \in Nat, c \in Nat :
          a = Tot(file, ff, "FD_INODE", j, "r") /\ b = Having(cwd, j) /\ c = Having(ip', j)
    BY TotNat, HavingNat
  <2>2. Took(ip', ip, ip[p])
    <3>1. Put(ip, ip', p, Nil)
      BY <1>1 DEF Put
    <3> QED
      BY <1>2, <3>1, GiveInode DEF ProcType
  <2>3. Having(ip, j) = IF j = ip[p] THEN c + 1 ELSE c
    BY <2>1, <2>2 DEF Took
  <2>4. iref[j] = (a + b) + Having(ip, j)
    BY <2>1 DEF IInv, InodeInv
  <2>5. iref'[j] = IF j = ip[p] THEN iref[j] - 1 ELSE iref[j]
    BY <1>1
  <2>6. iref'[j] = (a + b) + c
    BY SMTT(60), <2>3, <2>4, <2>5, Sums
  <2> QED
    BY <1>1, <2>1, <2>6
<1>10. PipeInv'
  BY <1>1, <1>3, PipesKept DEF IInv
<1> QED
  BY <1>3, <1>8, <1>9, <1>10 DEF IInv

\* The two ends of pipe q have an entry each.
LEMMA PipeObjects ==
  ASSUME Counting, IInv, NEW q \in Pipe, pipe[q] = {}, pipe' = [pipe EXCEPT ![q] = {"r", "w"}],
         TotPair(PipeEnd(q, FALSE), PipeEnd(q, TRUE)), UNCHANGED <<cwd, ip, iref>>
  PROVE  InodeInv' /\ PipeInv'
<1>1. "FD_INODE" \in Object /\ "FD_PIPE" \in Object /\ "FD_INODE" # "FD_PIPE" /\ ProcType
  BY DEF Object, IInv, ProcInv
<1>2. PICK c, e : c = PipeEnd(q, FALSE) /\ e = PipeEnd(q, TRUE)
  OBVIOUS
<1>3. /\ c.type = "FD_PIPE" /\ c.obj = q /\ EndOf(c) = "r"
      /\ e.type = "FD_PIPE" /\ e.obj = q /\ EndOf(e) = "w"
  BY <1>2 DEF PipeEnd, EndOf
<1>4. TotPair(c, e)
  BY <1>2
<1>5. InodeInv'
  <2>1. ASSUME NEW j PROVE Tot(file', ff', "FD_INODE", j, "r") = Tot(file, ff, "FD_INODE", j, "r")
    <3>1. ~Names(c, "FD_INODE", j, "r") /\ ~Names(e, "FD_INODE", j, "r")
      BY <1>1, <1>3 DEF Names
    <3> QED
      BY SMTT(60), <1>1, <1>4, <3>1 DEF TotPair
  <2> QED
    BY <2>1 DEF IInv, InodeInv
<1>6. PipeInv'
  <2> SUFFICES ASSUME NEW x \in Pipe, NEW end \in {"r", "w"}
               PROVE  Tot(file', ff', "FD_PIPE", x, end) = IF end \in pipe'[x] THEN 1 ELSE 0
    BY DEF PipeInv
  <2>1. Tot(file, ff, "FD_PIPE", x, end) = IF end \in pipe[x] THEN 1 ELSE 0
    BY DEF IInv, PipeInv
  <2>2. CASE x = q
    <3>1. Tot(file, ff, "FD_PIPE", x, end) = 0 /\ end \in pipe'[x]
      BY <1>1, <2>1, <2>2 DEF ProcType
    <3>2. \/ Names(c, "FD_PIPE", x, end) /\ ~Names(e, "FD_PIPE", x, end)
          \/ ~Names(c, "FD_PIPE", x, end) /\ Names(e, "FD_PIPE", x, end)
      BY <1>3, <2>2 DEF Names
    <3>3. Tot(file', ff', "FD_PIPE", x, end) = 0 + 1
      BY SMTT(60), <1>1, <1>4, <3>1, <3>2 DEF TotPair
    <3>4. 0 + 1 = 1
      BY SMTT(60)
    <3> QED
      BY <3>1, <3>3, <3>4
  <2>3. CASE x # q
    <3>1. ~Names(c, "FD_PIPE", x, end) /\ ~Names(e, "FD_PIPE", x, end)
      BY <1>3, <2>3 DEF Names
    <3>2. Tot(file', ff', "FD_PIPE", x, end) = Tot(file, ff, "FD_PIPE", x, end)
      BY SMTT(60), <1>1, <1>4, <3>1 DEF TotPair
    <3>3. pipe'[x] = pipe[x]
      BY <1>1, <2>3 DEF ProcType
    <3> QED
      BY <2>1, <3>2, <3>3
  <2> QED
    BY <2>2, <2>3
<1> QED
  BY <1>5, <1>6

LEMMA EndIsEntry ==
  ASSUME NEW q \in Pipe, NEW w \in BOOLEAN
  PROVE  PipeEnd(q, w) \in Entry /\ PipeEnd(q, w).ref = 1 /\ PipeEnd(q, w).type # "FD_NONE"
BY SMTT(60) DEF PipeEnd, Entry, Type

\* The descriptors and variables of p when sys_pipe() succeeds.
LEMMA Hands ==
  ASSUME PtrType, NEW p \in Proc, NEW a \in File, NEW b \in File, NEW d \in Fd, NEW e \in Fd,
         IsFreeFd(ofile[p], d), IsFreeFd([ofile[p] EXCEPT ![d] = a], e),
         ofile' = [ofile EXCEPT ![p][d] = a, ![p][e] = b], local' = [local EXCEPT ![p] = [k \in Local |-> 0]]
  PROVE  Handed(p, d, e, a, b)
<1>1. ofile \in [Proc -> [Fd -> File \cup {0}]] /\ local \in [Proc -> [Local -> File \cup {0}]] /\ a # 0
  BY SMTT(60) DEF PtrType, File
<1>2. ofile[p][d] = 0 /\ [ofile[p] EXCEPT ![d] = a][e] = 0
  BY DEF IsFreeFd
<1>3. d # e
  BY <1>1, <1>2
<1>4. ofile[p][e] = 0
  BY <1>1, <1>2, <1>3
<1>5. PICK h : h = [ofile EXCEPT ![p][d] = a]
  OBVIOUS
<1>6. /\ h \in [Proc -> [Fd -> File \cup {0}]] /\ h[p][d] = a
      /\ \A x \in Proc, y \in Fd : x # p \/ y # d => h[x][y] = ofile[x][y]
  BY SMTT(60), <1>1, <1>5
<1>7. ofile' = [h EXCEPT ![p][e] = b]
  BY SMTT(60), <1>1, <1>5
<1>8. /\ ofile' \in [Proc -> [Fd -> File \cup {0}]] /\ ofile'[p][e] = b
      /\ \A x \in Proc, y \in Fd : x # p \/ y # e => ofile'[x][y] = h[x][y]
  <2>1. PICK g \in [Fd -> File \cup {0}] : g = h[p]
    BY <1>6
  <2>2. PICK g1 \in [Fd -> File \cup {0}] :
          g1 = [g EXCEPT ![e] = b] /\ g1[e] = b /\ \A y \in Fd : y # e => g1[y] = g[y]
    <3>1. PICK g1 : g1 = [g EXCEPT ![e] = b]
      OBVIOUS
    <3>2. g1 \in [Fd -> File \cup {0}] /\ g1[e] = b /\ \A y \in Fd : y # e => g1[y] = g[y]
      BY <3>1
    <3> QED
      BY <3>1, <3>2
  <2>3. ofile' = [h EXCEPT ![p] = g1]
    BY <1>7, <2>1, <2>2
  <2>4. ofile'[p] = g1 /\ \A x \in Proc : x # p => ofile'[x] = h[x]
    BY <1>6, <2>3
  <2>5. ofile' \in [Proc -> [Fd -> File \cup {0}]] /\ ofile'[p][e] = b
    <3>1. ofile' \in [Proc -> [Fd -> File \cup {0}]]
      BY <1>6, <2>3
    <3> QED
      BY <2>2, <2>4, <3>1
  <2>6. ASSUME NEW x \in Proc, NEW y \in Fd, x # p \/ y # e PROVE ofile'[x][y] = h[x][y]
    <3>1. CASE x # p
      BY <2>4, <3>1
    <3>2. CASE x = p
      BY <2>1, <2>2, <2>4, <2>6, <3>2
    <3> QED
      BY <3>1, <3>2
  <2> QED
    BY <2>5, <2>6
<1>9. ofile'[p][d] = a /\ \A x \in Proc, y \in Fd : x # p \/ (y # d /\ y # e) => ofile'[x][y] = ofile[x][y]
  BY SMTT(60), <1>3, <1>6, <1>8
<1>10. /\ local' \in [Proc -> [Local -> File \cup {0}]] /\ \A k \in Local : local'[p][k] = 0
       /\ \A x \in Proc, k \in Local : x # p => local'[x][k] = local[x][k]
  BY SMTT(60), <1>1
<1> QED
  BY <1>2, <1>3, <1>4, <1>8, <1>9, <1>10 DEF Handed

LEMMA PipePageAction ==
  ASSUME Counting, IInv, NEW p \in Proc, pipe_page(p)
  PROVE  IInv'
<1>1. /\ UNCHANGED <<ff, ip, cwd, state, fd, child, iref, panicked>>
      /\ pc[p] = "pipe2" /\ state[p] = "RUNNING" /\ At(p, pc[p])
  BY DEF pipe_page, At
<1>2. PtrInv /\ PtrType /\ ProcInv /\ ProcType /\ Frame(p)
  BY DEF IInv, PtrInv, ProcInv
<1>3. CASE pc' = [pc EXCEPT ![p] = "drop"] /\ UNCHANGED <<file, ofile, local, pipe>>
  <2>1. PICK w \in {"drop", "exit"} : w = "drop"
    OBVIOUS
  <2>2. pc' = [pc EXCEPT ![p] = w] /\ w # "exit"
    BY <1>3, <2>1
  <2> QED
    BY <1>1, <1>3, <2>2, StayStep
<1>4. ASSUME NEW q \in Pipe, pipe[q] = {}, pipe' = [pipe EXCEPT ![q] = {"r", "w"}],
             file' = [file EXCEPT ![local[p][1]] = PipeEnd(q, FALSE), ![local[p][2]] = PipeEnd(q, TRUE)],
             \/ \E d \in Fd, e \in Fd :
                  /\ IsFreeFd(ofile[p], d)
                  /\ IsFreeFd([ofile[p] EXCEPT ![d] = local[p][1]], e)
                  /\ ofile' = [ofile EXCEPT ![p][d] = local[p][1], ![p][e] = local[p][2]]
                  /\ local' = [local EXCEPT ![p] = [k \in Local |-> 0]]
                  /\ pc' = [pc EXCEPT ![p] = "idle"]
             \/ pc' = [pc EXCEPT ![p] = "drop"] /\ UNCHANGED <<ofile, local>>
      PROVE  IInv'
  <2>1. PICK a, b, u, v : a = local[p][1] /\ b = local[p][2] /\ u = PipeEnd(q, FALSE) /\ v = PipeEnd(q, TRUE)
    OBVIOUS
  <2>2. Ends(p, a, b)
    BY <1>1, <1>2, <2>1, EndsHold
  <2>3. u \in Entry /\ v \in Entry /\ u.ref = 1 /\ v.ref = 1 /\ u.type # "FD_NONE" /\ v.type # "FD_NONE"
    BY <2>1, EndIsEntry
  <2>4. Filled(a, b, u, v) /\ TotPair(u, v)
    <3>1. file' = [file EXCEPT ![a] = u, ![b] = v] /\ UNCHANGED ff
      BY <1>1, <1>4, <2>1
    <3> QED
      BY <1>2, <2>2, <2>3, <3>1, FillPair
  <2>5. InodeInv' /\ PipeInv'
    BY <1>1, <1>4, <2>1, <2>4, PipeObjects
  <2>6. /\ pipe' \in [Pipe -> SUBSET {"r", "w"}] /\ ip' \in [Proc -> Inode \cup {Nil}]
        /\ iref' \in [Inode -> Int]
    BY SMTT(60), <1>1, <1>2, <1>4 DEF ProcType
  <2>7. ip'[p] = Nil
    BY <1>1, <1>2 DEF Frame
  <2>8. CASE pc' = [pc EXCEPT ![p] = "drop"] /\ UNCHANGED <<ofile, local>>
    <3>1. PtrInv' /\ OthersKept(p)
      BY <1>1, <1>2, <2>2, <2>3, <2>4, <2>8, PipeKept
    <3>2. Own(p)
      BY <1>1, <2>8 DEF Own
    <3>3. Frame(p)'
      <4>1. pc'[p] = "drop"
        BY <1>2, <2>8 DEF ProcType
      <4> QED
        BY <2>7, <4>1 DEF Frame
    <3>4. ProcInv'
      <4>1. "drop" # "fork" /\ pc' = [pc EXCEPT ![p] = "drop"] /\ UNCHANGED <<cwd, state, fd, child>>
        BY <1>1, <2>8
      <4> QED
        BY <1>1, <1>2, <2>6, <3>1, <3>2, <3>3, <4>1, PlaceNames, OthersStep
    <3> QED
      BY <2>5, <3>1, <3>4 DEF IInv
  <2>9. ASSUME NEW d \in Fd, NEW e \in Fd, IsFreeFd(ofile[p], d), IsFreeFd([ofile[p] EXCEPT ![d] = local[p][1]], e),
               ofile' = [ofile EXCEPT ![p][d] = local[p][1], ![p][e] = local[p][2]],
               local' = [local EXCEPT ![p] = [k \in Local |-> 0]], pc' = [pc EXCEPT ![p] = "idle"]
        PROVE  IInv'
    <3>1. Handed(p, d, e, a, b)
      <4>1. a \in File /\ b \in File
        BY <2>2 DEF Ends
      <4>2. IsFreeFd([ofile[p] EXCEPT ![d] = a], e) /\ ofile' = [ofile EXCEPT ![p][d] = a, ![p][e] = b]
        BY <2>1, <2>9
      <4> QED
        BY <1>2, <2>9, <4>1, <4>2, Hands
    <3>2. PtrInv' /\ OthersKept(p)
      BY <1>1, <1>2, <2>2, <2>3, <2>4, <3>1, PipeSet
    <3>3. Own(p)
      BY <1>1, <1>2, <2>9 DEF Own, PtrType
    <3>4. Frame(p)'
      <4>1. pc'[p] = "idle" /\ \A k \in Local : local'[p][k] = 0
        BY <1>2, <2>9, <3>1 DEF ProcType, Handed
      <4> QED
        BY <2>7, <4>1 DEF Frame
    <3>5. ProcInv'
      <4>1. "idle" # "fork" /\ pc' = [pc EXCEPT ![p] = "idle"] /\ UNCHANGED <<cwd, state, fd, child>>
        BY <1>1, <2>9
      <4> QED
        BY <1>1, <1>2, <2>6, <3>2, <3>3, <3>4, <4>1, PlaceNames, OthersStep
    <3> QED
      BY <2>5, <3>2, <3>5 DEF IInv
  <2> QED
    BY <1>4, <2>8, <2>9
<1> QED
  BY <1>3, <1>4 DEF pipe_page, Goto

\* The second half of fileclose() takes one name away.
TotMinus(e) ==
  \A t \in Object : \A o, s :
    /\ Tot(file', ff', t, o, s) \in Nat
    /\ Names(e, t, o, s) => Tot(file, ff, t, o, s) = Tot(file', ff', t, o, s) + 1
    /\ ~Names(e, t, o, s) => Tot(file, ff, t, o, s) = Tot(file', ff', t, o, s)

LEMMA LoseTot ==
  ASSUME Counting, PtrType, NEW p \in Proc, ff' = [ff EXCEPT ![p] = Empty], UNCHANGED file
  PROVE  TotMinus(ff[p]) /\ ff' \in [Proc -> Entry]
<1>1. ff' \in [Proc -> Entry] /\ ff'[p] = Empty /\ \A q \in Proc : q # p => ff'[q] = ff[q]
  <2>1. Empty \in Entry
    BY SMTT(60) DEF Empty, Entry, Type
  <2> QED
    BY <2>1 DEF PtrType
<1>2. ASSUME NEW t \in Object, NEW o, NEW s
      PROVE  /\ Tot(file', ff', t, o, s) \in Nat
             /\ Names(ff[p], t, o, s) => Tot(file, ff, t, o, s) = Tot(file', ff', t, o, s) + 1
             /\ ~Names(ff[p], t, o, s) => Tot(file, ff, t, o, s) = Tot(file', ff', t, o, s)
  <2>1. ~Names(ff'[p], t, o, s)
    <3>1. ff'[p].type = "FD_NONE"
      BY <1>1 DEF Empty
    <3> QED
      BY <3>1, NotNone DEF Names
  <2>2. /\ Apart(Late(ff, t, o, s), Late(ff', t, o, s), p)
        /\ p \in Late(ff, t, o, s) <=> Names(ff[p], t, o, s)
        /\ p \notin Late(ff', t, o, s)
    BY <1>1, <2>1, LatePut
  <2>3. Live(file', t, o, s) = Live(file, t, o, s) /\ Live(file', t, o, s) \in SUBSET File
    BY DEF Live
  <2>4. PICK a \in Nat, b \in Nat : a = Cardinality(Live(file', t, o, s)) /\ b = Cardinality(Late(ff', t, o, s))
    BY <2>3, Finite, SmallCount, LateNat
  <2>5. a + b \in Nat /\ a + (b + 1) = (a + b) + 1
    BY SMTT(60)
  <2>6. Names(ff[p], t, o, s) => Cardinality(Late(ff, t, o, s)) = b + 1
    BY <2>2, <2>4 DEF Apart
  <2>7. ~Names(ff[p], t, o, s) => Cardinality(Late(ff, t, o, s)) = b
    BY <2>2, <2>4 DEF Apart
  <2> QED
    BY <2>3, <2>4, <2>5, <2>6, <2>7 DEF Tot
<1> QED
  BY <1>1, <1>2 DEF TotMinus

\* Processes, when a step leaves them and their pointers alone.
LEMMA ProcKept ==
  ASSUME ProcInv, UNCHANGED <<file, ofile, local, ip, cwd, state, pc, fd, child>>,
         pipe' \in [Pipe -> SUBSET {"r", "w"}], iref' \in [Inode -> Int]
  PROVE  ProcInv'
<1>1. ProcType'
  BY DEF ProcInv, ProcType
<1>2. (\A p \in Proc : Frame(p)') /\ (\A p \in Proc : Slot(p)') /\ Children'
  BY SMTT(60) DEF ProcInv, Frame, Slot, Children
<1> QED
  BY <1>1, <1>2 DEF ProcInv

LEMMA FfKept ==
  ASSUME PtrInv, UNCHANGED <<file, ofile, local, panicked>>, ff' \in [Proc -> Entry]
  PROVE  PtrInv'
<1>1. PtrType' /\ Sole' /\ Typed' /\ FreeNone'
  BY SMTT(60) DEF PtrInv, PtrType, Sole, Typed, FreeNone
<1>2. FileRefs'
  BY DEF PtrInv, FileRefs, Holders, FrameHolders
<1> QED
  BY <1>1, <1>2 DEF PtrInv

LEMMA CloseObjectAction ==
  ASSUME Counting, IInv, NEW p \in Proc, close_object(p)
  PROVE  IInv'
<1>1. /\ ff' = [ff EXCEPT ![p] = Empty]
      /\ UNCHANGED <<file, ofile, local, ip, cwd, state, pc, fd, child, panicked>>
  BY DEF close_object
<1>2. PtrInv /\ PtrType /\ ProcInv /\ ProcType
  BY DEF IInv, PtrInv, ProcInv
<1>3. TotMinus(ff[p]) /\ ff' \in [Proc -> Entry]
  BY <1>1, <1>2, LoseTot
<1>4. PtrInv'
  BY <1>1, <1>2, <1>3, FfKept
<1>5. "FD_INODE" \in Object /\ "FD_PIPE" \in Object /\ "FD_INODE" # "FD_PIPE"
  BY DEF Object
<1>6. PICK e : e = ff[p]
  OBVIOUS
<1>7. TotMinus(e)
  BY <1>3, <1>6
<1>8. CASE e.type = "FD_PIPE" /\ pipe' = [pipe EXCEPT ![e.obj] = @ \ {EndOf(e)}] /\ UNCHANGED iref
  <2>1. pipe' \in [Pipe -> SUBSET {"r", "w"}] /\ iref' \in [Inode -> Int]
    <3>1. PICK x : x = EndOf(e)
      OBVIOUS
    <3>2. pipe' = [pipe EXCEPT ![e.obj] = pipe[e.obj] \ {x}]
      BY <1>8, <3>1
    <3>3. pipe' \in [Pipe -> SUBSET {"r", "w"}]
      BY <1>2, <3>2 DEF ProcType
    <3> QED
      BY <1>2, <1>8, <3>3 DEF ProcType
  <2>2. InodeInv'
    <3>1. ASSUME NEW j PROVE Tot(file, ff, "FD_INODE", j, "r") = Tot(file', ff', "FD_INODE", j, "r")
      <4>1. ~Names(e, "FD_INODE", j, "r")
        BY <1>5, <1>8 DEF Names
      <4> QED
        BY <1>5, <1>7, <4>1 DEF TotMinus
    <3> QED
      BY <1>1, <1>8, <3>1 DEF IInv, InodeInv
  <2>3. PipeInv'
    <3> SUFFICES ASSUME NEW x \in Pipe, NEW end \in {"r", "w"}
                 PROVE  Tot(file', ff', "FD_PIPE", x, end) = IF end \in pipe'[x] THEN 1 ELSE 0
      BY DEF PipeInv
    <3>1. Tot(file, ff, "FD_PIPE", x, end) = IF end \in pipe[x] THEN 1 ELSE 0
      BY DEF IInv, PipeInv
    <3>2. PICK n \in Nat : n = Tot(file', ff', "FD_PIPE", x, end)
      BY TotNat
    <3>3. CASE x = e.obj /\ end = EndOf(e)
      <4>1. Names(e, "FD_PIPE", x, end)
        BY <1>8, <3>3 DEF Names
      <4>2. Tot(file, ff, "FD_PIPE", x, end) = n + 1
        BY <1>5, <1>7, <3>2, <4>1 DEF TotMinus
      <4>3. n + 1 = 1 \/ n + 1 = 0
        BY <3>1, <4>2
      <4>4. n = 0
        BY SMTT(60), <4>3
      <4>5. end \notin pipe'[x]
        BY <1>2, <1>8, <3>3 DEF ProcType
      <4> QED
        BY <3>2, <4>4, <4>5
    <3>4. CASE ~(x = e.obj /\ end = EndOf(e))
      <4>1. ~Names(e, "FD_PIPE", x, end)
        BY <3>4 DEF Names
      <4>2. Tot(file, ff, "FD_PIPE", x, end) = n
        BY <1>5, <1>7, <3>2, <4>1 DEF TotMinus
      <4>3. end \in pipe'[x] <=> end \in pipe[x]
        <5>1. CASE x = e.obj
          BY <1>2, <1>8, <3>4, <5>1 DEF ProcType
        <5>2. CASE x # e.obj
          BY <1>2, <1>8, <5>2 DEF ProcType
        <5> QED
          BY <5>1, <5>2
      <4> QED
        BY <3>1, <3>2, <4>2, <4>3
    <3> QED
      BY <3>3, <3>4
  <2>4. ProcInv'
    BY <1>1, <1>2, <2>1, ProcKept
  <2> QED
    BY <1>4, <2>2, <2>3, <2>4 DEF IInv
<1>9. CASE e.type = "FD_INODE" /\ iref' = [iref EXCEPT ![e.obj] = @ - 1] /\ UNCHANGED pipe
  <2>1. pipe' \in [Pipe -> SUBSET {"r", "w"}] /\ iref' \in [Inode -> Int]
    <3>1. PICK i : i = e.obj
      OBVIOUS
    <3>2. iref \in [Inode -> Int] /\ iref' = [iref EXCEPT ![i] = iref[i] - 1]
      BY <1>2, <1>9, <3>1 DEF ProcType
    <3>3. i \in Inode => iref[i] - 1 \in Int
      BY SMTT(60), <3>2
    <3>4. iref' \in [Inode -> Int]
      BY <3>2, <3>3
    <3> QED
      BY <1>2, <1>9, <3>4 DEF ProcType
  <2>2. PipeInv'
    <3>1. ASSUME NEW x, NEW end PROVE Tot(file, ff, "FD_PIPE", x, end) = Tot(file', ff', "FD_PIPE", x, end)
      <4>1. ~Names(e, "FD_PIPE", x, end)
        BY <1>5, <1>9 DEF Names
      <4> QED
        BY <1>5, <1>7, <4>1 DEF TotMinus
    <3> QED
      BY <1>9, <3>1 DEF IInv, PipeInv
  <2>3. InodeInv'
    <3> SUFFICES ASSUME NEW j \in Inode
                 PROVE  iref'[j] = Tot(file', ff', "FD_INODE", j, "r") + Having(cwd', j) + Having(ip', j)
      BY DEF InodeInv
    <3>1. PICK a \in Nat, b \in Nat, c \in Nat :
            a = Tot(file', ff', "FD_INODE", j, "r") /\ b = Having(cwd, j) /\ c = Having(ip, j)
      BY TotNat, HavingNat
    <3>2. iref[j] = (Tot(file, ff, "FD_INODE", j, "r") + b) + c
      BY <3>1 DEF IInv, InodeInv
    <3>3. Names(e, "FD_INODE", j, "r") <=> j = e.obj
      BY <1>5, <1>9 DEF Names
    <3>4. Tot(file, ff, "FD_INODE", j, "r") = IF j = e.obj THEN a + 1 ELSE a
      BY <1>5, <1>7, <3>1, <3>3 DEF TotMinus
    <3>5. iref'[j] = IF j = e.obj THEN iref[j] - 1 ELSE iref[j]
      BY <1>2, <1>9 DEF ProcType
    <3>6. iref'[j] = (a + b) + c
      BY SMTT(60), <3>2, <3>4, <3>5, Sums
    <3> QED
      BY <1>1, <3>1, <3>6
  <2>4. ProcInv'
    BY <1>1, <1>2, <2>1, ProcKept
  <2> QED
    BY <1>4, <2>2, <2>3, <2>4 DEF IInv
<1> QED
  BY <1>6, <1>8, <1>9 DEF close_object

LEMMA ExitAction ==
  ASSUME IInv, NEW p \in Proc, exit(p)
  PROVE  IInv'
<1>1. /\ At(p, pc[p]) /\ pc[p] = "idle" /\ pc' = [pc EXCEPT ![p] = "exit"]
      /\ UNCHANGED <<file, ofile, local, ff, ip, cwd, state, fd, child, pipe, iref, panicked>>
  BY DEF exit, At, Goto
<1> QED
  BY <1>1, StayStep

-----------------------------------------------------------------------------
(* fork() and the end of exit(), which change the state of a slot.         *)

\* Frames, when p moves between places where its call owns nothing.
Bare == {"idle", "fork", "exit"}
LEMMA FramesKept ==
  ASSUME ProcInv, LocalKept, UNCHANGED <<local, ip>>, NEW p \in Proc, pc[p] \in Bare, pc'[p] \in Bare,
         \A x \in Proc : x # p => pc'[x] = pc[x]
  PROVE  \A x \in Proc : Frame(x)'
<1> SUFFICES ASSUME NEW x \in Proc PROVE Frame(x)'
  OBVIOUS
<1>1. Frame(x)
  BY DEF ProcInv
<1>2. CASE x = p
  <2>1. ip[p] = Nil /\ \A k \in Local : local[p][k] = 0
    BY <1>1, <1>2 DEF Frame, Bare
  <2> QED
    BY <1>2, <2>1 DEF Frame, Bare
<1>3. CASE x # p
  <2>1. pc'[x] = pc[x] /\ \A k \in Local : local[x][k] # 0 => file'[local[x][k]].type = file[local[x][k]].type
    BY <1>3 DEF LocalKept
  <2> QED
    BY <1>1, <2>1 DEF Frame
<1> QED
  BY <1>2, <1>3

\* What p's fork() has copied so far, and the process it copies to.
Copying(p) == /\ child[p] \in Proc /\ state[child[p]] = "EMBRYO"
              /\ \A d \in Fd : fd[p] <= d => ofile[child[p]][d] = 0
Vacant(p) == /\ state[p] # "RUNNING" => pc[p] = "idle" /\ cwd[p] = Nil
             /\ state[p] = "UNUSED" => \A d \in Fd : ofile[p][d] = 0

LEMMA SlotParts ==
  ASSUME NEW p
  PROVE  /\ Slot(p) <=> Vacant(p) /\ (pc[p] = "fork" => Copying(p))
         /\ Slot(p)' <=> Vacant(p)' /\ (pc'[p] = "fork" => Copying(p)')
BY DEF Slot, Vacant, Copying

LEMMA SlotOf ==
  ASSUME ProcInv, NEW p \in Proc
  PROVE  Vacant(p) /\ (pc[p] = "fork" => Copying(p))
BY SlotParts DEF ProcInv

LEMMA ForkAction ==
  ASSUME IInv, NEW p \in Proc, fork(p)
  PROVE  IInv'
<1>1. PICK np \in Proc : /\ state[np] = "UNUSED" /\ state' = [state EXCEPT ![np] = "EMBRYO"]
                         /\ child' = [child EXCEPT ![p] = np]
  BY DEF fork
<1>2. /\ UNCHANGED <<file, ofile, local, ff, ip, cwd, pipe, iref, panicked>>
      /\ pc' = [pc EXCEPT ![p] = "fork"] /\ fd' = [fd EXCEPT ![p] = 0]
      /\ pc[p] = "idle" /\ state[p] = "RUNNING" /\ ~panicked
  BY DEF fork, At, Goto
<1>3. ProcInv /\ ProcType /\ PtrInv /\ Children
  BY DEF IInv, ProcInv
<1>4. PtrInv' /\ TotKept /\ LocalKept
  BY <1>2, <1>3, TableKept
<1>5. InodeInv' /\ PipeInv'
  BY <1>2, <1>4, ObjectsKept DEF IInv
<1>6. /\ pc' \in [Proc -> Place] /\ pc'[p] = "fork" /\ \A x \in Proc : x # p => pc'[x] = pc[x]
  BY <1>2, <1>3 DEF ProcType, Place
<1>7. /\ child' \in [Proc -> Proc \cup {Nil}] /\ child'[p] = np /\ \A x \in Proc : x # p => child'[x] = child[x]
  BY <1>1, <1>3 DEF ProcType
<1>8. /\ fd' \in [Proc -> 0 .. NOFILE] /\ fd'[p] = 0 /\ \A x \in Proc : x # p => fd'[x] = fd[x]
  <2>1. 0 \in 0 .. NOFILE
    BY SMTT(60), TableConstants
  <2> QED
    BY <1>2, <1>3, <2>1 DEF ProcType
<1>9. /\ state' \in [Proc -> {"UNUSED", "EMBRYO", "RUNNING"}] /\ state'[np] = "EMBRYO"
      /\ \A x \in Proc : x # np => state'[x] = state[x]
  BY <1>1, <1>3 DEF ProcType
<1>10. ProcType'
  BY <1>2, <1>3, <1>6, <1>7, <1>8, <1>9 DEF ProcType
<1>11. \A x \in Proc : Frame(x)'
  BY <1>2, <1>3, <1>4, <1>6, FramesKept DEF Bare
<1>12. Vacant(np) /\ np # p
  BY <1>1, <1>2, <1>3, SlotOf
<1>13. ASSUME NEW x \in Proc PROVE Slot(x)'
  <2>1. Vacant(x) /\ (pc[x] = "fork" => Copying(x))
    BY <1>3, SlotOf
  <2>2. Vacant(x)'
    <3>1. CASE x = np
      <4>1. pc'[x] = "idle" /\ cwd'[x] = Nil /\ state'[x] = "EMBRYO"
        BY <1>1, <1>2, <1>6, <1>9, <1>12, <3>1 DEF Vacant
      <4> QED
        BY <4>1 DEF Vacant
    <3>2. CASE x = p
      <4>1. state'[x] = "RUNNING"
        BY <1>2, <1>9, <1>12, <3>2
      <4> QED
        BY <4>1 DEF Vacant
    <3>3. CASE x # np /\ x # p
      <4>1. state'[x] = state[x] /\ pc'[x] = pc[x] /\ cwd' = cwd /\ ofile' = ofile
        BY <1>2, <1>6, <1>9, <3>3
      <4> QED
        BY <2>1, <4>1 DEF Vacant
    <3> QED
      BY <3>1, <3>2, <3>3
  <2>3. ASSUME pc'[x] = "fork" PROVE Copying(x)'
    <3>1. CASE x = p
      <4>1. \A d \in Fd : ofile'[np][d] = 0
        BY <1>1, <1>2, <1>12 DEF Vacant
      <4> QED
        BY <1>7, <1>9, <3>1, <4>1 DEF Copying
    <3>2. CASE x # p
      <4>1. Copying(x) /\ child'[x] = child[x] /\ fd'[x] = fd[x] /\ ofile' = ofile
        BY <1>2, <1>6, <1>7, <1>8, <2>1, <2>3, <3>2
      <4>2. child[x] # np
        BY <1>1, <4>1 DEF Copying
      <4>3. state'[child[x]] = "EMBRYO"
        BY <1>9, <4>1, <4>2 DEF Copying
      <4> QED
        BY <4>1, <4>3 DEF Copying
    <3> QED
      BY <3>1, <3>2
  <2> QED
    BY <2>2, <2>3, SlotParts
<1>14. Children'
  <2> SUFFICES ASSUME NEW x \in Proc, NEW y \in Proc, pc'[x] = "fork", pc'[y] = "fork", child'[x] = child'[y]
               PROVE  x = y
    BY DEF Children
  <2>1. ASSUME NEW z \in Proc, z # p, pc'[z] = "fork" PROVE child'[z] = child[z] /\ child[z] # np /\ pc[z] = "fork"
    <3>1. pc[z] = "fork" /\ child'[z] = child[z]
      BY <1>6, <1>7, <2>1
    <3>2. Copying(z)
      BY <1>3, <3>1, SlotOf
    <3> QED
      BY <1>1, <3>1, <3>2 DEF Copying
  <2>2. CASE x = p /\ y # p
    BY <1>7, <2>1, <2>2
  <2>3. CASE x # p /\ y = p
    BY <1>7, <2>1, <2>3
  <2>4. CASE x # p /\ y # p
    BY <1>3, <2>1, <2>4 DEF Children
  <2> QED
    BY <2>2, <2>3, <2>4
<1>15. ProcInv'
  BY <1>10, <1>11, <1>13, <1>14 DEF ProcInv
<1> QED
  BY <1>4, <1>5, <1>15 DEF IInv

\* A turn of fork()'s loop, for a descriptor that is closed or has been copied.
LEMMA TurnStep ==
  ASSUME IInv, NEW p \in Proc, At(p, "fork"), fd[p] < NOFILE, PtrInv', TotKept, LocalKept,
         \A x \in Proc : x # child[p] => ofile'[x] = ofile[x],
         \A d \in Fd : d # fd[p] => ofile'[child[p]][d] = ofile[child[p]][d],
         fd' = [fd EXCEPT ![p] = @ + 1], UNCHANGED <<local, ip, cwd, state, pc, child, pipe, iref>>
  PROVE  IInv'
<1>1. ProcInv /\ ProcType /\ Children /\ pc[p] = "fork" /\ state[p] = "RUNNING"
  BY DEF IInv, ProcInv, At
<1>2. InodeInv' /\ PipeInv'
  BY ObjectsKept DEF IInv
<1>3. Copying(p)
  BY <1>1, SlotOf
<1>4. fd[p] \in 0 .. NOFILE /\ fd[p] + 1 \in 0 .. NOFILE /\ \A d \in Fd : fd[p] + 1 <= d => fd[p] <= d /\ d # fd[p]
  <2>1. PICK n \in 0 .. NOFILE : n = fd[p]
    BY <1>1 DEF ProcType
  <2>2. n + 1 \in 0 .. NOFILE /\ \A d \in Fd : n + 1 <= d => n <= d /\ d # n
    BY SMTT(60), <2>1, TableConstants DEF Fd
  <2> QED
    BY <2>1, <2>2
<1>5. fd' \in [Proc -> 0 .. NOFILE] /\ fd'[p] = fd[p] + 1 /\ \A x \in Proc : x # p => fd'[x] = fd[x]
  BY <1>1, <1>4 DEF ProcType
<1>6. ProcType'
  BY <1>1, <1>5 DEF ProcType
<1>7. \A x \in Proc : Frame(x)'
  BY <1>1, FramesKept DEF Bare
<1>8. ASSUME NEW x \in Proc PROVE Slot(x)'
  <2>1. Vacant(x) /\ (pc[x] = "fork" => Copying(x))
    BY <1>1, SlotOf
  <2>2. Vacant(x)'
    <3>1. state[x] = "UNUSED" => ofile'[x] = ofile[x]
      BY <1>3 DEF Copying
    <3> QED
      BY <2>1, <3>1 DEF Vacant
  <2>3. ASSUME pc'[x] = "fork" PROVE Copying(x)'
    <3>1. Copying(x) /\ child'[x] = child[x] /\ state' = state
      BY <2>1, <2>3
    <3>2. CASE x = p
      <4>1. \A d \in Fd : fd'[p] <= d => ofile'[child[p]][d] = 0
        BY <1>3, <1>4, <1>5 DEF Copying
      <4> QED
        BY <3>1, <3>2, <4>1 DEF Copying
    <3>3. CASE x # p
      <4>1. child[x] # child[p] /\ fd'[x] = fd[x]
        BY <1>1, <1>5, <2>3, <3>3 DEF Children
      <4>2. ofile'[child[x]] = ofile[child[x]]
        BY <3>1, <4>1 DEF Copying
      <4> QED
        BY <3>1, <4>1, <4>2 DEF Copying
    <3> QED
      BY <3>2, <3>3
  <2> QED
    BY <2>2, <2>3, SlotParts
<1>9. Children'
  BY <1>1 DEF Children
<1>10. ProcInv'
  BY <1>6, <1>7, <1>8, <1>9 DEF ProcInv
<1> QED
  BY <1>2, <1>10 DEF IInv

LEMMA ForkDupAction ==
  ASSUME Counting, IInv, NEW p \in Proc, fork_dup(p)
  PROVE  IInv'
<1>1. /\ At(p, "fork") /\ fd[p] < NOFILE /\ fd' = [fd EXCEPT ![p] = @ + 1] /\ ~panicked /\ pc[p] = "fork"
      /\ UNCHANGED <<local, ff, ip, cwd, state, pc, child, pipe, iref>>
  BY DEF fork_dup, At
<1>2. ProcInv /\ ProcType /\ PtrInv /\ PtrType
  BY DEF IInv, ProcInv, PtrInv
<1>3. Copying(p) /\ child[p] \in Proc
  BY <1>1, <1>2, SlotOf DEF Copying
<1>4. CASE UNCHANGED <<file, ofile, panicked>>
  <2>1. PtrInv' /\ TotKept /\ LocalKept
    BY <1>1, <1>2, <1>4, TableKept
  <2>2. \A x \in Proc : ofile'[x] = ofile[x]
    BY <1>4
  <2> QED
    BY <1>1, <1>3, <2>1, <2>2, TurnStep
<1>5. CASE /\ ofile[p][fd[p]] # 0 /\ filedup(ofile[p][fd[p]])
           /\ ofile' = [ofile EXCEPT ![child[p]][fd[p]] = ofile[p][fd[p]]]
  <2>1. PICK d \in Fd : d = fd[p] /\ fd[p] <= d
    <3>1. PICK n \in 0 .. NOFILE : n = fd[p]
      BY <1>2 DEF ProcType
    <3>2. n \in Fd /\ n <= n
      BY SMTT(60), <1>1, <3>1, TableConstants DEF Fd
    <3> QED
      BY <3>1, <3>2
  <2>2. PICK f : f = ofile[p][d]
    OBVIOUS
  <2>3. f \in File /\ Shared(f) /\ filedup(f)
    BY <1>2, <1>5, <2>1, <2>2, FdShared
  <2>4. PICK c \in Proc : c = child[p] /\ ofile[c][d] = 0
    BY <1>3, <2>1 DEF Copying
  <2>5. Puts(ofile, ofile', c, d, f)
    BY <1>5, <2>1, <2>2, <2>4 DEF Puts
  <2>6. PtrInv' /\ TotKept /\ LocalKept
    BY <1>1, <1>2, <2>3, <2>4, <2>5, DupStep
  <2>7. \A x \in Proc : x # c => ofile'[x] = ofile[x]
    BY <1>2, <2>5, PutsOwn DEF PtrType
  <2>8. \A e \in Fd : e # d => ofile'[c][e] = ofile[c][e]
    BY <1>2, <2>5 DEF PtrType, Puts
  <2> QED
    BY <1>1, <2>1, <2>4, <2>6, <2>7, <2>8, TurnStep
<1> QED
  BY <1>4, <1>5 DEF fork_dup

\* The reference to a current directory that a process takes, or gives up.
LEMMA DirTaken ==
  ASSUME Counting, InodeInv, ProcType, TotKept, UNCHANGED <<ip>>, NEW c \in Proc, cwd[c] = Nil, NEW i,
         cwd' = [cwd EXCEPT ![c] = i], iref' = [iref EXCEPT ![i] = @ + 1]
  PROVE  InodeInv' /\ iref' \in [Inode -> Int]
<1>1. iref' \in [Inode -> Int]
  <2>1. i \in Inode => iref[i] + 1 \in Int
    BY SMTT(60) DEF ProcType
  <2> QED
    BY <2>1 DEF ProcType
<1>2. InodeInv'
  <2> SUFFICES ASSUME NEW j \in Inode
               PROVE  iref'[j] = Tot(file', ff', "FD_INODE", j, "r") + Having(cwd', j) + Having(ip', j)
    BY DEF InodeInv
  <2>1. PICK a \in Nat, b \in Nat, d \in Nat :
          a = Tot(file, ff, "FD_INODE", j, "r") /\ b = Having(cwd, j) /\ d = Having(ip, j)
    BY TotNat, HavingNat
  <2>2. iref[j] = (a + b) + d
    BY <2>1 DEF InodeInv
  <2>3. Tot(file', ff', "FD_INODE", j, "r") = a /\ Having(ip', j) = d
    BY <2>1 DEF TotKept, Object
  <2>4. Having(cwd', j) = IF j = i THEN b + 1 ELSE b
    <3>1. Put(cwd, cwd', c, i) /\ cwd \in [Proc -> Inode \cup {Nil}]
      BY DEF Put, ProcType
    <3>2. Took(cwd, cwd', i)
      BY <3>1, TakeInode
    <3> QED
      BY <2>1, <3>2 DEF Took
  <2>5. iref'[j] = IF j = i THEN ((a + b) + d) + 1 ELSE (a + b) + d
    BY <2>2 DEF ProcType
  <2> QED
    BY SMTT(60), <2>3, <2>4, <2>5, Sums
<1> QED
  BY <1>1, <1>2

LEMMA DirGiven ==
  ASSUME Counting, InodeInv, ProcType, TotKept, UNCHANGED <<ip>>, NEW p \in Proc,
         cwd' = [cwd EXCEPT ![p] = Nil], iref' = [iref EXCEPT ![cwd[p]] = @ - 1]
  PROVE  InodeInv' /\ iref' \in [Inode -> Int]
<1>1. iref' \in [Inode -> Int]
  <2>1. cwd[p] \in Inode => iref[cwd[p]] - 1 \in Int
    BY SMTT(60) DEF ProcType
  <2> QED
    BY <2>1 DEF ProcType
<1>2. InodeInv'
  <2> SUFFICES ASSUME NEW j \in Inode
               PROVE  iref'[j] = Tot(file', ff', "FD_INODE", j, "r") + Having(cwd', j) + Having(ip', j)
    BY DEF InodeInv
  <2>1. PICK a \in Nat, b \in Nat, d \in Nat :
          a = Tot(file, ff, "FD_INODE", j, "r") /\ b = Having(cwd', j) /\ d = Having(ip, j)
    BY TotNat, HavingNat
  <2>2. iref[j] = (a + Having(cwd, j)) + d
    BY <2>1 DEF InodeInv
  <2>3. Tot(file', ff', "FD_INODE", j, "r") = a /\ Having(ip', j) = d
    BY <2>1 DEF TotKept, Object
  <2>4. Having(cwd, j) = IF j = cwd[p] THEN b + 1 ELSE b
    <3>1. Put(cwd, cwd', p, Nil) /\ cwd \in [Proc -> Inode \cup {Nil}]
      BY DEF Put, ProcType
    <3>2. Took(cwd', cwd, cwd[p])
      BY <3>1, GiveInode
    <3> QED
      BY <2>1, <3>2 DEF Took
  <2>5. iref'[j] = IF j = cwd[p] THEN iref[j] - 1 ELSE iref[j]
    BY DEF ProcType
  <2> QED
    BY SMTT(60), <2>1, <2>2, <2>3, <2>4, <2>5, Sums
<1> QED
  BY <1>1, <1>2

LEMMA ForkRunAction ==
  ASSUME Counting, IInv, NEW p \in Proc, fork_run(p)
  PROVE  IInv'
<1>1. /\ UNCHANGED <<file, ofile, local, ff, ip, pipe, panicked>>
      /\ pc' = [pc EXCEPT ![p] = "idle"] /\ fd' = [fd EXCEPT ![p] = 0] /\ child' = [child EXCEPT ![p] = Nil]
      /\ iref' = [iref EXCEPT ![cwd[p]] = @ + 1] /\ cwd' = [cwd EXCEPT ![child[p]] = cwd[p]]
      /\ state' = [state EXCEPT ![child[p]] = "RUNNING"]
      /\ pc[p] = "fork" /\ state[p] = "RUNNING" /\ ~panicked
  BY DEF fork_run, At, Goto
<1>2. ProcInv /\ ProcType /\ PtrInv /\ Children
  BY DEF IInv, ProcInv
<1>3. PICK c \in Proc : c = child[p] /\ state[c] = "EMBRYO"
  BY <1>1, <1>2, SlotOf DEF Copying
<1>4. c # p /\ pc[c] = "idle" /\ cwd[c] = Nil
  BY <1>1, <1>2, <1>3, SlotOf DEF Vacant
<1>5. PtrInv' /\ TotKept /\ LocalKept
  BY <1>1, <1>2, TableKept
<1>6. InodeInv' /\ iref' \in [Inode -> Int]
  <2>1. PICK i \in Inode \cup {Nil} : i = cwd[p]
    BY <1>2 DEF ProcType
  <2>2. cwd' = [cwd EXCEPT ![c] = i] /\ iref' = [iref EXCEPT ![i] = @ + 1] /\ UNCHANGED ip
    BY <1>1, <1>3, <2>1
  <2> QED
    BY <1>2, <1>4, <1>5, <2>2, DirTaken DEF IInv
<1>7. PipeInv'
  BY <1>1, <1>5, PipesKept DEF IInv
<1>8. /\ pc' \in [Proc -> Place] /\ pc'[p] = "idle" /\ \A x \in Proc : x # p => pc'[x] = pc[x]
  BY <1>1, <1>2, PlaceNames DEF ProcType
<1>9. /\ child' \in [Proc -> Proc \cup {Nil}] /\ \A x \in Proc : x # p => child'[x] = child[x]
  BY <1>1, <1>2 DEF ProcType
<1>10. /\ fd' \in [Proc -> 0 .. NOFILE] /\ \A x \in Proc : x # p => fd'[x] = fd[x]
  <2>1. 0 \in 0 .. NOFILE
    BY SMTT(60), TableConstants
  <2> QED
    BY <1>1, <1>2, <2>1 DEF ProcType
<1>11. /\ state' \in [Proc -> {"UNUSED", "EMBRYO", "RUNNING"}] /\ state'[c] = "RUNNING"
       /\ \A x \in Proc : x # c => state'[x] = state[x]
  BY <1>1, <1>2, <1>3 DEF ProcType
<1>12. cwd' \in [Proc -> Inode \cup {Nil}] /\ \A x \in Proc : x # c => cwd'[x] = cwd[x]
  BY <1>1, <1>2, <1>3 DEF ProcType
<1>13. ProcType'
  BY <1>1, <1>2, <1>6, <1>8, <1>9, <1>10, <1>11, <1>12 DEF ProcType
<1>14. \A x \in Proc : Frame(x)'
  BY <1>1, <1>2, <1>5, <1>8, FramesKept DEF Bare
<1>15. ASSUME NEW x \in Proc PROVE Slot(x)'
  <2>1. Vacant(x) /\ (pc[x] = "fork" => Copying(x))
    BY <1>2, SlotOf
  <2>2. Vacant(x)'
    <3>1. CASE x = c \/ x = p
      <4>1. state'[x] = "RUNNING"
        BY <1>1, <1>4, <1>11, <3>1
      <4> QED
        BY <4>1 DEF Vacant
    <3>2. CASE x # c /\ x # p
      <4>1. state'[x] = state[x] /\ pc'[x] = pc[x] /\ cwd'[x] = cwd[x] /\ ofile' = ofile
        BY <1>1, <1>8, <1>11, <1>12, <3>2
      <4> QED
        BY <2>1, <4>1 DEF Vacant
    <3> QED
      BY <3>1, <3>2
  <2>3. ASSUME pc'[x] = "fork" PROVE Copying(x)'
    <3>1. x # p /\ pc[x] = "fork"
      BY <1>8, <2>3
    <3>2. Copying(x) /\ child'[x] = child[x] /\ fd'[x] = fd[x] /\ ofile' = ofile
      BY <1>1, <1>9, <1>10, <2>1, <3>1
    <3>3. child[x] # c
      BY <1>1, <1>2, <1>3, <3>1 DEF Children
    <3>4. state'[child[x]] = "EMBRYO"
      BY <1>11, <3>2, <3>3 DEF Copying
    <3> QED
      BY <3>2, <3>4 DEF Copying
  <2> QED
    BY <2>2, <2>3, SlotParts
<1>16. Children'
  <2>1. \A x \in Proc : pc'[x] = "fork" => x # p /\ pc[x] = "fork" /\ child'[x] = child[x]
    BY <1>8, <1>9
  <2> QED
    BY <1>2, <2>1 DEF Children
<1>17. ProcInv'
  BY <1>13, <1>14, <1>15, <1>16 DEF ProcInv
<1> QED
  BY <1>5, <1>6, <1>7, <1>17 DEF IInv

LEMMA ExitDoneAction ==
  ASSUME Counting, IInv, NEW p \in Proc, exit_done(p)
  PROVE  IInv'
<1>1. /\ UNCHANGED <<file, ofile, local, ff, ip, fd, child, pipe, panicked>>
      /\ pc' = [pc EXCEPT ![p] = "idle"] /\ state' = [state EXCEPT ![p] = "UNUSED"]
      /\ iref' = [iref EXCEPT ![cwd[p]] = @ - 1] /\ cwd' = [cwd EXCEPT ![p] = Nil]
      /\ pc[p] = "exit" /\ state[p] = "RUNNING" /\ ~panicked /\ \A d \in Fd : ofile[p][d] = 0
  BY DEF exit_done, At, Goto
<1>2. ProcInv /\ ProcType /\ PtrInv /\ Children
  BY DEF IInv, ProcInv
<1>3. PtrInv' /\ TotKept /\ LocalKept
  BY <1>1, <1>2, TableKept
<1>4. InodeInv' /\ iref' \in [Inode -> Int]
  BY <1>1, <1>2, <1>3, DirGiven DEF IInv
<1>5. PipeInv'
  BY <1>1, <1>3, PipesKept DEF IInv
<1>6. /\ pc' \in [Proc -> Place] /\ pc'[p] = "idle" /\ \A x \in Proc : x # p => pc'[x] = pc[x]
  BY <1>1, <1>2, PlaceNames DEF ProcType
<1>7. /\ state' \in [Proc -> {"UNUSED", "EMBRYO", "RUNNING"}] /\ \A x \in Proc : x # p => state'[x] = state[x]
  BY <1>1, <1>2 DEF ProcType
<1>8. /\ cwd' \in [Proc -> Inode \cup {Nil}] /\ cwd'[p] = Nil /\ \A x \in Proc : x # p => cwd'[x] = cwd[x]
  BY <1>1, <1>2 DEF ProcType
<1>9. ProcType'
  BY <1>1, <1>2, <1>4, <1>6, <1>7, <1>8 DEF ProcType
<1>10. \A x \in Proc : Frame(x)'
  BY <1>1, <1>2, <1>3, <1>6, FramesKept DEF Bare
<1>11. ASSUME NEW x \in Proc PROVE Slot(x)'
  <2>1. Vacant(x) /\ (pc[x] = "fork" => Copying(x))
    BY <1>2, SlotOf
  <2>2. Vacant(x)'
    <3>1. CASE x = p
      <4>1. pc'[x] = "idle" /\ cwd'[x] = Nil /\ \A d \in Fd : ofile'[x][d] = 0
        BY <1>1, <1>6, <1>8, <3>1
      <4> QED
        BY <4>1 DEF Vacant
    <3>2. CASE x # p
      <4>1. state'[x] = state[x] /\ pc'[x] = pc[x] /\ cwd'[x] = cwd[x] /\ ofile' = ofile
        BY <1>1, <1>6, <1>7, <1>8, <3>2
      <4> QED
        BY <2>1, <4>1 DEF Vacant
    <3> QED
      BY <3>1, <3>2
  <2>3. ASSUME pc'[x] = "fork" PROVE Copying(x)'
    <3>1. Copying(x) /\ child' = child /\ fd' = fd /\ ofile' = ofile
      BY <1>1, <1>6, <2>1, <2>3
    <3>2. child[x] # p
      BY <1>1, <3>1 DEF Copying
    <3>3. state'[child[x]] = "EMBRYO"
      BY <1>7, <3>1, <3>2 DEF Copying
    <3> QED
      BY <3>1, <3>3 DEF Copying
  <2> QED
    BY <2>2, <2>3, SlotParts
<1>12. Children'
  <2>1. \A x \in Proc : pc'[x] = "fork" => pc[x] = "fork" /\ child'[x] = child[x]
    BY <1>1, <1>6
  <2> QED
    BY <1>2, <2>1 DEF Children
<1>13. ProcInv'
  BY <1>9, <1>10, <1>11, <1>12 DEF ProcInv
<1> QED
  BY <1>3, <1>4, <1>5, <1>13 DEF IInv

-----------------------------------------------------------------------------
(* Every step, and the theorems.                                           *)

LEMMA StepIInv ==
  ASSUME Counting, IInv, NEW p \in Proc, ProcStep(p)
  PROVE  IInv'
<1>1. CASE sys_dup(p)
  BY <1>1, DupAction
<1>2. CASE sys_close(p)
  <2>1. PICK d \in Fd : argfd(p, d) /\ ofile' = [ofile EXCEPT ![p][d] = 0] /\ fileclose(p, ofile[p][d])
    BY <1>2 DEF sys_close
  <2>2. At(p, "idle") /\ ofile[p][d] # 0 /\ UNCHANGED <<local, ip, cwd, state, pc, fd, child, pipe, iref>>
    BY <1>2, <2>1 DEF sys_close, argfd
  <2> QED
    BY <2>1, <2>2, CloseAction
<1>3. CASE close_object(p)
  BY <1>3, CloseObjectAction
<1>4. CASE sys_open(p)
  BY <1>4, SysOpenAction
<1>5. CASE open_file(p)
  BY <1>5, OpenFileAction
<1>6. CASE sys_pipe(p)
  BY <1>6, SysPipeAction
<1>7. CASE pipe_second(p)
  BY <1>7, PipeSecondAction
<1>8. CASE pipe_page(p)
  BY <1>8, PipePageAction
<1>9. CASE drop_file(p)
  BY <1>9, DropAction
<1>10. CASE drop_inode(p)
  BY <1>10, DropInodeAction
<1>11. CASE sys_rw(p)
  BY <1>11, SysRwAction
<1>12. CASE fork(p)
  BY <1>12, ForkAction
<1>13. CASE fork_dup(p)
  BY <1>13, ForkDupAction
<1>14. CASE fork_run(p)
  BY <1>14, ForkRunAction
<1>15. CASE exit(p)
  BY <1>15, ExitAction
<1>16. CASE exit_close(p)
  <2>1. PICK d \in Fd : ofile[p][d] # 0 /\ ofile' = [ofile EXCEPT ![p][d] = 0] /\ fileclose(p, ofile[p][d])
    BY <1>16 DEF exit_close
  <2>2. At(p, "exit") /\ UNCHANGED <<local, ip, cwd, state, pc, fd, child, pipe, iref>>
    BY <1>16 DEF exit_close
  <2> QED
    BY <2>1, <2>2, CloseAction
<1>17. CASE exit_done(p)
  BY <1>17, ExitDoneAction
<1> QED
  BY <1>1, <1>2, <1>3, <1>4, <1>5, <1>6, <1>7, <1>8, <1>9, <1>10, <1>11, <1>12, <1>13, <1>14, <1>15, <1>16,
     <1>17 DEF ProcStep

LEMMA StutterIInv ==
  ASSUME IInv, UNCHANGED vars
  PROVE  IInv'
<1>1. UNCHANGED <<file, ofile, local, ff, ip, cwd, state, pc, fd, child, pipe, iref, panicked>>
  BY DEF vars
<1>2. PtrInv' /\ TotKept /\ LocalKept
  BY <1>1, TableKept DEF IInv, PtrInv
<1>3. InodeInv' /\ PipeInv'
  BY <1>1, <1>2, ObjectsKept DEF IInv
<1>4. ProcInv'
  <2>1. ProcInv /\ pipe' \in [Pipe -> SUBSET {"r", "w"}] /\ iref' \in [Inode -> Int]
    BY <1>1 DEF IInv, ProcInv, ProcType
  <2> QED
    BY <1>1, <2>1, ProcKept
<1> QED
  BY <1>2, <1>3, <1>4 DEF IInv

LEMMA InitPtr ==
  ASSUME Counting, Init
  PROVE  PtrInv
<1>1. Empty \in Entry /\ Empty.ref = 0 /\ Empty.type = "FD_NONE" /\ \A f \in File : f # 0
  BY SMTT(60) DEF Empty, Entry, Type, File
<1>2. /\ \A f \in File : file[f] = Empty
      /\ \A p \in Proc, d \in Fd : ofile[p][d] = 0
      /\ \A p \in Proc, k \in Local : local[p][k] = 0
  BY DEF Init
<1>3. PtrType
  <2>1. file \in [File -> Entry] /\ ff \in [Proc -> Entry]
    BY <1>1 DEF Init
  <2>2. ofile \in [Proc -> [Fd -> File \cup {0}]]
    BY DEF Init
  <2>3. local \in [Proc -> [Local -> File \cup {0}]]
    BY DEF Init
  <2> QED
    BY <2>1, <2>2, <2>3 DEF PtrType
<1>4. FileRefs
  <2> SUFFICES ASSUME NEW f \in File
               PROVE  file[f].ref = Cardinality(Holders(f)) + Cardinality(FrameHolders(f))
    BY DEF FileRefs
  <2>1. Holders(f) = {} /\ FrameHolders(f) = {}
    <3>1. \A x \in Proc \X Fd : x[1] \in Proc /\ x[2] \in Fd
      OBVIOUS
    <3>2. \A x \in Proc \X Local : x[1] \in Proc /\ x[2] \in Local
      OBVIOUS
    <3> QED
      BY <1>1, <1>2, <3>1, <3>2 DEF Holders, FrameHolders
  <2>2. Cardinality(Holders(f)) = 0 /\ Cardinality(FrameHolders(f)) = 0 /\ file[f].ref = 0
    BY <1>1, <1>2, <2>1, SmallCount
  <2>3. 0 + 0 = 0
    BY SMTT(60)
  <2> QED
    BY <2>2, <2>3
<1>5. Sole
  BY <1>2 DEF Sole
<1>6. Typed /\ FreeNone
  BY <1>1, <1>2 DEF Typed, FreeNone
<1>7. ~panicked
  BY DEF Init
<1> QED
  BY <1>3, <1>4, <1>5, <1>6, <1>7 DEF PtrInv

LEMMA InitProc ==
  ASSUME Init
  PROVE  ProcInv
<1>1. ProcType
  <2>1. 0 \in 0 .. NOFILE
    BY SMTT(60), TableConstants
  <2>2. fd \in [Proc -> 0 .. NOFILE] /\ child \in [Proc -> Proc \cup {Nil}] /\ pipe \in [Pipe -> SUBSET {"r", "w"}]
    BY <2>1 DEF Init
  <2>3. iref \in [Inode -> Int]
    BY SMTT(60) DEF Init
  <2>4. ip \in [Proc -> Inode \cup {Nil}] /\ cwd \in [Proc -> Inode \cup {Nil}]
    BY TableConstants DEF Init
  <2>5. state \in [Proc -> {"UNUSED", "EMBRYO", "RUNNING"}] /\ pc \in [Proc -> Place]
    BY PlaceNames DEF Init
  <2> QED
    BY <2>2, <2>3, <2>4, <2>5 DEF ProcType
<1>2. ASSUME NEW p \in Proc PROVE Frame(p)
  <2>1. ip[p] = Nil /\ pc[p] = "idle" /\ \A k \in Local : local[p][k] = 0
    BY DEF Init
  <2> QED
    BY <2>1 DEF Frame
<1>3. ASSUME NEW p \in Proc PROVE Slot(p)
  <2>1. pc[p] = "idle" /\ (\A d \in Fd : ofile[p][d] = 0) /\ (state[p] # "RUNNING" => cwd[p] = Nil)
    BY DEF Init
  <2> QED
    BY <2>1 DEF Slot
<1>4. Children
  <2>1. \A p \in Proc : pc[p] # "fork"
    BY DEF Init
  <2> QED
    BY <2>1 DEF Children
<1> QED
  BY <1>1, <1>2, <1>3, <1>4 DEF ProcInv

LEMMA InitObjects ==
  ASSUME Counting, Init
  PROVE  InodeInv /\ PipeInv
<1>1. Empty.ref = 0 /\ Empty.type = "FD_NONE" /\ ~(0 > 0) /\ 0 + 0 = 0 /\ (0 + 1) + 0 = 1
  BY SMTT(60) DEF Empty
<1>2. ASSUME NEW t \in Object, NEW o, NEW s PROVE Tot(file, ff, t, o, s) = 0
  <2>1. Live(file, t, o, s) = {}
    <3>1. \A f \in File : file[f].ref = 0
      BY <1>1 DEF Init
    <3> QED
      BY <1>1, <3>1 DEF Live
  <2>2. Late(ff, t, o, s) = {}
    <3>1. t # "FD_NONE" /\ \A p \in Proc : ff[p].type = "FD_NONE"
      BY <1>1 DEF Init, Object
    <3> QED
      BY <3>1 DEF Late, Names
  <2> QED
    BY <1>1, <2>1, <2>2, SmallCount DEF Tot
<1>3. "FD_INODE" \in Object /\ "FD_PIPE" \in Object
  BY DEF Object
<1>4. ASSUME NEW i \in Inode
      PROVE  iref[i] = Tot(file, ff, "FD_INODE", i, "r") + Having(cwd, i) + Having(ip, i)
  <2>1. i # Nil
    BY TableConstants
  <2>2. {p \in Proc : ip[p] = i} = {}
    BY <2>1 DEF Init
  <2>3. Having(ip, i) = 0
    BY <2>2, SmallCount DEF Having
  <2>4. CASE i = Root
    <3>1. {p \in Proc : cwd[p] = i} = {First}
      BY <2>1, <2>4, TableConstants DEF Init
    <3>2. Having(cwd, i) = 1 /\ iref[i] = 1
      BY <2>4, <3>1, SmallCount DEF Having, Init
    <3> QED
      BY <1>1, <1>2, <1>3, <2>3, <3>2
  <2>5. CASE i # Root
    <3>1. {p \in Proc : cwd[p] = i} = {}
      BY <2>1, <2>5 DEF Init
    <3>2. Having(cwd, i) = 0 /\ iref[i] = 0
      BY <2>5, <3>1, SmallCount DEF Having, Init
    <3> QED
      BY <1>1, <1>2, <1>3, <2>3, <3>2
  <2> QED
    BY <2>4, <2>5
<1>5. PipeInv
  <2>1. \A q \in Pipe : pipe[q] = {}
    BY DEF Init
  <2> QED
    BY <1>2, <1>3, <2>1 DEF PipeInv
<1> QED
  BY <1>4, <1>5 DEF InodeInv

LEMMA Results ==
  ASSUME IInv
  PROVE  RefsExact /\ PipeEndsExact
<1>1. ~panicked /\ FileRefs
  BY DEF IInv, PtrInv
<1>2. InodeRefs
  <2>1. \A i : /\ Live(file, "FD_INODE", i, "r") = {f \in File : file[f].ref > 0 /\ file[f].type = "FD_INODE" /\ file[f].obj = i}
               /\ Late(ff, "FD_INODE", i, "r") = {p \in Proc : ff[p].type = "FD_INODE" /\ ff[p].obj = i}
    BY DEF Live, Late, Names
  <2> QED
    BY <2>1 DEF IInv, InodeInv, InodeRefs, Tot, Having
<1>3. PipeEndsExact
  <2>1. \A q, end : Live(file, "FD_PIPE", q, end) = Naming(q, end) /\ Late(ff, "FD_PIPE", q, end) = Closing(q, end)
    BY DEF Live, Late, Names, Naming, Closing
  <2> QED
    BY <2>1 DEF IInv, PipeInv, PipeEndsExact, Tot
<1> QED
  BY <1>1, <1>2, <1>3 DEF RefsExact

-----------------------------------------------------------------------------
(* The facts about finite sets.                                            *)

INSTANCE FiniteSetTheorems

LEMMA DifferHolds ==
  ASSUME NEW S, IsFiniteSet(S), NEW A \in SUBSET S, NEW B \in SUBSET S, NEW a \in S,
         \A x \in S : x # a => (x \in A <=> x \in B)
  PROVE  Apart(A, B, a)
<1>1. IsFiniteSet(A) /\ IsFiniteSet(B)
  BY FS_Subset
<1>2. Cardinality(A) \in Nat /\ Cardinality(B) \in Nat
  BY <1>1, FS_CardinalityType
<1>3. ASSUME a \in A <=> a \in B PROVE A = B
  BY SMTT(60), <1>3
<1>4. ASSUME a \notin A, a \in B PROVE Cardinality(B) = Cardinality(A) + 1
  <2>1. B = A \cup {a}
    BY <1>4
  <2> QED
    BY <1>1, <1>4, <2>1, FS_AddElement
<1>5. ASSUME a \in A, a \notin B PROVE Cardinality(A) = Cardinality(B) + 1
  <2>1. A = B \cup {a}
    BY <1>5
  <2> QED
    BY <1>1, <1>5, <2>1, FS_AddElement
<1> QED
  BY <1>2, <1>3, <1>4, <1>5 DEF Apart

LEMMA CountingHolds == Counting
<1>1. NOFILE - 1 \in Int /\ NFILE \in Int /\ 0 \in Int /\ 1 \in Int
  BY SMTT(60), TableConstants
<1>2. IsFiniteSet(Fd) /\ IsFiniteSet(File)
  BY <1>1, FS_Interval DEF Fd, File
<1>3. IsFiniteSet(Local)
  <2>1. IsFiniteSet({1}) /\ {1} \cup {2} = Local
    BY FS_Singleton DEF Local
  <2> QED
    BY <2>1, FS_AddElement
<1>4. IsFiniteSet(Proc)
  BY TableConstants
<1>5. IsFiniteSet(Proc \X Fd) /\ IsFiniteSet(Proc \X Local)
  BY <1>2, <1>3, <1>4, FS_Product
<1>6. \A S, A, B : \A a \in S : IsFiniteSet(S) /\ Near(S, A, B, a) => Apart(A, B, a)
  BY DifferHolds DEF Near
<1>7. ASSUME NEW S, IsFiniteSet(S), NEW A \in SUBSET S
      PROVE  Cardinality(A) \in Nat /\ (Cardinality(A) = 0 => A = {})
  <2>1. IsFiniteSet(A)
    BY <1>7, FS_Subset
  <2> QED
    BY <2>1, FS_CardinalityType, FS_EmptySet
<1>8. Cardinality({}) = 0 /\ \A x : Cardinality({x}) = 1
  BY FS_EmptySet, FS_Singleton
<1> QED
  BY <1>2, <1>3, <1>4, <1>5, <1>6, <1>7, <1>8 DEF Counting

-----------------------------------------------------------------------------
\* Every reachable state: the pointers of file.c, sysfile.c and proc.c own the
\* entries as IInv says, at each place where dup, close, open, pipe, fork and
\* exit may be.
THEOREM FileTableInvariant == Spec => []IInv
<1>1. Init => IInv
  BY CountingHolds, InitPtr, InitProc, InitObjects DEF IInv
<1>2. IInv /\ [Next]_vars => IInv'
  BY CountingHolds, StepIInv, StutterIInv DEF Next
<1> QED
  BY <1>1, <1>2, PTL DEF Spec

\* file.c:17-20: the "ref" of an entry counts exactly the pointers that own it,
\* and iref the owners of an inode; no panic of file.c is reached.
THEOREM FileTableRefsExact == Spec => []RefsExact
<1>1. IInv => RefsExact
  BY Results
<1> QED
  BY <1>1, FileTableInvariant, PTL

\* file.c:71-77: an end of a pipe is open exactly while one entry, or one copy
\* of an entry being closed, names it; so it is closed once.
THEOREM FileTablePipeEndsExact == Spec => []PipeEndsExact
<1>1. IInv => PipeEndsExact
  BY Results
<1> QED
  BY <1>1, FileTableInvariant, PTL
============================================================================
