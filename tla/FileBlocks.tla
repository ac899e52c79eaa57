----------------------------- MODULE FileBlocks -----------------------------
(***************************************************************************)
(* The block layer under read() and write(): the free-block bitmap, the    *)
(* direct and indirect block map, readi(), writei() and itrunc() of        *)
(* kernel/fs.c, filewrite()'s chunks (kernel/file.c), and the image that   *)
(* mkfs/mkfs.c leaves on the disk.                                         *)
(*                                                                         *)
(* An inode is locked during a chunk, a read or a truncation; the bitmap   *)
(* is shared, so a step of a chunk is one balloc() or one piece copied,    *)
(* and a step of a truncation frees one direct block, or the indirect      *)
(* block with those it lists.  A block is seen both as bytes and as the    *)
(* block numbers of an indirect block.  An entry of a directory is a byte. *)
(***************************************************************************)
EXTENDS Integers, Sequences, FiniteSets, FiniteSetsExt, SequencesExt

CONSTANTS Proc, Nil,
          File, FileOf,       \* open files and the inode each one is of
          BSIZE, NDIRECT, NINDIRECT,
          NBLOCK,             \* data blocks of the disk
          MAXOPBLOCKS,        \* blocks a transaction may write
          NINO,               \* inodes
          Programs,           \* lengths of the files mkfs puts in the image
          Lengths,            \* the n of read() and write()
          MAXCALLS            \* bound: calls made

Ino == 1 .. NINO              \* 1 is the root directory
Block == 1 .. NBLOCK
BITMAP == 0                   \* the blocks of the bitmap and of the inodes,
INODE == -1                   \* one of each
MAXFILE == NDIRECT + NINDIRECT
Byte == Proc \cup {"mkfs", "zero"}

\* main() of mkfs rounds the root's size up to the next block even when the
\* entries fill their last block exactly; the image must not be of that size.
ASSUME ImageConstants ==
  /\ (2 + Len(Programs)) % BSIZE # 0
  /\ 1 + Len(Programs) <= NINO
  /\ \A f \in File : FileOf[f] \in Ino

VARIABLES
  bitmap,       \* blocks marked in use
  addrs, size,  \* ip->addrs (NDIRECT is the indirect block), ip->size
  ptr, data,    \* the two views of a block
  lock,         \* holder of ip->lock
  off,          \* f->off
  st,           \* st[p]: where p is in its call, and the call's variables
  hold,         \* history: the contents of an inode when it was locked
  got,          \* got[p]: what the last read() of p returned
  logged,       \* logged[p]: blocks the transaction of p has written
  calls, panicked

image == <<bitmap, addrs, size, ptr, data>>
vars == <<image, lock, off, st, hold, got, logged, calls, panicked>>

Idle == [at |-> "idle", f |-> Nil, ip |-> 0, n |-> 0, i |-> 0, n1 |-> 0, tot |-> 0, ok |-> TRUE]
ZeroData == [j \in 0 .. BSIZE - 1 |-> "zero"]
ZeroPtr == [j \in 0 .. NINDIRECT - 1 |-> 0]

-----------------------------------------------------------------------------
(* mkfs *)

\* iappend() of one byte v to inode i of image m; m.free is freeblock.
Append1(m, i, v) ==
  LET fbn == m.size[i] \div BSIZE
      direct == fbn < NDIRECT
      needi == ~direct /\ m.addrs[i][NDIRECT] = 0
      ind == IF needi THEN m.free ELSE m.addrs[i][NDIRECT]
      old == IF direct THEN m.addrs[i][fbn] ELSE IF needi THEN 0 ELSE m.ptr[ind][fbn - NDIRECT]
      x == IF old # 0 THEN old ELSE IF needi THEN m.free + 1 ELSE m.free
  IN  [free |-> m.free + (IF needi THEN 1 ELSE 0) + (IF old = 0 THEN 1 ELSE 0),
       addrs |-> IF direct THEN [m.addrs EXCEPT ![i][fbn] = x] ELSE [m.addrs EXCEPT ![i][NDIRECT] = ind],
       ptr |-> IF direct THEN m.ptr ELSE [m.ptr EXCEPT ![ind][fbn - NDIRECT] = x],
       data |-> [m.data EXCEPT ![x][m.size[i] % BSIZE] = v],
       size |-> [m.size EXCEPT ![i] = @ + 1]]
iappend(m, i, n) == FoldLeft(LAMBDA x, k : Append1(x, i, "mkfs"), m, [k \in 1 .. n |-> k])

EmptyImage ==
  [free |-> 1, addrs |-> [i \in Ino |-> [k \in 0 .. NDIRECT |-> 0]], size |-> [i \in Ino |-> 0],
   ptr |-> [b \in Block |-> ZeroPtr], data |-> [b \in Block |-> ZeroData]]

\* "." and "..", then each program: its entry in the root and its contents.
Image ==
  FoldLeft(LAMBDA m, k : iappend(iappend(m, 1, 1), k + 1, Programs[k]),
           iappend(EmptyImage, 1, 2), [k \in 1 .. Len(Programs) |-> k])
RootSize == ((Image.size[1] \div BSIZE) + 1) * BSIZE

Init ==
  /\ bitmap = 1 .. Image.free - 1
  /\ addrs = Image.addrs /\ ptr = Image.ptr /\ data = Image.data
  /\ size = [Image.size EXCEPT ![1] = RootSize]
  /\ lock = [i \in Ino |-> Nil]
  /\ off = [f \in File |-> 0]
  /\ st = [p \in Proc |-> Idle]
  /\ hold = [i \in Ino |-> <<>>]
  /\ got = [p \in Proc |-> <<>>]
  /\ logged = [p \in Proc |-> {}]
  /\ calls = 0 /\ panicked = "no"

-----------------------------------------------------------------------------
(* Blocks *)

Goto(p, r) == st' = [st EXCEPT ![p] = r]
Write_log(p, bs) == logged' = [logged EXCEPT ![p] = @ \cup bs]

\* balloc() returns the first free block, zeroed; b is that block.
IsFirstFree(b) == b \in Block \ bitmap /\ \A c \in 1 .. b - 1 : c \in bitmap
DiskFull == Block \subseteq bitmap

\* Fault: the new block is not zeroed.
NoZero(b) == UNCHANGED <<ptr, data>>

bzero(b) == ptr' = [ptr EXCEPT ![b] = ZeroPtr] /\ data' = [data EXCEPT ![b] = ZeroData]

\* bmap() without its allocations: 0 where there is no block.
BlockAt(i, bn) ==
  IF bn < NDIRECT THEN addrs[i][bn]
  ELSE IF addrs[i][NDIRECT] = 0 THEN 0 ELSE ptr[addrs[i][NDIRECT]][bn - NDIRECT]
BytesOf(i) == [j \in 1 .. size[i] |-> data[BlockAt(i, (j - 1) \div BSIZE)][(j - 1) % BSIZE]]
HasHole(i, first, end) == \E j \in first .. end - 1 : BlockAt(i, j \div BSIZE) = 0

ilock(p, i) == /\ lock[i] = Nil
               /\ lock' = [lock EXCEPT ![i] = p]
               /\ hold' = [hold EXCEPT ![i] = BytesOf(i)]
iunlock(i) == /\ lock' = [lock EXCEPT ![i] = Nil]
              /\ hold' = [hold EXCEPT ![i] = <<>>]
NewCall(p) == /\ panicked = "no" /\ st[p].at = "idle" /\ calls < MAXCALLS
              /\ calls' = calls + 1
At(p, where) == panicked = "no" /\ st[p].at = where

-----------------------------------------------------------------------------
(* write() *)

\* Fault: a chunk leaves no room for the blocks of an unaligned write.
WholeChunk == (MAXOPBLOCKS - 1 - 1 - 2) * BSIZE

Chunk == ((MAXOPBLOCKS - 1 - 1 - 2) \div 2) * BSIZE

filewrite(p) ==
  /\ NewCall(p)
  /\ \E f \in File, n \in Lengths :
       /\ FileOf[f] # 1          \* a directory is never open for writing
       /\ Goto(p, [Idle EXCEPT !.at = "chunk", !.f = f, !.ip = FileOf[f], !.n = n])
  /\ UNCHANGED <<image, lock, off, hold, got, logged, panicked>>

\* begin_op(), ilock() and the tests at the start of writei().
write_chunk(p) ==
  LET r == st[p]
      n1 == Min({r.n - r.i, Chunk})
      bad == off[r.f] > size[r.ip] \/ off[r.f] + n1 > MAXFILE * BSIZE
  IN  /\ At(p, "chunk") /\ lock[r.ip] = Nil
      /\ \/ /\ bad
            /\ Goto(p, Idle)
            /\ UNCHANGED <<lock, hold>>
         \/ /\ ~bad
            /\ ilock(p, r.ip)
            /\ Goto(p, [r EXCEPT !.at = "map", !.n1 = n1, !.tot = 0])
      /\ logged' = [logged EXCEPT ![p] = {}]
      /\ UNCHANGED <<image, off, got, calls, panicked>>

\* bmap() of the next piece: at most one balloc() a step.
bmap(p) ==
  LET r == st[p]
      i == r.ip
      bn == (off[r.f] + r.tot) \div BSIZE
      direct == bn < NDIRECT
      needi == ~direct /\ addrs[i][NDIRECT] = 0
      ind == addrs[i][NDIRECT]
  IN  /\ At(p, "map")
      /\ \/ /\ BlockAt(i, bn) # 0
            /\ Goto(p, [r EXCEPT !.at = "copy"])
            /\ UNCHANGED <<image, logged, panicked>>
         \/ \E b \in Block :
              /\ BlockAt(i, bn) = 0 /\ IsFirstFree(b)
              /\ bitmap' = bitmap \cup {b}
              /\ \/ /\ direct \/ needi
                    /\ addrs' = [addrs EXCEPT ![i][IF direct THEN bn ELSE NDIRECT] = b]
                    /\ bzero(b)
                 \/ /\ ~direct /\ ~needi
                    /\ ptr' = [ptr EXCEPT ![b] = ZeroPtr, ![ind][bn - NDIRECT] = b]
                    /\ data' = [data EXCEPT ![b] = ZeroData]
                    /\ UNCHANGED addrs
              /\ Goto(p, [r EXCEPT !.at = IF needi THEN "map" ELSE "copy"])
              /\ Write_log(p, {BITMAP, b} \cup (IF direct \/ needi THEN {} ELSE {ind}))
              /\ UNCHANGED <<size, panicked>>
         \/ /\ BlockAt(i, bn) = 0 /\ DiskFull
            /\ panicked' = "out of blocks"
            /\ UNCHANGED <<image, st, logged>>
      /\ UNCHANGED <<lock, off, hold, got, calls>>

\* either_copyin() of the next piece; it may fail after k bytes, and then
\* the buffer is not logged.
write_copy(p) ==
  LET r == st[p]
      o == off[r.f] + r.tot
      b == BlockAt(r.ip, o \div BSIZE)
      m == Min({r.n1 - r.tot, BSIZE - (o % BSIZE)})
      Put(k) == data' = [data EXCEPT ![b] = [j \in 0 .. BSIZE - 1 |->
                          IF o % BSIZE <= j /\ j < (o % BSIZE) + k THEN p ELSE @[j]]]
  IN  /\ At(p, "copy")
      /\ \/ /\ Put(m)
            /\ Write_log(p, {b})
            /\ Goto(p, [r EXCEPT !.at = IF r.tot + m = r.n1 THEN "end" ELSE "map", !.tot = @ + m])
         \/ \E k \in 0 .. m - 1 :
              /\ Put(k)
              /\ Goto(p, [r EXCEPT !.at = "end", !.ok = FALSE])
              /\ UNCHANGED logged
      /\ UNCHANGED <<bitmap, addrs, size, ptr, lock, off, hold, got, calls, panicked>>

\* Fault: a write inside the file sets its size as well.
ShrinkSize(r) == off[r.f] + r.tot

\* n is unsigned, so n = -1 takes this branch as well.
NewSize(r) == Max({size[r.ip], off[r.f] + r.tot})

\* The end of writei() and of the chunk.
write_end(p) ==
  LET r == st[p]
      done == ~r.ok \/ r.i + r.n1 = r.n
  IN  /\ At(p, "end")
      /\ size' = [size EXCEPT ![r.ip] = NewSize(r)]
      /\ Write_log(p, {INODE})
      /\ off' = IF r.ok THEN [off EXCEPT ![r.f] = @ + r.n1] ELSE off
      /\ iunlock(r.ip)
      /\ Goto(p, IF done THEN Idle ELSE [r EXCEPT !.at = "chunk", !.i = @ + r.n1])
      /\ UNCHANGED <<bitmap, addrs, ptr, data, got, calls, panicked>>

-----------------------------------------------------------------------------
(* read() and truncation *)

\* fileread() under ip->lock, which is not in a transaction: a block that
\* bmap() had to allocate would be a panic in log_write().
fileread(p) ==
  /\ NewCall(p)
  /\ \E f \in File, n \in Lengths :
       LET i == FileOf[f]
           end == Min({off[f] + n, size[i]})
           hole == HasHole(i, off[f], end)
       IN  /\ lock[i] = Nil /\ off[f] <= size[i]
           /\ panicked' = IF hole THEN "outside of trans" ELSE "no"
           /\ got' = IF hole THEN got ELSE [got EXCEPT ![p] = SubSeq(BytesOf(i), off[f] + 1, end)]
           /\ off' = IF hole THEN off ELSE [off EXCEPT ![f] = end]
  /\ UNCHANGED <<image, lock, st, hold, logged>>

\* itrunc(), called for O_TRUNC and by iput().
itrunc(p) ==
  /\ NewCall(p)
  /\ \E i \in Ino \ {1} : /\ ilock(p, i)
                          /\ Goto(p, [Idle EXCEPT !.at = "trunc", !.ip = i])
  /\ logged' = [logged EXCEPT ![p] = {}]
  /\ UNCHANGED <<image, off, got, panicked>>

bfree(bs) == /\ panicked' = IF bs \subseteq bitmap THEN panicked ELSE "freeing free block"
             /\ bitmap' = bitmap \ bs

trunc_direct(p) ==
  LET i == st[p].ip
  IN  /\ At(p, "trunc")
      /\ \E k \in 0 .. NDIRECT - 1 :
           /\ addrs[i][k] # 0 /\ \A j \in 0 .. k - 1 : addrs[i][j] = 0
           /\ bfree({addrs[i][k]})
           /\ addrs' = [addrs EXCEPT ![i][k] = 0]
      /\ Write_log(p, {BITMAP})
      /\ UNCHANGED <<size, ptr, data, lock, off, st, hold, got, calls>>

trunc_indirect(p) ==
  LET i == st[p].ip
      ind == addrs[i][NDIRECT]
  IN  /\ At(p, "trunc") /\ ind # 0 /\ \A k \in 0 .. NDIRECT - 1 : addrs[i][k] = 0
      /\ bfree(({ptr[ind][j] : j \in 0 .. NINDIRECT - 1} \ {0}) \cup {ind})
      /\ addrs' = [addrs EXCEPT ![i][NDIRECT] = 0]
      /\ Write_log(p, {BITMAP})
      /\ UNCHANGED <<size, ptr, data, lock, off, st, hold, got, calls>>

trunc_end(p) ==
  LET i == st[p].ip
  IN  /\ At(p, "trunc") /\ \A k \in 0 .. NDIRECT : addrs[i][k] = 0
      /\ size' = [size EXCEPT ![i] = 0]
      /\ Write_log(p, {INODE})
      /\ iunlock(i)
      /\ Goto(p, Idle)
      /\ UNCHANGED <<bitmap, addrs, ptr, data, off, got, calls, panicked>>

ProcStep(p) ==
  \/ filewrite(p) \/ write_chunk(p) \/ bmap(p) \/ write_copy(p) \/ write_end(p)
  \/ fileread(p) \/ itrunc(p) \/ trunc_direct(p) \/ trunc_indirect(p) \/ trunc_end(p)

Next == \E p \in Proc : ProcStep(p)
Spec == Init /\ [][Next]_vars
-----------------------------------------------------------------------------
(* Properties *)

Positions == {x \in Ino \X (0 .. MAXFILE) :
                IF x[2] = MAXFILE THEN addrs[x[1]][NDIRECT] # 0 ELSE BlockAt(x[1], x[2]) # 0}
BlockOf(x) == IF x[2] = MAXFILE THEN addrs[x[1]][NDIRECT] ELSE BlockAt(x[1], x[2])

\* fs.c:64-103, 378-437: at every moment the blocks marked in use are exactly
\* those that some inode's map names, and no block is named twice, however
\* writes and truncations of different files share the bitmap, also after a
\* write that failed half-way.  fs.c:467, file.c:121-124: a read never makes
\* bmap() allocate: every block below the size of an unlocked inode is mapped,
\* mkfs's root included.
BlocksExact ==
  /\ bitmap = {BlockOf(x) : x \in Positions}
  /\ \A x, y \in Positions : x # y => BlockOf(x) # BlockOf(y)
  /\ panicked # "outside of trans"
  /\ \A i \in Ino : lock[i] = Nil => ~HasHole(i, 0, size[i])

\* file.c:149-155: a chunk of filewrite() and a truncation write fewer blocks
\* than the MAXOPBLOCKS that begin_op() reserves: what Log assumes of its users.
OpFits == \A p \in Proc : Cardinality(logged[p]) < MAXOPBLOCKS

\* The block layer implements flat files: reads return what writes put there,
\* offsets shared by several processes advance once per byte, and no write or
\* truncation of one file shows in another.  A locked inode still has the
\* contents it had when it was locked.
Flat == INSTANCE FlatFile WITH
          CHUNK <- Chunk, MAXBYTES <- MAXFILE * BSIZE,
          content <- [i \in Ino |-> IF lock[i] = Nil THEN BytesOf(i) ELSE hold[i]]
FlatFiles == Flat!Spec
=============================================================================
