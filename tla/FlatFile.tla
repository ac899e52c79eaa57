------------------------------ MODULE FlatFile ------------------------------
(***************************************************************************)
(* What the block layer of the file system promises to read() and write(): *)
(* every inode is a flat string of bytes, every open file an offset into   *)
(* one.  A write of up to a few blocks, a read and a truncation are each   *)
(* one step.  A write whose source cannot be copied fails; what it had     *)
(* copied before may stay, and the offset does not move.                   *)
(***************************************************************************)
EXTENDS Integers, Sequences

CONSTANTS Proc, File, FileOf, Ino,
          CHUNK,     \* bytes filewrite() writes in one transaction
          Lengths,   \* the n of read()
          MAXBYTES   \* MAXFILE*BSIZE

VARIABLES content,   \* content[i]: the bytes of inode i
          off,       \* off[f]: the offset of open file f
          got        \* got[p]: what the last read of p returned

\* s with k bytes of writer v at offset o <= Len(s).
Overwrite(s, o, k, v) ==
  [j \in 1 .. IF o + k > Len(s) THEN o + k ELSE Len(s) |->
     IF o < j /\ j <= o + k THEN v ELSE s[j]]

Write(f, m, v) ==
  LET c == content[FileOf[f]]
  IN  /\ off' = [off EXCEPT ![f] = @ + m]
      /\ UNCHANGED got
      /\ off[f] <= Len(c) /\ off'[f] <= MAXBYTES
      /\ content' = [content EXCEPT ![FileOf[f]] = Overwrite(c, off[f], m, v)]

\* k bytes were copied; those that would lengthen the file may be cut.
FailedWrite(f, k, v) ==
  LET c == content[FileOf[f]]
      d == Overwrite(c, off[f], k, v)
  IN  /\ UNCHANGED <<off, got>>
      /\ off[f] <= Len(c)
      /\ \E n \in Len(c) .. Len(d) : content' = [content EXCEPT ![FileOf[f]] = SubSeq(d, 1, n)]

\* Fewer than n bytes only at the end of the file.
Read(p, f, n) ==
  LET c == content[FileOf[f]]
      end == off'[f]
  IN  /\ off' = [off EXCEPT ![f] = end]
      /\ end - off[f] \in 0 .. n
      /\ off[f] <= Len(c) /\ (end - off[f] < n => end = Len(c))
      /\ got' = [got EXCEPT ![p] = SubSeq(c, off[f] + 1, end)]
      /\ UNCHANGED content

Truncate(i) ==
  /\ content' = [content EXCEPT ![i] = <<>>]
  /\ UNCHANGED <<off, got>>

Next ==
  \/ \E f \in File, m \in 1 .. CHUNK, v \in Proc : Write(f, m, v)
  \/ \E f \in File, k \in 0 .. CHUNK, v \in Proc : FailedWrite(f, k, v)
  \/ \E p \in Proc, f \in File, n \in Lengths : Read(p, f, n)
  \/ \E i \in Ino : Truncate(i)

Spec == [][Next]_<<content, off, got>>
=============================================================================
