---------------------------- MODULE MCLazyMemory ----------------------------
(* Instance of LazyMemory for TLC. *)
EXTENDS LazyMemory

CONSTANTS p1, p2, p3

ThreeProcs == {p1, p2, p3}
Others == Permutations({p2, p3})
Seg(vaddr, memsz, filesz, bad) ==
  [vaddr |-> vaddr, memsz |-> memsz, filesz |-> filesz, bad |-> bad]
\* A sound program; one whose second segment is cut short.
TwoPrograms == {<<Seg(0, 3, 3, "no")>>, <<Seg(0, 3, 3, "no"), Seg(4, 2, 1, "data")>>}
SomeArgs == {<<1>>, <<3>>}
SomeIncrements == {6, -6, -100}
SomeLengths == {5}
SomeAddress == {2, 5, 10, 14, 17}
NoneToAll == 0 .. 14
FewOrMany == {0, 1, 2, 4}
=============================================================================
