---------------------------- MODULE MCFileBlocks ----------------------------
(* Instance of FileBlocks for TLC: the root, a program of mkfs's image that *)
(* is open twice, and an empty file.                                        *)
EXTENDS FileBlocks, TLC

CONSTANTS p1, p2, fr, fa, fb, fc

TwoProcs == {p1, p2}
Files == {fr, fa, fb, fc}
Inodes == [f \in Files |-> CASE f = fr -> 1 [] f \in {fa, fb} -> 2 [] f = fc -> 3]
OneProgram == <<3>>
TwoLengths == {1, 4}
Symmetry == Permutations(TwoProcs) \cup Permutations({fa, fb})
=============================================================================
