----------------------------- MODULE MCFileTree -----------------------------
(* Instance of FileTree for TLC: a root with directory a, which has a       *)
(* directory b, and with file b; one inode is free.                         *)
EXTENDS FileTree, TLC

CONSTANTS p1, p2

TwoProcs == {p1, p2}
Inodes == 1 .. 5
TwoNames == {"a", "b"}

Rel(e) == [abs |-> FALSE, elems |-> e]
SomePaths == {Rel(<<"a">>), Rel(<<"a", "b">>), Rel(<<"b">>), Rel(<<"..">>),
              [abs |-> TRUE, elems |-> <<>>]}
SomeLinks == {<<[abs |-> TRUE, elems |-> <<"b">>], Rel(<<"a">>)>>}

Entries(f) == [n \in DotName |-> IF n \in DOMAIN f THEN f[n] ELSE 0]
BootImage ==
  [type  |-> <<"T_DIR", "T_DIR", "T_DIR", "T_FILE", "free">>,
   nlink |-> <<2, 2, 1, 1, 0>>,
   dir   |-> <<Entries([a |-> 2, b |-> 4] @@ (".." :> 1)), Entries([b |-> 3] @@ (".." :> 1)),
               Entries(".." :> 2), NoDir, NoDir>>]
Homes == (p1 :> 1) @@ (p2 :> 3)
=============================================================================
