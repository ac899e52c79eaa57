CONSTANTS
  p1 = p1  p2 = p2  p3 = p3
  Proc <- ThreeProcs
  First = p1
  NPAGE = 32
  PGSIZE = 4
  FANOUT = 4
  MAXSZ = 18
  MAXCALLS = 6
  UINT = 64
  ALIGN = 2
  PTR = 1
  MAXARG = 3
  Programs <- TwoPrograms
  Args <- SomeArgs
  Increments <- SomeIncrements
  Lengths <- SomeLengths
  Address <- SomeAddress
  Left <- NoneToAll
  LazyLeft <- FewOrMany
SYMMETRY Others
SPECIFICATION Spec
INVARIANTS PagesExact  LazyAgrees
CHECK_DEADLOCK FALSE
