CONSTANTS
  p1 = p1  p2 = p2
  Nil = Nil
  Proc <- TwoProcs
  Inum <- Inodes
  NINODE = 5
  Name <- TwoNames
  Paths <- SomePaths
  Links <- SomeLinks
  Image <- BootImage
  Home <- Homes
  MAXCALLS = 3
SPECIFICATION Spec
INVARIANTS LinksCover CacheCoherent IputNeverBlocks NamesResolve NoDeadlock
CHECK_DEADLOCK FALSE
