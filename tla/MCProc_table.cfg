CONSTANTS
  NPROC = 3
  NCPU = 3
  MAXPID = 3
  KillPids <- OtherPids
  OOM = TRUE
SPECIFICATION FairSpec
INVARIANTS LeftStack Adopted
PROPERTIES  ZombieReaped
CHECK_DEADLOCK FALSE
