CONSTANTS
  NCPU = 2
  NPROC = 2
  MAXN = 1
SPECIFICATION Spec
INVARIANTS NoPanic InterruptsExact TickNotLost 
