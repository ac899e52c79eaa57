CONSTANTS
  p1 = p1  p3 = p3
  Readers <- OneReader
  Writers <- OneWriter
  INPUT_BUF = 2
  UINT = 4
  InStart = 3
  TX_SIZE = 3
  TxStart = 1
  MAXN = 2
  MAXKEYS = 3
  MAXOUT = 4
  MayKill <- OneReader
  MayFault <- OneReader
SPECIFICATION Spec
INVARIANTS ReaderSleepsOnEmpty OutputFlows
PROPERTIES LineDiscipline
\* Typing and writing stop at their bounds.
CHECK_DEADLOCK FALSE
