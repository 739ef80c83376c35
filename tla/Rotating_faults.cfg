\* Every step of a rotation, the directory scan and the removes may fail: every
\* call still returns, rotated files on disk survive until a rotation, and no
\* prune deletes the newest-named rotated file.
CONSTANTS
  Threads = {t1, t2}
  K = 3
  LineLen <- MCLineLen
  Terminated <- MCTerminated
  Faults <- AllFaults
  Base = Base
  PreBase = 0
  Old = Old
  NL = NL
  NoThread = NoThread
  MaxBytes = 4
  MaxRotated = 1
  SeqLimit = 3
  MaxTime = 1
  PreRotated <- TwoOld
  NoName = NoName
  ClockStepsBack = FALSE
SPECIFICATION RSpec
INVARIANT PreexistingKeptUntilRotation
PROPERTY AllCallsReturn PruneKeepsNewest
CHECK_DEADLOCK FALSE
