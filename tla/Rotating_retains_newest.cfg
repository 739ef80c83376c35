\* Retention limit 1: the newest rotated file should survive pruning (spec section 8).
CONSTANTS
  Threads = {t1, t2}
  K = 2
  LineLen <- MCLineLen
  Terminated <- MCTerminated
  Faults <- NoFaults
  Base = Base
  PreBase = 1
  Old = Old
  NL = NL
  NoThread = NoThread
  MaxBytes = 4
  MaxRotated = 1
  SeqLimit = 3
  MaxTime = 2
  PreRotated <- NoOld
  NoName = NoName
  ClockStepsBack = FALSE
SPECIFICATION RSpec
INVARIANT RetainsNewest
