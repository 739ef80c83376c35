\* Retention limit 2 from an empty directory, while the clock may be set
\* back: fewer files while fewer rotations, then exactly two.
CONSTANTS
  Threads = {t1, t2}
  K = 3
  LineLen <- MCLineLen
  Terminated <- MCTerminated
  Faults <- NoFaults
  Base = Base
  PreBase = 0
  Old = Old
  NL = NL
  NoThread = NoThread
  MaxBytes = 4
  MaxRotated = 2
  SeqLimit = 3
  MaxTime = 2
  PreRotated <- NoOld
  NoName = NoName
  ClockStepsBack = TRUE
SPECIFICATION RSpec
INVARIANT RetentionBound
