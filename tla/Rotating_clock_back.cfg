\* One thread, two rotations, retention limit 1, and a clock set back between
\* them: the second rotated file gets the older name (spec section 4.4).
CONSTANTS
  Threads = {t1}
  K = 3
  LineLen <- MCLineLen
  Terminated <- MCTerminated
  Faults <- NoFaults
  Base = Base
  PreBase = 0
  Old = Old
  NL = NL
  NoThread = NoThread
  MaxBytes = 4
  MaxRotated = 1
  SeqLimit = 3
  MaxTime = 1
  PreRotated <- NoOld
  NoName = NoName
  ClockStepsBack = TRUE
SPECIFICATION RSpec
INVARIANT RetainsNewest
