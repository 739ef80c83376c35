\* Same-second rotations exhaust the .<seq> probe (spec section 7).
CONSTANTS
  Threads = {t1, t2}
  K = 3
  LineLen <- MCLineLen
  Terminated <- MCTerminated
  Faults <- NoFaults
  Base = Base
  PreBase = 1
  Old = Old
  NL = NL
  NoThread = NoThread
  MaxBytes = 4
  MaxRotated = 0
  SeqLimit = 3
  MaxTime = 2
  PreRotated <- SameSecond
  NoName = NoName
  ClockStepsBack = FALSE
SPECIFICATION RSpec
INVARIANT SinkOpenBetweenCalls
