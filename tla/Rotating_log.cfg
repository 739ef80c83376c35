\* Rotation without retention while flush, rename and reopen may fail: no
\* loss, duplication or reordering across files; files stay below the
\* threshold; every line holds one message; the counter matches the file.
CONSTANTS
  Threads = {t1, t2}
  K = 3
  LineLen <- MCLineLen
  Terminated <- MCTerminated
  Faults <- RotFaults
  Base = Base
  PreBase = 1
  Old = Old
  NL = NL
  NoThread = NoThread
  MaxBytes = 4
  MaxRotated = 0
  SeqLimit = 3
  MaxTime = 2
  PreRotated <- SameSecond
  NoName = NoName
  ClockStepsBack = FALSE
SPECIFICATION RSpec
INVARIANT RTypeOK  CounterMatchesFile LinesHoldOneMessage
PROPERTY RAppendLogSpec
