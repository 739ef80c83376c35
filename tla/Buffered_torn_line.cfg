\* stdio writes out part of a line, the process crashes, and the next
\* process appends its first line to the torn one (spec section 9).
CONSTANTS
  Threads = {t1, t2}
  K = 2
  LineLen <- MCLineLen
  Terminated <- MCTerminated
  Faults <- NoFaults
  Base = Base
  PreBase = 1
  Old = Old
  NL = NL
  NoThread = NoThread
  MaxCrashes = 1
  Durable = TRUE
SPECIFICATION BSpec
INVARIANT LinesHoldOneMessage
