\* An fwrite of the line writes a prefix and throws; the next line joins the
\* prefix, so one line holds two messages (spec section 9).
CONSTANTS
  Threads = {t1, t2}
  K = 2
  LineLen <- MCLineLen
  Terminated <- MCTerminated
  Faults <- WriteFaults
  Base = Base
  PreBase = 1
  Old = Old
  NL = NL
  NoThread = NoThread
SPECIFICATION Spec
INVARIANT LinesHoldOneMessage
