\* FileSink::write when any fwrite may fail after a prefix.
CONSTANTS
  Threads = {t1, t2}
  K = 3
  LineLen <- MCLineLen
  Terminated <- MCTerminated
  Faults <- WriteFaults
  Base = Base
  PreBase = 1
  Old = Old
  NL = NL
  NoThread = NoThread
SPECIFICATION Spec
INVARIANT OkCallsLogged
PROPERTY AppendLogSpec AllCallsReturn
CHECK_DEADLOCK FALSE
