SPECIFICATION FairSpec
CONSTANTS
  Procs = {p1, p2}
  Jobs = {j1, j2}
  NoProc = NoProc
  NoJob = NoJob
  Stop = Stop
  Ttl = {p2}
  Recoverable = {p2}
  Canaried = {p1}
  MayCrash = {p1}
PROPERTIES TaintedUntilReplaced
CHECK_DEADLOCK FALSE
