SPECIFICATION Spec
CONSTANTS
  r1 = r1
  r2 = r2
  r3 = r3
  k1 = k1
  NoReq = NoReq
  NoKey = NoKey
  Requests = {r1, r2}
  Slots = {s1, s2}
  MaxPending = 2
  KvPages = 2
  Need <- MCNeed2
  Key <- MCKey2
  PublishedKept = 1
  Sampled <- MCSampled2
  MaxTokens = 2
  WatchdogRounds = 0
  Backoff = 1
  Faults = {"verify"}
  FatalFaults = {}
INVARIANT EverySlotRecovered
CHECK_DEADLOCK FALSE
