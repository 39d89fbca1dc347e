SPECIFICATION Spec
CONSTANTS
  r1 = r1
  r2 = r2
  r3 = r3
  k1 = k1
  NoReq = NoReq
  NoKey = NoKey
  Requests = {r1, r2}
  Slots = {s1, s2}
  MaxPending = 2
  KvPages = 1
  Need <- MCNeed2
  Key <- MCKey2
  PublishedKept = 1
  Sampled <- MCSampled2
  MaxTokens = 2
  WatchdogRounds = 1
  Backoff = 1
  Faults = {"prefill", "decode", "timeout", "activatePending"}
  FatalFaults = {"prefill", "decode", "verify", "finish", "activatePending"}
PROPERTIES EveryRequestAnswered ImplementsService
CHECK_DEADLOCK FALSE
