SPECIFICATION Spec
CONSTANTS
  r1 = r1
  r2 = r2
  r3 = r3
  k1 = k1
  NoReq = NoReq
  NoKey = NoKey
  Requests = {r1, r2, r3}
  Slots = {s1, s2}
  MaxPending = 2
  KvPages = 2
  Need <- MCNeed
  Key <- MCKey
  PublishedKept = 1
  Sampled <- MCSampled
  MaxTokens = 3
  WatchdogRounds = 1
  Backoff = 1
  Faults = {"prefill", "decode", "verify", "finish", "reset", "timeout", "activateNow",
            "activatePending"}
  FatalFaults = {"prefill", "decode", "verify", "finish", "reset", "activateNow",
                 "activatePending"}
INVARIANTS SlotConservation OneHome BudgetExact NoForeignKv ReservationsCovered DedupKeyHasHolder
SYMMETRY SlotSymmetry
CHECK_DEADLOCK FALSE
