SPECIFICATION Spec
CONSTANTS
  Slots = {s1, s2}
  NumBundles = 4
  PageSize = 2
  BlockSize = 2
  MaxPages = 2
  Watermark = 0
  ra = ra
  rb = rb
  Requests = {ra, rb}
  NoReq = NoReq
  Tokens <- MCTokens
  Prompt <- MCPrompt
  TotalTokens <- MCTotal
  Chunk = 2
  Plain = {}
  Faults = {"verify"}
  EntryBudget = 1
  Caches = {"persistent", "rolling"}
INVARIANTS PoolConservation PublishedBytes RowHoldsPrefix EntriesBacked PromisesCovered
PROPERTIES PublishedStable RowsStable
SYMMETRY SlotSymmetry
