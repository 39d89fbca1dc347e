SPECIFICATION Spec
CONSTANTS
  Slots = {s1, s2}
  NumBundles = 3
  PageSize = 2
  BlockSize = 1
  MaxPages = 2
  Watermark = 0
  ra = ra
  rb = rb
  Requests = {ra, rb}
  NoReq = NoReq
  Tokens <- MCTokens
  Prompt <- MCPrompt
  TotalTokens <- MCTotal
  Chunk = 2
  Plain = {}
  Faults = {}
  EntryBudget = 1
  Caches = {"persistent", "rolling"}
INVARIANT RowHoldsPrefix
