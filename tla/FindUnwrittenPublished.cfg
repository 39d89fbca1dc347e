SPECIFICATION Spec
CONSTANTS
  Slots = {s1, s2}
  NumBundles = 3
  PageSize = 2
  BlockSize = 2
  MaxPages = 2
  Watermark = 0
  ra = ra
  rb = rb
  Requests = {ra, rb}
  NoReq = NoReq
  Tokens <- MCTokens
  Prompt <- MCPrompt
  TotalTokens <- MCTotal
  Chunk = 2
  Plain = {ra, rb}
  Faults = {"plain"}
  EntryBudget = 1
  Caches = {"persistent", "rolling"}
INVARIANT PublishedBytes
