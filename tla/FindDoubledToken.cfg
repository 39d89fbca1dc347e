SPECIFICATION Spec
CONSTANTS
  Slots = {s1}
  NumBundles = 2
  PageSize = 2
  BlockSize = 1
  MaxPages = 2
  Watermark = 0
  ra = ra
  rb = rb
  Requests = {ra, rb}
  NoReq = NoReq
  Tokens <- MCTwoRounds
  Prompt <- MCPrompt
  TotalTokens <- MCTwoRoundsTotal
  Chunk = 2
  Plain = {ra}
  Faults = {}
  EntryBudget = 1
  Caches = {"persistent", "rolling"}
INVARIANT PublishedBytes
