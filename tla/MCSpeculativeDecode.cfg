SPECIFICATION Spec
CONSTANTS
  Tok = {1, 2, 3, 4}
  Eos = 4
  StartMarker <- OneStart
  EndMarker <- OneEnd
  Prompts <- Texts
  Budgets = {0, 1, 2}
  Models <- AllModels
  Target <- DigestTarget
  K = 2
  Sources = {"kept", "copied"}
  Chunk = 2
  MaxTokens = 6
INVARIANTS LiveRowIsKv LockStep SpanWithinBudget
PROPERTIES GreedyImplemented
