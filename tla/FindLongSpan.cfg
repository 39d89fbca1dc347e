SPECIFICATION Spec
CONSTANTS
  Tok = {1, 2, 3, 4}
  Eos = 4
  StartMarker <- OneStart
  EndMarker <- TwoEnd
  Prompts <- Texts
  Budgets = {0, 2}
  Models <- AllModels
  Target <- DigestTarget
  K = 2
  Sources = {"kept"}
  Chunk = 2
  MaxTokens = 6
INVARIANTS BudgetKept
