SPECIFICATION Spec
CONSTANTS
  Tok = {1, 2, 3, 4}
  Eos = 4
  StartMarker <- OneStart
  EndMarker <- OneEnd
  Prompts <- OpenSpan
  Budgets = {3}
  Models <- NoStart
  Target <- Script
  K = 2
  Sources = {"kept"}
  Chunk = 2
  MaxTokens = 5
INVARIANTS ForcedInContext
