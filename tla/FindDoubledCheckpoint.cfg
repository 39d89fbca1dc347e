SPECIFICATION Spec
CONSTANTS
  Slots = {s1, s2}
  Persistent = Persistent
  NoCkpt = NoCkpt
  Prompts <- Long
  Texts <- MixedTexts
  BlockSize = 2
  Budget = 2
  Paths <- AllPlain
  Round = 1
  PublishFails = {}
SYMMETRY SlotSymmetry
INVARIANTS StateMatchesKv
