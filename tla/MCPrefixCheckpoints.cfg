SPECIFICATION Spec
CONSTANTS
  Slots = {s1, s2}
  Persistent = Persistent
  NoCkpt = NoCkpt
  Prompts <- Mixed
  Texts <- MixedTexts
  BlockSize = 2
  Budget = 2
  Paths <- MixedPaths
  Round = 2
  PublishFails <- Refused
SYMMETRY SlotSymmetry
INVARIANTS OnlyMisledDiffer OnlyShadowedHidden RollingTracked
PROPERTIES DecodeKeepsEntries PromptStored
