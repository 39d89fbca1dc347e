SPECIFICATION Spec
CONSTANTS
  Slots = {s1, s2}
  Persistent = Persistent
  NoCkpt = NoCkpt
  Prompts <- SameLength
  Texts <- Ones
  BlockSize = 2
  Budget = 2
  Paths <- AllVerify
  Round = 2
  PublishFails = {}
SYMMETRY SlotSymmetry
INVARIANTS StateMatchesKv
