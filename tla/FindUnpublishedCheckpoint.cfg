SPECIFICATION Spec
CONSTANTS
  Slots = {s1, s2}
  Persistent = Persistent
  NoCkpt = NoCkpt
  Prompts <- OffBlock
  Texts <- Ones
  BlockSize = 2
  Budget = 2
  Paths <- AllVerify
  Round = 1
  PublishFails <- OffBlockRefused
SYMMETRY SlotSymmetry
INVARIANTS StateMatchesKv
