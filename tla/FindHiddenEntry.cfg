SPECIFICATION Spec
CONSTANTS
  Slots = {s1, s2}
  Persistent = Persistent
  NoCkpt = NoCkpt
  Prompts <- OnBlock
  Texts <- Ones
  BlockSize = 2
  Budget = 2
  Paths <- AllVerify
  Round = 1
  PublishFails = {}
SYMMETRY SlotSymmetry
INVARIANTS PersistentVisible
