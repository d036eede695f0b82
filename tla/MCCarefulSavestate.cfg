CONSTANTS
  Maps = {m1, m2}
  Data = {d1, d2}
  Garbage = Garbage
  NoMap = NoMap
  MaxRestoreSlots = 1
  SlotValues = 6
  ResumeDelay = 0
  HeapSize = 2
  Lens = {2}
  BankLens = {}
SPECIFICATION FairCarefulSpec
INVARIANT CarefulInv
PROPERTIES
  KeepsPromises
  RestoreServed
