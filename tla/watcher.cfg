SPECIFICATION Spec
CONSTANTS
  Archives <- MCArchives
  None = None
  MintSets = {m1, m2}
  FileIds = {f1, f2, f3}
  Rewind = 1
  Faults = {}
SYMMETRY Symmetry
INVARIANTS TypeOK WatermarkBacked GenerationComplete MintFilesExist FrozenMintsHold FullStartsClean OneBakImport MergesRun JournalResumable GenerationInv AheadInv
PROPERTIES ServingNeverRegresses CutoverPromotesNewer DoubleBufferKept
