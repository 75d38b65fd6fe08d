SPECIFICATION Spec
CONSTANTS
  Archives <- SmallArchives
  None = None
  MintSets = {m1}
  FileIds = {f1, f2, f3}
  Rewind = 1
  Faults = {"bootstrap", "state_lost", "persist_error"}
SYMMETRY Symmetry
INVARIANTS Inv MintFilesExist FullStartsClean OneBakImport StageInv
PROPERTIES ServingNeverRegresses
