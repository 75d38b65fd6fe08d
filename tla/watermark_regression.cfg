SPECIFICATION Spec
CONSTANTS
  Archives <- MCArchives
  None = None
  MintSets = {m1, m2}
  FileIds = {f1, f2, f3}
  Rewind = 1
  Faults = {}
PROPERTY WatermarkNeverRegresses
