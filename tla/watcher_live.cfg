SPECIFICATION FairSpec
CONSTANTS
  Archives <- ContinuedArchives
  None = None
  MintSets = {m1}
  FileIds = {f1, f2}
  Rewind = 1
  Faults = {}
PROPERTY GenerationServed
