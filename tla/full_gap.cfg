SPECIFICATION FairSpec
CONSTANTS
  Archives <- SmallArchives
  None = None
  MintSets = {m1}
  FileIds = {f1, f2, f3}
  Rewind = 1
  Faults = {}
PROPERTY FullBridgesGap
