SPECIFICATION FairSpec
CONSTANTS
    N = 6
    Rebuild <- MCRebuild
    MaxGen = 2
    MaxId = 5
    None = None
INVARIANTS Inv GenerationWhole
PROPERTIES PairsNeverMoveBack CutoverCompletes
