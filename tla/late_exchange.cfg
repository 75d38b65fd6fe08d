SPECIFICATION SpecLate
CONSTANTS
    N = 6
    Rebuild <- MCRebuild
    MaxGen = 2
    MaxId = 5
    None = None

PROPERTIES PairsNeverMoveBack
