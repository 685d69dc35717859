SPECIFICATION Spec
CONSTANTS
    Source <- MCWalkSource
    Boxes = {}
    MaxTiles = 3
    LutSize = 2
    TileSpan = 4
    PolySpan = 8
    SaltSpan = 4
    MAX_NEIS = 32
    FileTiles = {}
    FlagValues = {}
    MaxOps = 3
    AreaCost <- MCAreaCost
    MaxAsked = 0
    Junk = {}
    Places = {}
    TileSize = 8
    PoolSizes = {}
    PathSizes = {}
    Interval = 4
    Turn = 1024
    Delays <- MCDelays
    MaxAlarms = 2
    MaxNow = 44
    MaxElapse = 5
    Files <- MCFiles
    Home <- MCHome
    Goals <- MCGoals
    MsPerUnit = 1
    MaxNodes = 64
    MaxPath = 16
    MaxRequests = 2
    LastRequest = 14
CHECK_DEADLOCK FALSE
INVARIANTS
    StaysOnMesh
    KeepsPace
PROPERTY
    Arrives
