SPECIFICATION SearchSpec
CONSTANTS
    Source <- MCSource
    Boxes <- MCBoxes
    MaxTiles = 3
    LutSize = 2
    TileSpan = 4
    PolySpan = 8
    SaltSpan = 4
    MAX_NEIS = 2
    FileTiles <- MCFileTiles
    FlagValues = {0}
    MaxOps = 4
    MaxAsked = 3
    AreaCost <- MCAreaCost
    Junk <- MCJunk
    Places <- MCPlaces
    TileSize = 8
    PoolSizes = {4}
    PathSizes = {2, 16}
CHECK_DEADLOCK FALSE
INVARIANTS
    TilesAccounted
    LinksFollowTiles
    RefsNameTheirTile
    QueriesRight
    SearchSound
    SlicedPathHolds
