SPECIFICATION Spec
CONSTANTS
    Eids = {1, 2}
    Positions <- MCNear
    Radii <- MCRadii
    GridSize = 4
    MaxMoves = 1
INVARIANTS
    TypeOK
    GridsMatch
    GhostsInert
    QueryStaysInCopy
    QueryExact
    Symmetry
    FreshSight
