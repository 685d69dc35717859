SPECIFICATION SpaceFairSpec
CONSTANTS
    Eids = {1, 2}
    Players = {1, 2}
    Positions <- MCTwo
    Radii <- MCRadius
    GridSize = 4
    MaxMoves = 1
INVARIANTS
    ViewMatchesInterests
    BroadcastMatchesView
PROPERTIES
    KeepsPromise
    StopReturns
    InterestsForget
    ViewsConverge
