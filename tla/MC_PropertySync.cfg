SPECIFICATION PropertySpec
CONSTANTS
    p1 = p1
    p2 = p2
    Players <- MCPlayers
    Eids <- MCPlayers
    MaxHealth = 1
    MaxMana = 1
    SkillCost = 1
    Times = {1, 2}
    Default = 0
    Width = 4
SYMMETRY Symmetry
INVARIANTS
    StaleIsFlagged
PROPERTIES
    UpdateBringsUpToDate
