SPECIFICATION Spec
CONSTANTS
    c1 = c1
    c2 = c2
    n1 = n1
    n2 = n2
    Conns <- MCConns
    Names <- MCNames
    Interval = 2
    Turn = 1024
    Delays <- MCDelays
    MaxAlarms = 3
    MaxNow = 4
    MaxElapse = 3
    MaxEids = 4
    AttackDelay = 5
    AttackCooldown = 4
    SkillDelay = 7
    SkillCooldown = 8
    SkillCost = 2
    MaxMana = 2
    MaxHealth = 1
    Damage = 1
INVARIANTS
    AssertionHolds
