SPECIFICATION ArraySpec
CONSTANTS
    Values = {0, 1}
    Default = 0
    Width = 4
    MaxLen = 3
    MaxCalls = 4
INVARIANTS
    ReplicaCatchesUp
PROPERTIES
    KeepsMirror
