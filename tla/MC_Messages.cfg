SPECIFICATION Spec
CONSTANTS
    Explored <- MCExplored
    Sample <- MCSample
    MaxSteps <- MCSteps
CHECK_DEADLOCK FALSE
INVARIANTS
    KeptIsBlank
    WireExact
    ActsAsValue
