SPECIFICATION Spec
CONSTANTS
    MaxSlots = 3
    Interval = 2
    Delays <- MCDelays
    MaxTimers = 2
    MaxFrame = 14
    MaxElapse = 3
INVARIANTS
    TasksAccounted
    NothingOverdue
PROPERTIES
    KeepsContract
