SPECIFICATION FairSpec
CONSTANTS
    Radix = 4
    MaxLenSize = 5
    SendBufferSize = 24
    ChunkSize = 7
    Name <- MCName
    Payload <- MCPayload
    MaxSent = 3
CHECK_DEADLOCK FALSE
INVARIANTS
    BuffersFit
PROPERTIES
    KeepsPipe
    SentArrives
