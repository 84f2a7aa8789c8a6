CONSTANTS
    Hdr = 2
    Unit = 2
    Capacity = 12
    PayloadLen <- MCPayloadLen
    MaxFrames = 5
SPECIFICATION Spec
INVARIANTS
    TypeOK
    CutOnlyByLargeBatch
PROPERTIES
    ImplementsStream
CHECK_DEADLOCK FALSE
