SPECIFICATION MCSpec
CONSTANTS
    ByteBits = 2
    RingBytes = 2
    HdrRanges <- MCHdrRanges
    LongHeader = LongHeader
    MaxRecords = 13
    AeadLimit = 2
    NumMsgs = 3
    MsgLen <- MCLen
    Stateless = TRUE
    MaxLen = 4
    MaxEntries = 3
CHECK_DEADLOCK FALSE
INVARIANTS
    HandledAtMostOnce
    RingExact
    LateRecordAccepted
    HandedUpIntact
    HighWaterReceived
    AcknowledgedIsHeld
    CompletionNotMissed
    RangeIsTight
    NoneMeansAcknowledged
PROPERTIES
    ImplementsReceiver
    SearchTerminates
