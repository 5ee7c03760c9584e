SPECIFICATION Spec
CONSTANTS
    Client = client
    Server = server
    MaxEpoch = 4
    MaxOwn = 2
    MaxMessages = 4
    Lossy = TRUE
    Holddown = TRUE
CHECK_DEADLOCK FALSE
INVARIANTS
    
    EpochsInStep
    WritesAreReadable
    
    LastEpochIsSafe
