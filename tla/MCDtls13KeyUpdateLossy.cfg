SPECIFICATION LiveSpec
CONSTANTS
    Client = client
    Server = server
    MaxEpoch = 7
    MaxOwn = 1
    MaxMessages = 2
    Lossy = TRUE
    Holddown = FALSE
CHECK_DEADLOCK FALSE
PROPERTIES
    KeyUpdateCompletes
