SPECIFICATION LiveSpec
CONSTANTS
    NumMsgs = 4
    MsgLen <- MCLenLive
    Flights <- MCFlightsLive
    CommonMtuValues <- MCMtus
    Overhead = 1
    RecordSizeLimit = 4
    PathMtu = 3
    Holddown = FALSE
    Lossy = TRUE
CHECK_DEADLOCK FALSE
PROPERTIES
    FlightCompletes
