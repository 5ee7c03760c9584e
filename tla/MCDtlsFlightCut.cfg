SPECIFICATION LiveSpec
CONSTANTS
    NumMsgs = 2
    MsgLen <- MCLenCut
    Flights <- MCFlightsCut
    CommonMtuValues <- MCMtus
    Overhead = 1
    RecordSizeLimit = 4
    PathMtu = 5
    Holddown = FALSE
    Lossy = FALSE
CHECK_DEADLOCK FALSE
PROPERTIES
    FlightCompletes
