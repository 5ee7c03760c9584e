SPECIFICATION LiveSpec
CONSTANTS
    NumMsgs = 1
    MsgLen <- MCLenTwoSteps
    Flights <- MCFlightsTwoSteps
    CommonMtuValues <- MCMtus
    Overhead = 1
    RecordSizeLimit = 4
    PathMtu = 3
    Holddown = FALSE
    Lossy = FALSE
CHECK_DEADLOCK FALSE
PROPERTIES
    FlightCompletes
