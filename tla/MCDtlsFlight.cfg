SPECIFICATION FlightSpec
CONSTANTS
    NumMsgs = 3
    MsgLen <- MCLen
    Flights <- MCFlights
    CommonMtuValues <- MCMtusTwo
    Overhead = 1
    RecordSizeLimit = 4
    PathMtu = 4
    Holddown = TRUE
    Lossy = TRUE
CHECK_DEADLOCK FALSE
INVARIANTS
    FlightTypeOK
    DatagramsFit
    AckedIsHeld
    ForgottenIsHandled
