SPECIFICATION ServerSpec
CONSTANTS
    Procs = {p1, p2}
    Nobody = Nobody
    Sessions = {a}
    HasCert = {}
    NameOf <- MCNameOf
    IndexOf <- MCIndexOf
    EntriesPerSet = 2
    NumCerts = 1
    NumNames = 1
    SSL3Timeout = 1
    UsecPerSec = 1000
    MaxTime = 3
    MaxDeaths = 0
CHECK_DEADLOCK FALSE
INVARIANTS
    FoundIsFresh
