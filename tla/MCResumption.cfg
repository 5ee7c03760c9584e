SPECIFICATION MCSpec
CONSTANTS
    a1 = a1
    a2 = a2
    x = x
    Attempts = {a1, a2, x}
    External = {x}
    ticketAge <- MCAge
    creationTime <- MCCreation
    Bits = {1, 2, 3, 4}
    Hash <- MCHash
    Window = 8
    UsecPerMsec = 2
    MaxDelay = 2
    Threads = {t1, t2}
    None = None
    MaxTime = 22
    MaxRestarts = 1
    Sockets = {t1, t2}
    Sids = {s1, s2, s3}
    NoSid = NoSid
SYMMETRY MCSymmetry
CHECK_DEADLOCK FALSE
INVARIANTS
    
    ReferencesExact
PROPERTIES
    FirstIsAccepted
