SPECIFICATION MCSpec
CONSTANTS
    Threads = {t1, t2, t3}
    None = None
    MaxAsks = 3
    Callers = {u1, u2, u3}
    Procs = {p1, p2}
    Nobody = Nobody
    a = a
    b = b
    n1 = n1
    n2 = n2
    Sessions <- MCSessions
    HasCert <- MCSessions
    NameOf <- MCNameOf
    IndexOf <- MCIndexOf
    EntriesPerSet = 2
    NumCerts = 1
    NumNames = 1
    SSL3Timeout = 1
    UsecPerSec = 1000
    MaxTime = 1
    MaxDeaths = 1
CHECK_DEADLOCK FALSE
INVARIANTS
    Exclusion
    NoLostWakeup
    InitOnce
    SleepsForAReason
    
    
PROPERTIES
    EveryoneIsServed
    DeadLocksReleased
