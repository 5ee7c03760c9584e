SPECIFICATION MCSpec
CONSTANTS
    s1 = s1
    s2 = s2
    None = none
    Threads = {t1, t2, t3}
    Sessions <- MCSessions
    Objects = {o1, o2}
    Buckets = 2
    Hash <- MCHash
    Users = {t1, t2, t3}
    Handles <- MCSessions
    NumBuckets = 2
    BucketOf <- MCHash
    Rows = {r1}
    Passwords = {p1, p2}
    NoKey = nokey
SYMMETRY MCSymmetry
INVARIANTS
    QueuesAgree
    NothingDangles
    NothingLeaks
    
    StatesSettle
    CachedKeyIsCurrent
    
