SPECIFICATION HSpec
CONSTANTS
    s1 = s1
    s2 = s2
    s3 = s3
    r1 = r1
    r2 = r2
    Sources <- MC_Sources
    Requests <- MC_Requests
    burst = 2
    maxDelay = 1
    MaxDebt = 3
    softLimit = 1
    hardLimit = 2
    MaxTime = 2
SYMMETRY Symmetry
INVARIANTS
    TypeOK
    BucketsWithinHardLimit
    
