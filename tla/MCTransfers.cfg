SPECIFICATION FairSpec
CONSTANTS
    t1 = t1
    t2 = t2
    c1 = c1
    c2 = c2
    u1 = u1
    Protocol1 = "DAV"
    Protocol2 = "HTTP"
    Overwritten = 1
    DiskQuota = 2
    DataQuota = 1
    Stored = 1
    MaxBytes = 3
    Transfers <- MC_Transfers
    Connections <- MC_Connections
    Users <- MC_Users
    connOf <- MC_connOf
    idOf <- MC_idOf
    userOf <- MC_userOf
    protocolOf <- MC_protocolOf
    Downloads <- MC_Downloads
    fileSizes <- MC_fileSizes
    hasTruncate <- MC_hasTruncate
    Limits <- MC_Limits
INVARIANTS
    TypeOK
    Watched
    
PROPERTIES
    
    
    OverquotaSignalled
CHECK_DEADLOCK FALSE
