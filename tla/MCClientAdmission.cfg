SPECIFICATION FairSpec
CONSTANTS
    g1 = g1
    g2 = g2
    g3 = g3
    ip1 = ip1
    ip2 = ip2
    ip3 = ip3
    Handlers <- MC_Handlers
    Hosts <- MC_Hosts
    MaxTotalConnections = 2
    MaxPerHostConnections = 1
    SessionBound = 2
INVARIANTS
    TypeOK
    ClientsAccounted
    AdmittedWithinTotal
    AdmittedWithinHost
PROPERTY
    AdmissionDecided
