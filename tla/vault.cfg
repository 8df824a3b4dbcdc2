SPECIFICATION FairSpec
CONSTANTS
    Leases = {4, 12, 60}
    LeastBefore = 10
    MaxFaults = 2
INVARIANTS
    TypeOK
    RenewedInTime
PROPERTIES
    TokenComesBack
    EarlyCloseIsIgnored
