SPECIFICATION FairSpec
CONSTANTS
    Workers = {"vpcs", "disks"}
    Tenants = {"t1", "t2"}
    Life = 5
    Margin = 4
    MaxPass = 1
INVARIANTS
    TypeOK
    OwnTokenUnlessCrossed
    NoExpiredToken
PROPERTIES
    EveryPassEnds
