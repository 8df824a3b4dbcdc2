SPECIFICATION FairSpec
CONSTANTS
    Volumes = {"data1", "data2"}
    Props = {"plain", "addressed"}
    Addressed = {"addressed"}
    MaxGen = 3
    MaxFaults = 2
INVARIANTS
    TypeOK
    StatusTellsServer
PROPERTIES
    VolumeRecordSettles
    RecordsWhatIsWanted
    FollowsContract
CHECK_DEADLOCK FALSE
