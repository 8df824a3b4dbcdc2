SPECIFICATION Spec
CONSTANTS
    Objects = {"project", "net1", "net2", "subnet", "group", "rule", "disk", "address", "key", "server"}
    Begins <- MCBegins
    Touched = {"net1", "group", "rule"}
    KindOf <- MCKindOf
    Choices <- MCChoices
    FirstRefs <- MCFirstRefs
    MaxRemote = 2
    MaxDoings = 2
INVARIANTS
    TypeOK
    AddressNamesItsResource
PROPERTIES
    RemovalReachesRecordedResource
    FollowsContract
    ChildOfCurrentParents
    DeathsAreRequested
CHECK_DEADLOCK FALSE
