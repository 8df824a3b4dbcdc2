SPECIFICATION Spec
CONSTANTS
    Volumes = {"data1"}
    Props = {"plain", "addressed"}
    Addressed = {"addressed"}
    MaxGen = 2
    MaxFaults = 0
INVARIANT
    SettledServerHasItsProperties
CHECK_DEADLOCK FALSE
