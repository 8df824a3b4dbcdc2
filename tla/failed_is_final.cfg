\* No faults: a refused creation leads to Failed.
CONSTANTS
    MaxPhaseTimeout = 1
    MaxGen = 2
    MaxRemote = 1
    MaxLag = 1
    MaxFaults = 0
SPECIFICATION FairSpec
PROPERTY FailedCanBeLeft
CHECK_DEADLOCK FALSE
