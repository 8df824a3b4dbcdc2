\* No faults: an edit during the provisioning and one afterwards are enough.
CONSTANTS
    MaxPhaseTimeout = 1
    MaxGen = 3
    MaxRemote = 1
    MaxLag = 1
    MaxFaults = 0
SPECIFICATION FairSpec
PROPERTY EditsArePropagated
CHECK_DEADLOCK FALSE
