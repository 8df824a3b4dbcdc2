\* One edit, one remote resource, one fault.
CONSTANTS
    MaxPhaseTimeout = 1
    MaxGen = 2
    MaxRemote = 1
    MaxLag = 1
    MaxFaults = 1
SPECIFICATION FairSpec
PROPERTIES
    TransitionEnds
    EditIsNoticed
    DeletionSettles
CHECK_DEADLOCK FALSE
