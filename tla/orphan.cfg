\* No faults and no edits: a copy older than the operator's own last write and a denied
\* deletion are enough.
CONSTANTS
    MaxPhaseTimeout = 1
    MaxGen = 1
    MaxRemote = 2
    MaxLag = 1
    MaxFaults = 0
SPECIFICATION Spec
INVARIANT GoneLeavesNothingBehind
CHECK_DEADLOCK FALSE
