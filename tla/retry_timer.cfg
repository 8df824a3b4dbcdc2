\* Intervals of 3, a timeout of 9, which is a multiple as the code's 5 minutes are of
\* 20 seconds, and delays after an error up to nearly two intervals.
SPECIFICATION Spec
CONSTANTS
    RequeueAfter = 3
    MaxPhaseTimeout = 9
    MaxSkew = 1
    MaxBackoff = 5
    MaxAge = 22
    MaxEvents = 2
    MaxErrors = 2
INVARIANTS
    TypeOK
    TimeoutIsNoticed
    
\* A phase that has ended is the end.
CHECK_DEADLOCK FALSE
