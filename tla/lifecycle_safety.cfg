\* Two edits of the spec, two remote resources, a cache one version behind (or,
\* after a relist, any number), one fault.
CONSTANTS
    MaxPhaseTimeout = 1
    MaxGen = 3
    MaxRemote = 2
    MaxLag = 1
    MaxFaults = 1
SPECIFICATION Spec
INVARIANTS
    TypeOK
    FinalizerGuardsRemote
    DeletedOnlyOnRequest
    GoneWithResourceOrDenied
    IdentifierMatchesPhase
    LifecycleInv
PROPERTIES
    ReportedFieldsAreStored
    RemoteSpecAdvances
    ImplementsContract
    ImplementsRemoteContract
    SentFieldLostOnlyByProvisioning
    LostOnlyByFaultOrStaleCopy
\* An object that is gone, with nothing queued, takes no further step.
CHECK_DEADLOCK FALSE
