----------------------------- MODULE CloudServer ----------------------------
(***************************************************************************)
(* The part of the cloud server's life that is its controller's own: a     *)
(* server in phase Created whose spec is edited, whose properties are sent *)
(* again and whose data volumes are attached and detached                  *)
(* (cloudserver_controller.go).  Creation, deletion and the references     *)
(* are those of ResourceLifecycle and References.                          *)
(*                                                                         *)
(* A pass of the worker is split where another party can act: the handler  *)
(* up to its first call, the call for the volumes, and the status write.   *)
(*                                                                         *)
(* An operator named X_Y is a fault seeded into X, used by nothing else.   *)
(***************************************************************************)
EXTENDS Integers

CONSTANTS
    Volumes,    \* BlockStorage objects a server may refer to
    Props,      \* the other properties a user may give a server
    Addressed,  \* those of them with an elastic address
    MaxGen,     \* bound: generations of the spec, one per edit
    MaxFaults   \* bound: lost replies and lost writes

ASSUME CloudServerAssumption ==
    /\ Addressed \subseteq Props
    /\ "props" \notin Volumes
    /\ MaxGen \in Nat \ {0}
    /\ MaxFaults \in Nat

VARIABLES
    server,  \* the stored object
    seen,    \* the object as the informer cache shows it
    work,    \* the pass of the worker
    remote,  \* the server at the Aruba Cloud API
    named,   \* the volumes whose objects have an identifier, in the cache
    unsure,  \* history: what a call has changed and no stored status has recorded
    faults   \* faults so far

vars == <<server, seen, work, remote, named, unsure, faults>>

-----------------------------------------------------------------------------
(* The object, its server, and the pass that brings them together. *)

Object == [ phase    : {"Created", "Updating", "Failed"},
            gen      : 1..MaxGen,        \* metadata.generation
            obs      : 1..MaxGen,        \* status.observedGeneration
            want     : SUBSET Volumes,   \* spec.dataVolumeReferences
            props    : Props,            \* of the rest of the spec, what updates send
            attached : SUBSET Volumes,   \* status.dataVolumeIDs
            nets     : Props,            \* whose subnets and groups the status lists
            address  : BOOLEAN ]         \* status.elasticIpID is set

Server == [volumes : SUBSET Volumes, props : Props]

\* A volume, or the properties as a whole.
AllProps == {"props"}
Parts == Volumes \cup AllProps

\* A pass under way: the copy it has read, the copy with its changes in memory,
\* and the parts of the server it has changed.
Pass == [at : {"volumes", "write"}, read : Object, copy : Object, touched : SUBSET Parts]
NoPass == [at |-> "idle"]
Idle == work = NoPass

\* What the last lines of Next put into the status.
Entering_CountsAhead(o, phase) == [o EXCEPT !.phase = phase, !.obs = @ + 1]
Entering(o, phase) == [o EXCEPT !.phase = phase, !.obs = o.gen]

\* The status write of Next is all that is left of the pass.
GoTo(read, copy, touched, phase) ==
    work' = [at |-> "write", read |-> read, copy |-> Entering(copy, phase),
             touched |-> touched]

\* A retry in the same phase: put off with nothing written, what is in memory
\* forgotten, or written when it falls on a multiple of the interval.
Retry(read, copy, touched) ==
    work' = NoPass \/ GoTo(read, copy, touched, read.phase)

\* NextToFailedOnApiError: an error is final or not.
Fail(read, copy, touched) ==
    Retry(read, copy, touched) \/ GoTo(read, copy, touched, "Failed")

Fault == faults < MaxFaults /\ faults' = faults + 1
NoFault == UNCHANGED faults

-----------------------------------------------------------------------------
(* The handlers. *)

\* CalculateVolumeChanges
CalculateVolumeChanges_OfRecordedOnly(desired, current) ==
    [toAttach |-> IF current = {} THEN {} ELSE desired \ current,
     toDetach |-> current \ desired]
CalculateVolumeChanges(desired, current) ==
    [toAttach |-> desired \ current, toDetach |-> current \ desired]

NothingToDo == [toAttach |-> {}, toDetach |-> {}]

\* resolveAndCheckDataVolumes: one volume object without an identifier and the
\* lookup is an error.
Resolvable(o) == o.want \subseteq named
Changes(o) == CalculateVolumeChanges(o.want, o.attached)

\* The volumes come first: while one of them cannot be looked up, no edit of the
\* properties is noticed either.
Created ==
    /\ Idle /\ seen.phase = "Created"
    /\ \/ ~Resolvable(seen) /\ Retry(seen, seen, {})
       \/ /\ Resolvable(seen)
          /\ Changes(seen) # NothingToDo \/ seen.obs # seen.gen
          /\ GoTo(seen, seen, {}, "Updating")
    /\ NoFault /\ UNCHANGED <<server, seen, remote, named, unsure>>

\* The generation was observed when the phase was entered; only an edit that came
\* later makes it differ.
NeedsPropertyUpdate(o) == o.obs # o.gen

\* What a property update leaves in memory.  The variable that should hold the
\* address is shadowed: its identifier is always empty.
WithProperties(o) == [o EXCEPT !.nets = o.props, !.address = FALSE]

\* Updating, its first half: the properties.  The lookup or the call fails, or the
\* call is carried out and the reply is lost.  The request has the tags, the location
\* and the references to address, subnets and groups; an edit of anything else in the
\* spec (the flavor, the VPC, the boot volume, ...) is never sent and is not in props.
UpdateProperties ==
    /\ Idle /\ seen.phase = "Updating" /\ NeedsPropertyUpdate(seen)
    /\ \/ /\ remote' = [remote EXCEPT !.props = seen.props]
          /\ work' = [at |-> "volumes", read |-> seen, copy |-> WithProperties(seen),
                      touched |-> AllProps]
          /\ unsure' = unsure \cup AllProps
          /\ NoFault
       \/ Fail(seen, seen, {}) /\ NoFault /\ UNCHANGED <<remote, unsure>>
       \/ /\ remote' = [remote EXCEPT !.props = seen.props]
          /\ Retry(seen, seen, {})
          /\ unsure' = unsure \cup AllProps
          /\ Fault
    /\ UNCHANGED <<server, seen, named>>

Attached(changes) ==
    [remote EXCEPT !.volumes = (@ \cup changes.toAttach) \ changes.toDetach]

\* status.DataVolumeIDs after the call.
Recorded(copy) == [copy EXCEPT !.attached = copy.want]

\* manageDataVolumesInUpdate, for the object as read and as changed in memory.
\* Attaching what is attached and detaching what is not changes nothing.
ManageVolumes(read, copy, touched) ==
    LET changes == Changes(copy)
        moved   == changes.toAttach \cup changes.toDetach
    IN  \/ /\ ~Resolvable(copy)
           /\ Retry(read, copy, touched)
           /\ NoFault /\ UNCHANGED <<remote, unsure>>
        \/ /\ Resolvable(copy) /\ moved = {}
           /\ GoTo(read, copy, touched, "Created")
           /\ NoFault /\ UNCHANGED <<remote, unsure>>
        \/ /\ Resolvable(copy) /\ moved # {}
           /\ \/ /\ remote' = Attached(changes)
                 /\ GoTo(read, Recorded(copy), touched \cup moved, "Created")
                 /\ unsure' = unsure \cup moved
                 /\ NoFault
              \/ /\ Fail(read, copy, touched)
                 /\ NoFault /\ UNCHANGED <<remote, unsure>>
              \/ /\ remote' = Attached(changes)  \* the reply is lost
                 /\ Retry(read, copy, touched)
                 /\ unsure' = unsure \cup moved
                 /\ Fault

\* Updating, its second half: after the properties, or at once.
UpdateVolumes ==
    /\ \/ Idle /\ seen.phase = "Updating" /\ ~NeedsPropertyUpdate(seen)
          /\ ManageVolumes(seen, seen, {})
       \/ work.at = "volumes" /\ ManageVolumes(work.read, work.copy, work.touched)
    /\ UNCHANGED <<server, seen, named>>

\* HandlePhaseTimeout: an update has taken five minutes.
TimeOut ==
    /\ Idle /\ seen.phase = "Updating"
    /\ GoTo(seen, seen, {}, "Failed")
    /\ NoFault /\ UNCHANGED <<server, seen, remote, named, unsure>>

\* The API server stores the status if the object is still as it was read.
StatusUpdate_Forced ==
    /\ work.at = "write" /\ work' = NoPass
    /\ server' = [work.copy EXCEPT !.gen = server.gen, !.want = server.want,
                                   !.props = server.props]
    /\ unsure' = unsure \ work.touched
    /\ NoFault /\ UNCHANGED <<seen, remote, named>>
StatusUpdate ==
    /\ work.at = "write" /\ work' = NoPass
    /\ \/ /\ work.read = server
          /\ server' = work.copy
          /\ unsure' = unsure \ work.touched
          /\ NoFault
       \/ work.read # server /\ NoFault /\ UNCHANGED <<server, unsure>>
       \/ Fault /\ UNCHANGED <<server, unsure>>
    /\ UNCHANGED <<seen, remote, named>>

Worker == Created \/ UpdateProperties \/ UpdateVolumes \/ StatusUpdate

-----------------------------------------------------------------------------
(* The world around the worker. *)

\* An edit of something that no update sends changes the generation and nothing else here.
UserEdit ==
    /\ server.gen < MaxGen
    /\ \E want \in SUBSET Volumes, props \in Props :
         server' = [server EXCEPT !.gen = @ + 1, !.want = want, !.props = props]
    /\ NoFault /\ UNCHANGED <<seen, work, remote, named, unsure>>

\* The cache catches up; that it shows the versions in between is left out.
Deliver ==
    /\ seen # server /\ seen' = server
    /\ NoFault /\ UNCHANGED <<server, work, remote, named, unsure>>

\* A BlockStorage object that is referred to gets its identifier; while it is referred
\* to, it is not replaced by another.
VolumeCreated(v) ==
    /\ v \in Volumes \ named /\ named' = named \cup {v}
    /\ NoFault /\ UNCHANGED <<server, seen, work, remote, unsure>>

\* A server just created: creation attaches no data volumes.
Init ==
    /\ \E want \in SUBSET Volumes, props \in Props :
         /\ server = [phase |-> "Created", gen |-> 1, obs |-> 1, want |-> want,
                      props |-> props, attached |-> {}, nets |-> props,
                      address |-> props \in Addressed]
         /\ remote = [volumes |-> {}, props |-> props]
    /\ seen = server
    /\ work = NoPass
    /\ named \in SUBSET Volumes
    /\ unsure = {}
    /\ faults = 0

Next ==
    \/ Worker \/ TimeOut \/ UserEdit \/ Deliver
    \/ \E v \in Volumes : VolumeCreated(v)

Spec == Init /\ [][Next]_vars

\* The worker runs, the watch delivers and every volume is created in the end; an
\* update that is taken up again and again meets its timeout.
Fairness ==
    /\ WF_vars(Worker) /\ WF_vars(Deliver) /\ SF_vars(TimeOut)
    /\ \A v \in Volumes : WF_vars(VolumeCreated(v))
FairSpec == Spec /\ Fairness

-----------------------------------------------------------------------------
(* Properties. *)

TypeOK ==
    /\ server \in Object /\ seen \in Object
    /\ work \in Pass \cup {NoPass}
    /\ remote \in Server
    /\ named \subseteq Volumes
    /\ unsure \subseteq Parts
    /\ faults \in 0..MaxFaults

\* The status lists a volume exactly when it is attached, and the subnets and groups
\* the server was given, except where a call was carried out and the status write
\* after it was refused, lost or put off (Updating changes the status in memory only,
\* and a later pass repairs what it takes up again).
StatusTellsServer ==
    /\ \A v \in Volumes \ unsure : v \in server.attached <=> v \in remote.volumes
    /\ "props" \notin unsure => server.nets = remote.props

\* An update that is reported as done has recorded the volumes of the very spec that
\* is stored, and subnets and groups are recorded of no other spec either, although the
\* handler took both from a copy that edits may have overtaken (Updating, and the
\* resourceVersion of the status write in Next).
RecordsWhatIsWanted ==
    [][ /\ server.phase = "Updating" /\ server'.phase = "Created"
             => server'.attached = server'.want
        /\ server'.nets # server.nets => server'.nets = server'.props ]_vars

\* The controller's own handlers lead through the stages of ResourceContract, as
\* those of the shared reconciler do: out of Failed leads no way, and only an update
\* under way fails.
C == INSTANCE ResourceContract
     WITH live <- TRUE, deleting <- FALSE, phase <- server.phase, id <- 1
FollowsContract == [][C!ContractNext]_(server.phase)

\* When edits have come to an end, the volumes the status lists become the ones the
\* spec wants, or the object fails, whatever replies and writes were lost (Created
\* compares the two on every pass).
VolumeRecordSettles == <>[](server.phase = "Failed" \/ server.attached = server.want)

\* A server in phase Created with its generation observed and all volumes recorded has
\* the properties of its spec ("Check if we need to update cloud server properties
\* (generation mismatch)", cloudserver_controller.go:206).
SettledServerHasItsProperties ==
    server.phase = "Created" /\ server.obs = server.gen /\ server.attached = server.want
        => remote.props = server.props
=============================================================================
