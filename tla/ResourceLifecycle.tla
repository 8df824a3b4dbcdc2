-------------------------- MODULE ResourceLifecycle -------------------------
(***************************************************************************)
(* The life of one custom resource under the shared reconciler of          *)
(* internal/reconciler/reconciler.go: a user edits and deletes the object  *)
(* at the API server, the controller's worker reconciles it from an        *)
(* informer cache that may lag behind, and a remote resource is created,   *)
(* updated and deleted through the Aruba Cloud API.                        *)
(*                                                                         *)
(* An operator named X_Y is a fault seeded into X: the properties that     *)
(* guard against it fail when X is replaced by it.  Nothing else uses it.  *)
(*                                                                         *)
(* One reconciliation is split where another party can act: reading the    *)
(* cache (Get), the handler of the phase with its remote call or its       *)
(* metadata write, and the status write.  The API server accepts a write   *)
(* only of a copy that is still the stored version (resourceVersion).      *)
(***************************************************************************)
EXTENDS Integers, Sequences

CONSTANTS
    MaxPhaseTimeout,  \* maxPhaseTimeout, in clock ticks
    MaxGen,           \* bound: generations of the spec, one per edit
    MaxRemote,        \* bound: remote resources the account may hold
    MaxLag,           \* bound: watch events the cache may be behind
    MaxFaults         \* bound: crashes, failed logins, failed writes, lost replies

ASSUME LifecycleAssumption ==
    /\ MaxPhaseTimeout \in Nat \ {0}
    /\ MaxGen \in Nat \ {0}
    /\ MaxRemote \in Nat
    /\ MaxLag \in Nat \ {0}
    /\ MaxFaults \in Nat

VARIABLES
    history,  \* versions of the object: first the cached one, last the stored one
    pc,       \* what the worker does next
    obj,      \* the worker's copy of the object
    fresh,    \* obj's resourceVersion is the stored one
    queued,   \* the object's key is in the work queue
    remote,   \* remote resources created for this object, by identifier
    faults    \* faults so far

vars == <<history, pc, obj, fresh, queued, remote, faults>>

-----------------------------------------------------------------------------
(* The stored object. *)

Transitioning == {"Creating", "Provisioning", "Updating", "Deleting"}
Phases == Transitioning \cup {"", "Created", "Deleted", "Failed"}

\* Age of status.phaseStartTime, NoTime while it is unset.  Ages beyond the
\* timeout are all alike.
NoTime == -1
Overdue == MaxPhaseTimeout + 1
Ages == {NoTime} \cup 0..Overdue

Conditions == {"Unset", "True", "False"}

Object == [ live      : BOOLEAN,          \* stored; FALSE once removed
            gen       : 1..MaxGen,        \* metadata.generation: version of the spec
            deleting  : BOOLEAN,          \* metadata.deletionTimestamp is set
            finalizer : BOOLEAN,          \* our finalizer is among the finalizers
            phase     : Phases,           \* status.phase
            id        : 0..MaxRemote,     \* status.resourceID, 0 when empty
            obs       : 0..MaxGen,        \* status.observedGeneration
            age       : Ages,             \* status.phaseStartTime
            cond      : Conditions ]      \* condition Synchronized

NewObject == [live |-> TRUE, gen |-> 1, deleting |-> FALSE, finalizer |-> FALSE,
              phase |-> "", id |-> 0, obs |-> 0, age |-> NoTime, cond |-> "Unset"]

\* Remote states: "InCreation" and "Provisioning" of the code are the first,
\* "Available", "Active", "NotUsed" and "Used" the second, "Failed" and
\* "Error" the third.  A reply may also omit the state ("").
RemoteStates == {"InCreation", "Active", "Failed"}

\* Of the spec, a resource has the fields that updates send in generation gen, and
\* those that no update sends (a key pair's value, a volume's type, references but
\* for some of the cloud server's) in generation made.  denied remembers a DELETE that
\* was answered by 404 or 405 although the resource is there.
Resource == [state : RemoteStates \cup {"Deleted"}, gen : 1..MaxGen,
             made : 1..MaxGen, denied : BOOLEAN]

api == history[Len(history)]
cache == Head(history)

\* The API server stores v: a change is one more version for the watch to
\* deliver, a write that changes nothing is none.  A watch that falls too far
\* behind is resumed by a list, which skips the versions in between.
Stored(v) ==
    IF v = api THEN history
    ELSE IF Len(history) <= MaxLag THEN Append(history, v)
    ELSE [history EXCEPT ![Len(history)] = v]

\* An update of metadata: an object marked for deletion is removed with its
\* last finalizer.
WithMetadata(v) == [v EXCEPT !.live = v.finalizer \/ ~v.deleting]

\* The status subresource takes only the status from what it is sent.
WithStatus(v, o) == [v EXCEPT !.phase = o.phase, !.id = o.id, !.obs = o.obs,
                              !.age = o.age, !.cond = o.cond]

Aged(v) == [v EXCEPT !.age = IF v.live /\ v.age \in 0..MaxPhaseTimeout
                             THEN v.age + 1 ELSE v.age]

-----------------------------------------------------------------------------
(* The shared steps of every reconciliation. *)

\* The worker is done with this key until it is queued again.
Done == pc' = "idle" /\ obj' = NewObject /\ fresh' = FALSE

\* A returned error and a RequeueAfter both put the key back, later.
DoneAndRequeue == Done /\ queued' = TRUE

\* Next: a retry in the same phase is put off to the next multiple of
\* requeueAfter since the phase began, with nothing written.  The empty phase is
\* called "Initializing" there, so that it never equals the next phase.
SamePhase(o, next) == o.phase # "" /\ o.phase = next
Debounces(o, next, requeue) == requeue /\ SamePhase(o, next) /\ o.age # NoTime

Entering_RestartsClock(o, next, cond) ==
    [o EXCEPT !.phase = next, !.age = 0, !.obs = o.gen, !.cond = cond]
Entering_CountsAhead(o, next, cond) ==
    [o EXCEPT !.phase = next, !.age = IF SamePhase(o, next) THEN @ ELSE 0,
              !.obs = o.gen + 1, !.cond = cond]
Entering(o, next, cond) ==
    [o EXCEPT !.phase = next,
              !.age   = IF o.age = NoTime \/ ~SamePhase(o, next) THEN 0 ELSE o.age,
              !.obs   = o.gen,
              !.cond  = cond]

\* A retry that falls on a multiple exactly is written as any other change.  o is
\* the worker's copy by now, and current says whether it is the stored version.
NextPhaseOf(o, current, next, cond, requeue) ==
    \/ Debounces(o, next, requeue) /\ DoneAndRequeue
    \/ /\ pc' = "write"
       /\ obj' = Entering(o, next, cond)
       /\ fresh' = current
       /\ UNCHANGED queued
NextPhase(o, next, cond, requeue) == NextPhaseOf(o, fresh, next, cond, requeue)

ErrorKinds == {"InvalidStatus", "ClientError", "ServerError", "Unknown"}

\* 400, 404, 5xx and whatever is not an answer of the API are retried, any other
\* 4xx is final.
NextToFailedOnApiError(o, e) ==
    IF e = "ClientError" THEN NextPhase(o, "Failed", "False", FALSE)
                         ELSE NextPhase(o, o.phase, "False", TRUE)

\* NextToFailedOnReconcileError, which an error of the API server ends in.
NextToFailedOnReconcileError(o, current) == NextPhaseOf(o, current, o.phase, "False", TRUE)

\* A fault of the environment, at most MaxFaults of them.
Fault == faults < MaxFaults /\ faults' = faults + 1
NoFault == UNCHANGED faults

-----------------------------------------------------------------------------
(* Reconcile: Get, Authenticate, HandlePhaseTimeout, HandleToDelete, and the *)
(* handler of the phase.                                                     *)

Get ==
    /\ pc = "idle" /\ queued
    /\ queued' = FALSE
    /\ IF cache.live
       THEN pc' = "reconcile" /\ obj' = cache /\ fresh' = (Len(history) = 1)
       ELSE UNCHANGED <<pc, obj, fresh>>
    /\ NoFault /\ UNCHANGED <<history, remote>>

AuthenticateFails ==
    /\ pc = "reconcile"
    /\ DoneAndRequeue
    /\ Fault /\ UNCHANGED <<history, remote>>

TimedOut(o) ==
    /\ o.age # NoTime
    /\ o.phase \in Transitioning
    /\ o.age > MaxPhaseTimeout

HandlePhaseTimeout_RollsBack ==
    /\ pc = "reconcile" /\ TimedOut(obj)
    /\ NextPhase(obj, "Deleting", "False", FALSE)
    /\ NoFault /\ UNCHANGED <<history, remote>>
HandlePhaseTimeout ==
    /\ pc = "reconcile" /\ TimedOut(obj)
    /\ NextPhase(obj, "Failed", "False", FALSE)
    /\ NoFault /\ UNCHANGED <<history, remote>>

ShouldBeDeleted_EvenFailed(o) == o.phase # "Deleting" /\ o.deleting
ShouldBeDeleted_UnlessCreated(o) ==
    o.phase \notin {"Created", "Deleting", "Failed"} /\ o.deleting
ShouldBeDeleted(o) == o.phase \notin {"Deleting", "Failed"} /\ o.deleting

HandleToDelete ==
    /\ pc = "reconcile" /\ ~TimedOut(obj) /\ ShouldBeDeleted(obj)
    /\ NextPhase(obj, "Deleting", "False", TRUE)
    /\ NoFault /\ UNCHANGED <<history, remote>>

\* The switch of Reconcile on the phase.
Handling(p) ==
    pc = "reconcile" /\ ~TimedOut(obj) /\ ~ShouldBeDeleted(obj) /\ obj.phase = p

\* The update that adds the finalizer.
WithFinalizer_OnlyInMemory(v) == v
WithFinalizer(v) == WithMetadata([v EXCEPT !.finalizer = TRUE])

\* InitializeResource: add the finalizer, then enter Creating.  The update that
\* adds it is accepted, refused as out of date, or fails, and may then have been
\* accepted all the same.
InitializeResource ==
    /\ Handling("")
    /\ LET guarded == [obj EXCEPT !.finalizer = TRUE]
       IN  \/ /\ obj.finalizer
              /\ NextPhase(guarded, "Creating", "False", TRUE)
              /\ NoFault /\ UNCHANGED history
           \/ /\ ~obj.finalizer /\ fresh
              /\ history' = Stored(WithFinalizer(api))
              /\ NextPhase(guarded, "Creating", "False", TRUE)
              /\ NoFault
           \/ /\ ~obj.finalizer /\ ~fresh
              /\ NextToFailedOnReconcileError(guarded, FALSE)
              /\ NoFault /\ UNCHANGED history
           \/ /\ ~obj.finalizer /\ fresh
              /\ \/ UNCHANGED history /\ NextToFailedOnReconcileError(guarded, TRUE)
                 \/ /\ history' = Stored(WithFinalizer(api))
                    /\ NextToFailedOnReconcileError(guarded, FALSE)
              /\ Fault
    /\ UNCHANGED remote

\* A creation the remote side carries out, of the whole spec of o.
Adopted(o, s) ==
    Append(remote, [state |-> s, gen |-> o.gen, made |-> o.gen, denied |-> FALSE])

\* status.ResourceID = resourceID, of the resource just created.
Recorded_Never(o) == o
Recorded(o) == [o EXCEPT !.id = Len(remote) + 1]

\* HandleCreating: any state but the two of a creation under way counts as created.
Creating ==
    /\ Handling("Creating")
    /\ \/ \E s \in RemoteStates : \E shown \in {s, ""} :
            /\ Len(remote) < MaxRemote
            /\ remote' = Adopted(obj, s)
            /\ IF shown = "InCreation"
               THEN NextPhase(Recorded(obj), "Provisioning", "False", TRUE)
               ELSE NextPhase(Recorded(obj), "Created", "True", TRUE)
            /\ NoFault
       \/ \E e \in ErrorKinds :
            NextToFailedOnApiError(obj, e) /\ NoFault /\ UNCHANGED remote
       \/ \E s \in RemoteStates :   \* carried out, but the reply is lost
            /\ Len(remote) < MaxRemote
            /\ remote' = Adopted(obj, s)
            /\ NextToFailedOnApiError(obj, "Unknown")
            /\ Fault
    /\ UNCHANGED history

\* HandleProvisioning: the state of the remote resource decides.
Provisioning ==
    /\ Handling("Provisioning")
    /\ \/ \E shown \in {remote[obj.id].state, ""} :
            \/ shown = "Active" /\ NextPhase(obj, "Created", "True", TRUE)
            \/ shown = "Failed" /\ NextPhase(obj, "Failed", "True", FALSE)
            \/ shown \in {"InCreation", ""} /\ NextPhase(obj, "Provisioning", "True", TRUE)
       \/ \E e \in ErrorKinds : NextToFailedOnApiError(obj, e)
    /\ NoFault /\ UNCHANGED <<history, remote>>

\* The remote resource takes over the fields of o that an update sends; the others
\* stay as they were created.
Pushed_FirstSpec(o) == [remote EXCEPT ![o.id].gen = 1]
Pushed(o) == [remote EXCEPT ![o.id].gen = o.gen]

\* HandleUpdating: send what an update sends, then back to Created.  A resource that an old
\* copy still takes for existing answers with an error.
Updating ==
    /\ Handling("Updating")
    /\ \/ /\ remote[obj.id].state # "Deleted"
          /\ remote' = Pushed(obj)
          /\ NextPhase(obj, "Created", "True", TRUE)
          /\ NoFault
       \/ \E e \in ErrorKinds :
            NextToFailedOnApiError(obj, e) /\ NoFault /\ UNCHANGED remote
       \/ /\ remote[obj.id].state # "Deleted"
          /\ remote' = Pushed(obj)  \* carried out, but the reply is lost
          /\ NextToFailedOnApiError(obj, "Unknown")
          /\ Fault
    /\ UNCHANGED history

\* CheckForUpdates: a generation not yet observed starts an update.
NeedsUpdate_WhenAhead(o) == o.obs > o.gen
NeedsUpdate(o) == o.obs # o.gen

Created ==
    /\ Handling("Created")
    /\ \/ NeedsUpdate(obj) /\ NextPhase(obj, "Updating", "False", TRUE)
       \/ ~NeedsUpdate(obj) /\ Done /\ UNCHANGED queued
    /\ NoFault /\ UNCHANGED <<history, remote>>

\* DoAPIRequest takes a 404 or 405 that answers a DELETE for a success.  Either the
\* recorded resource is gone now, or the call named none, or a resource that is
\* already gone ...
Erased(o) == IF o.id = 0 THEN remote ELSE [remote EXCEPT ![o.id].state = "Deleted"]

\* ... or it is there and could not be deleted ("they use 400 and 404 even if the
\* resource is not ready"): it stays.
Exists(o) == o.id # 0 /\ remote[o.id].state # "Deleted"
Denied(o) == [remote EXCEPT ![o.id].denied = TRUE]

\* The remote side refuses the deletion; of the statuses "InvalidStatus" stands for,
\* only 400 is an error here.
DeletionRefused_TakenForGone(e) ==
    IF e = "ServerError" THEN pc' = "unfinalize" /\ UNCHANGED <<obj, fresh, queued>>
                           ELSE NextToFailedOnApiError(obj, e)
DeletionRefused(e) == NextToFailedOnApiError(obj, e)

\* HandleDeletion, the remote call.
Deleting ==
    /\ Handling("Deleting")
    /\ \/ /\ \/ remote' = Erased(obj)
             \/ Exists(obj) /\ remote' = Denied(obj)
          /\ pc' = "unfinalize"
          /\ NoFault /\ UNCHANGED <<obj, fresh, queued>>
       \/ \E e \in ErrorKinds : DeletionRefused(e) /\ NoFault /\ UNCHANGED remote
       \/ /\ remote' = Erased(obj)  \* carried out, but the reply is lost
          /\ NextToFailedOnApiError(obj, "Unknown")
          /\ Fault
    /\ UNCHANGED history

WithoutFinalizer(v) == WithMetadata([v EXCEPT !.finalizer = FALSE])

\* HandleDeletion, the update that takes the finalizer away, with the outcomes of
\* the one that adds it.
RemoveFinalizer ==
    /\ pc = "unfinalize"
    /\ LET released == [obj EXCEPT !.finalizer = FALSE]
       IN  \/ /\ fresh
              /\ history' = Stored(WithoutFinalizer(api))
              /\ Done
              /\ NoFault /\ UNCHANGED queued
           \/ /\ ~fresh
              /\ NextToFailedOnReconcileError(released, FALSE)
              /\ NoFault /\ UNCHANGED history
           \/ /\ fresh
              /\ \/ UNCHANGED history /\ NextToFailedOnReconcileError(released, TRUE)
                 \/ /\ history' = Stored(WithoutFinalizer(api))
                    /\ NextToFailedOnReconcileError(released, FALSE)
              /\ Fault
    /\ UNCHANGED remote

\* Phases in which Reconcile does nothing.
NothingToDo ==
    /\ pc = "reconcile" /\ ~ShouldBeDeleted(obj)
    /\ obj.phase \in {"Deleted", "Failed"}
    /\ Done
    /\ NoFault /\ UNCHANGED <<history, queued, remote>>

\* Status().Update at the end of Next: accepted, refused because the object has
\* changed meanwhile, failed, or accepted with its reply lost.  Every outcome
\* brings the key back.
Acceptable_Always == api.live
Acceptable == fresh

StatusUpdate ==
    /\ pc = "write"
    /\ \/ /\ Acceptable
          /\ history' = Stored(WithStatus(api, obj))
          /\ NoFault
       \/ ~Acceptable /\ NoFault /\ UNCHANGED history
       \/ /\ Acceptable
          /\ history' \in {history, Stored(WithStatus(api, obj))}
          /\ Fault
    /\ DoneAndRequeue
    /\ UNCHANGED remote

Worker ==
    \/ Get \/ HandlePhaseTimeout \/ HandleToDelete
    \/ InitializeResource \/ Creating \/ Provisioning \/ Updating \/ Created
    \/ Deleting \/ RemoveFinalizer \/ NothingToDo \/ StatusUpdate

-----------------------------------------------------------------------------
(* The world around the worker. *)

UserEdit ==
    /\ api.live /\ api.gen < MaxGen
    /\ history' = Stored([api EXCEPT !.gen = @ + 1])
    /\ fresh' = FALSE
    /\ NoFault /\ UNCHANGED <<pc, obj, queued, remote>>

UserDelete ==
    /\ api.live /\ ~api.deleting
    /\ history' = Stored(WithMetadata([api EXCEPT !.deleting = TRUE]))
    /\ fresh' = FALSE
    /\ NoFault /\ UNCHANGED <<pc, obj, queued, remote>>

\* The informer takes over the next version and its event queues the key.
WatchDeliver ==
    /\ Len(history) > 1
    /\ history' = Tail(history)
    /\ queued' = TRUE
    /\ NoFault /\ UNCHANGED <<pc, obj, fresh, remote>>

RemoteProgress ==
    /\ \E r \in DOMAIN remote : \E s \in {"Active", "Failed"} :
         /\ remote[r].state = "InCreation"
         /\ remote' = [remote EXCEPT ![r].state = s]
    /\ NoFault /\ UNCHANGED <<history, pc, obj, fresh, queued>>

Tick ==
    /\ history' = [i \in 1..Len(history) |-> Aged(history[i])]
    /\ obj' = Aged(obj)
    /\ <<history', obj'>> # <<history, obj>>
    /\ NoFault /\ UNCHANGED <<pc, fresh, queued, remote>>

\* The operator is restarted: what the worker and the queue held is gone, the
\* informer lists the objects anew and queues them.
Crash ==
    /\ history' = <<api>>
    /\ Done
    /\ queued' = api.live
    /\ Fault /\ UNCHANGED remote

Init ==
    /\ history = <<NewObject>>
    /\ pc = "idle" /\ obj = NewObject /\ fresh = FALSE
    /\ queued = TRUE
    /\ remote = <<>>
    /\ faults = 0

Next ==
    \/ Worker \/ AuthenticateFails \/ Crash
    \/ UserEdit \/ UserDelete \/ WatchDeliver \/ RemoteProgress \/ Tick

Spec == Init /\ [][Next]_vars

\* The controller keeps working off its queue, watch events arrive and time
\* passes.  Nothing is assumed of the user, the remote side or the faults.
FairSpec == Spec /\ WF_vars(Worker) /\ WF_vars(WatchDeliver) /\ WF_vars(Tick)

-----------------------------------------------------------------------------
(* Properties. *)

\* Every variable, and every version of the object, is of its type.
TypeOK ==
    /\ history \in Seq(Object) /\ history # <<>>
    /\ pc \in {"idle", "reconcile", "write", "unfinalize"}
    /\ obj \in Object
    /\ fresh \in BOOLEAN
    /\ queued \in BOOLEAN
    /\ remote \in Seq(Resource) /\ Len(remote) <= MaxRemote
    /\ faults \in 0..MaxFaults

\* No remote resource is ever created for an object that could vanish without
\* the reconciler seeing it: while the object is stored it carries the finalizer.
\* (InitializeResource writes the finalizer before the phase that creates.)
FinalizerGuardsRemote == remote # <<>> /\ api.live => api.finalizer

\* A remote resource is deleted only after the user asked for the deletion and
\* phase Deleting was stored (HandleToDelete, then HandleDeletion), however old
\* the copy is that the worker acts on.
DeletedOnlyOnRequest ==
    \A r \in DOMAIN remote :
        remote[r].state = "Deleted" =>
            api.deleting /\ (api.live => api.phase \in {"Deleting", "Failed"})

\* An object goes only with the resource it recorded, or after a DELETE of that
\* resource was answered by 404 or 405: whatever fails, times out or is lost, no
\* pass takes the finalizer away before (HandleDeletion).
TakenForDeleted(r) == remote[r].state = "Deleted" \/ remote[r].denied
GoneWithResourceOrDenied == ~api.live /\ api.id # 0 => TakenForDeleted(api.id)

\* The handlers that update or ask for a remote resource have an identifier to name
\* it with, and the one that creates has none to lose.
IdentifierMatchesPhase ==
    /\ api.phase \in {"", "Creating"} => api.id = 0
    /\ api.phase \in {"Provisioning", "Created", "Updating"} => api.id \in DOMAIN remote

\* When an update is reported as Created, the remote resource has the stored spec in
\* every field an update sends, and when a creation that finished at once is, in
\* every field: an edit that arrives between the remote call and the status write is
\* not covered up by it.
ReportedFieldsAreStored ==
    [][ /\ api.phase \in {"Creating", "Updating"}
        /\ api'.phase = "Created"
        => /\ remote'[api'.id].gen = api'.gen
           /\ api.phase = "Creating" => remote'[api'.id].made = api'.gen
           /\ api'.obs = api'.gen ]_vars

\* The fields an update sends never go back to an older version at the remote side.
RemoteSpecAdvances ==
    [][ \A r \in DOMAIN remote : remote'[r].gen >= remote[r].gen ]_vars

\* An edit of a field that updates send is lost when nothing is left to notice it by:
\* the object is Created, the generation counts as observed, and the remote resource
\* has an older value.  Only the status write that ends Provisioning, which sends
\* nothing and observes what is stored (Next: ObservedGeneration = Generation), loses
\* one so.  (Edits of the other fields are lost by every update.)
Behind ==
    /\ api.phase = "Created" /\ api.obs = api.gen
    /\ remote[api.id].gen # api.gen
SentFieldLostOnlyByProvisioning ==
    [][ ~Behind /\ Behind' => api.phase = "Provisioning" ]_vars

\* A remote resource that no record names and no status write is about to name is
\* never deleted by anyone.  HandleCreating leaves one only by a fault (a restart, a
\* lost reply or write) or by acting on a copy that is not the stored version: one
\* changed under the worker, or one old when it was read, be it only behind the
\* operator's own last write.  A pass that reads what is stored, undisturbed, records
\* what it creates.
Unrecorded == {r \in DOMAIN remote : r # api.id /\ ~(pc = "write" /\ obj.id = r)}
LostOnlyByFaultOrStaleCopy ==
    [][ \A r \in Unrecorded' \ Unrecorded : faults' # faults \/ ~fresh ]_vars

\* Why the above hold: how the cached versions and the worker's copy relate to the
\* stored object, whatever happened in between.
Versions == {history[i] : i \in 1..Len(history)}

\* A version on its own: an object past its first phase, or kept although it is to
\* be deleted, carries the finalizer; only an object to be deleted is in Deleting;
\* and the identifier fits the phase.
Sound(v) ==
    /\ v.live /\ (v.phase # "" \/ v.deleting) => v.finalizer
    /\ v.phase = "Deleting" => v.deleting
    /\ v.phase \in {"", "Creating"} => v.id = 0
    /\ v.phase \in {"Provisioning", "Created", "Updating"} => v.id # 0
    /\ v.id \in 0..Len(remote)

\* What a version v says for ever about any later version w.
Outlasts(v, w) ==
    /\ w.live => v.live
    /\ v.finalizer /\ w.live => w.finalizer
    /\ v.deleting => w.deleting
    /\ v.phase = "Deleting" => w.phase \in {"Deleting", "Failed"}
    /\ v.phase = "Failed" => w.phase = "Failed"
    /\ v.phase \notin {"", "Creating"} => w.phase \notin {"", "Creating"}
    /\ v.phase # "" => w.phase # ""
    /\ v.id # 0 => w.id = v.id

\* The changes of status a handler may ask for, of an object stored as v.
Moves(v, next, id) ==
    \/ next = v.phase /\ id = v.id
    \/ v.phase = "" /\ next = "Creating" /\ id = v.id
    \/ v.phase = "Creating" /\ next \in {"Provisioning", "Created"} /\ id # 0
    \/ /\ <<v.phase, next>> \in { <<"Provisioning", "Created">>,
                                   <<"Created", "Updating">>,
                                   <<"Updating", "Created">> }
       /\ id = v.id
    \/ v.phase \in Transitioning /\ next = "Failed" /\ id = v.id
    \/ v.deleting /\ v.phase # "Failed" /\ next = "Deleting" /\ id = v.id

\* The worker's copy, while the handler runs and while a status is to be written.
WorkerInv ==
    /\ pc = "idle" => ~fresh
    /\ pc \in {"reconcile", "unfinalize"} =>
         /\ Sound(obj) /\ obj.live /\ Outlasts(obj, api)
         /\ fresh => obj = api
    /\ pc = "unfinalize" =>
         /\ obj.phase = "Deleting"
         /\ obj.id # 0 => TakenForDeleted(obj.id)
    /\ pc = "write" /\ fresh =>
         /\ api.live
         /\ obj.id <= Len(remote)
         /\ obj.phase # "" => api.finalizer
         /\ Moves(api, obj.phase, obj.id)

LifecycleInv ==
    /\ \A v \in Versions : Sound(v) /\ Outlasts(v, api)
    /\ WorkerInv
    /\ FinalizerGuardsRemote
    /\ DeletedOnlyOnRequest
    /\ GoneWithResourceOrDenied

\* What the API server stores goes through the stages of ResourceContract.
Contract == INSTANCE ResourceContract
            WITH live <- api.live, deleting <- api.deleting,
                 phase <- api.phase, id <- api.id
ImplementsContract == Contract!ContractSpec

\* What the operator does to the user's account keeps to RemoteContract: it touches
\* the resource on record alone, never sends an older spec, deletes only on request,
\* and leaves alone what is deleted.
Remote == INSTANCE RemoteContract
          WITH account <- remote, wanted <- api.gen,
               requested <- api.deleting, recorded <- api.id
ImplementsRemoteContract == Remote!RemoteSpec

\* No phase that is under way lasts for ever (HandlePhaseTimeout).
TransitionEnds ==
    \A p \in Transitioning :
        (api.live /\ api.phase = p) ~> (~api.live \/ api.phase # p)

\* An edit of an object that is Created is noticed (CheckForUpdates).
EditIsNoticed ==
    (api.live /\ api.phase = "Created" /\ api.obs # api.gen)
        ~> (~api.live \/ api.phase # "Created")

\* A requested deletion comes to an end: the object is gone, or it is Failed.
DeletionSettles ==
    (api.live /\ api.deleting) ~> (~api.live \/ api.phase = "Failed")
=============================================================================
