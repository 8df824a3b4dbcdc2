------------------------ MODULE RemoteContract_proofs -----------------------
(***************************************************************************)
(* What the operator does to the account of its user: ResourceLifecycle    *)
(* implements RemoteContract, and an edit of a field that updates send, or *)
(* a resource, gets lost in no other way than those stated.  On top of the *)
(* invariants of ResourceLifecycle_proofs and DeliveredSpec_proofs, a      *)
(* status that waits to be written is related to what is stored.           *)
(***************************************************************************)
EXTENDS DeliveredSpec_proofs

-----------------------------------------------------------------------------
(* The invariant. *)

\* A status that will be accepted observes the stored generation, reports Created only
\* of a phase that leads there, and records no other resource than the last one.
PendingInv ==
    pc = "write" /\ fresh =>
        /\ obj.obs = api.gen
        /\ obj.phase = "Created" => api.phase \in {"Creating", "Provisioning", "Updating"}
        /\ obj.id # api.id => obj.id = Len(remote)

\* No generation is observed before it is there.
ObservedInv == api.obs <= api.gen

AccountInv == PendingInv /\ ObservedInv

-----------------------------------------------------------------------------
(* How the stored object changes. *)

\* Nothing of what this module is about has changed in the stored object ...
Same == /\ api'.gen = api.gen /\ api'.deleting = api.deleting
        /\ api'.phase = api.phase /\ api'.id = api.id /\ api'.obs = api.obs

\* ... or the user has changed it, or a status write that was up to date.
Edited == /\ UserEdit
          /\ api'.gen = api.gen + 1 /\ api'.deleting = api.deleting
          /\ api'.phase = api.phase /\ api'.id = api.id /\ api'.obs = api.obs
Marked == /\ UserDelete
          /\ api'.deleting = TRUE
          /\ api'.gen = api.gen /\ api'.phase = api.phase
          /\ api'.id = api.id /\ api'.obs = api.obs
Written == /\ StatusUpdate /\ fresh
           /\ api'.gen = api.gen /\ api'.deleting = api.deleting
           /\ api'.phase = obj.phase /\ api'.id = obj.id /\ api'.obs = obj.obs

\* The writes of the finalizer, deliveries, restarts and time leave alone what is compared.
LEMMA SameStep ==
    ASSUME TypeOK,
           \/ history' = history
           \/ history' = Stored(WithFinalizer(api)) \/ history' = Stored(WithoutFinalizer(api))
           \/ WatchDeliver \/ Crash \/ Tick
    PROVE  Same
<1>1. api \in Object
  BY VersionsAreObjects DEF TypeOK
<1>2. CASE history' = history
  BY <1>2 DEF Same, api
<1>3. CASE WatchDeliver \/ Crash
  BY <1>3, DroppedVersions DEF WatchDeliver, Crash, TypeOK, Same
<1>4. CASE Tick
  <2>1. api' = Aged(api)
    BY <1>4, AgedVersions DEF Tick, TypeOK
  <2>2. Aged(api).obs = api.obs
    BY <1>1 DEF Aged, Object
  <2> QED
    BY <1>1, <2>1, <2>2, AgedSame DEF Same
<1>5. CASE history' = Stored(WithFinalizer(api)) \/ history' = Stored(WithoutFinalizer(api))
  <2>1. api' = WithFinalizer(api) \/ api' = WithoutFinalizer(api)
    BY <1>1, <1>5, WrittenType, StoredVersion DEF TypeOK
  <2> QED
    BY <1>1, <2>1 DEF Same, WithFinalizer, WithoutFinalizer, WithMetadata, Object
<1> QED
  BY <1>2, <1>3, <1>4, <1>5

\* Every step is of one of these kinds.
LEMMA ApiStep ==
    ASSUME TypeOK, [Next]_vars
    PROVE  Same \/ Edited \/ Marked \/ Written
<1>1. api \in Object /\ obj \in Object
  BY VersionsAreObjects DEF TypeOK
<1>2. ASSUME NEW w \in Object, history' = Stored(w)
      PROVE  api' = w
  BY <1>2, StoredVersion DEF TypeOK
<1>3. CASE UserEdit
  <2>1. api' = [api EXCEPT !.gen = api.gen + 1]
    BY <1>1, <1>2, <1>3, WrittenType DEF UserEdit
  <2> QED
    BY <1>1, <1>3, <2>1 DEF Edited, Object
<1>4. CASE UserDelete
  <2>1. api' = WithMetadata([api EXCEPT !.deleting = TRUE])
    BY <1>1, <1>2, <1>4, WrittenType DEF UserDelete
  <2> QED
    BY <1>1, <1>4, <2>1 DEF Marked, WithMetadata, Object
<1>5. CASE StatusUpdate /\ fresh /\ history' = Stored(WithStatus(api, obj))
  <2>1. api' = WithStatus(api, obj)
    BY <1>1, <1>2, <1>5, WrittenType
  <2> QED
    BY <1>1, <1>5, <2>1 DEF Written, WithStatus, Object
<1>6. CASE Worker \/ AuthenticateFails \/ RemoteProgress
  <2>1. \/ history' = history
        \/ history' = Stored(WithFinalizer(api)) \/ history' = Stored(WithoutFinalizer(api))
        \/ StatusUpdate /\ fresh /\ history' = Stored(WithStatus(api, obj))
    BY <1>6
       DEF Worker, Get, HandlePhaseTimeout, HandleToDelete, InitializeResource,
           Creating, Provisioning, Updating, Created, Deleting, RemoveFinalizer,
           NothingToDo, StatusUpdate, Acceptable, AuthenticateFails, RemoteProgress
  <2> QED
    BY <1>5, <2>1, SameStep
<1>7. CASE UNCHANGED vars
  BY <1>7, SameStep DEF vars
<1> QED
  BY <1>3, <1>4, <1>6, <1>7, SameStep DEF Next

-----------------------------------------------------------------------------
(* What a status about to be written asks for. *)

\* A handler that asks for a status of an object it was given.
LEMMA AskedPending ==
    ASSUME WorkerInv, pc \in {"reconcile", "unfinalize"}, Same,
           NEW o \in Object, o.gen = obj.gen, NEW current \in BOOLEAN, current => fresh,
           NEW next, NEW cond, NEW requeue,
           NextPhaseOf(o, current, next, cond, requeue),
           next = "Created" => obj.phase \in {"Creating", "Provisioning", "Updating"},
           o.id = obj.id \/ o.id = Len(remote')
    PROVE  PendingInv'
<1>1. fresh => obj = api
  BY DEF WorkerInv
<1>2. CASE pc' = "write"
  <2>1. /\ fresh' = current
        /\ obj'.phase = next /\ obj'.id = o.id /\ obj'.obs = o.gen
    BY <1>2, AskedStatus
  <2> QED
    BY <1>1, <2>1 DEF PendingInv, Same
<1>3. CASE pc' # "write"
  BY <1>3 DEF PendingInv
<1> QED
  BY <1>2, <1>3

\* So do the two ways of handling an error, which never lead to Created.
LEMMA ErrorPending ==
    ASSUME TypeOK, WorkerInv, pc \in {"reconcile", "unfinalize"}, Same,
           NEW o \in Object, o.gen = obj.gen, o.id = obj.id, o.phase # "Created",
           \/ \E e \in ErrorKinds : NextToFailedOnApiError(o, e)
           \/ \E current \in BOOLEAN :
                (current => fresh) /\ NextToFailedOnReconcileError(o, current)
    PROVE  PendingInv'
<1>1. \E current \in BOOLEAN : \E next, cond, requeue :
        /\ current => fresh
        /\ NextPhaseOf(o, current, next, cond, requeue)
        /\ next # "Created"
  BY DEF NextToFailedOnApiError, NextToFailedOnReconcileError, NextPhase, TypeOK
<1> QED
  BY <1>1, AskedPending

\* Every step keeps PendingInv.
LEMMA PendingStep ==
    ASSUME TypeOK, WorkerInv, VersionsInv, PendingInv, [Next]_vars
    PROVE  PendingInv'
<1>1. /\ obj \in Object /\ api \in Object /\ fresh \in BOOLEAN
      /\ RemoteTypeOK /\ Len(remote) \in Nat
  BY VersionsAreObjects, LenProperties DEF TypeOK, RemoteTypeOK
<1>2. pc' # "write" \/ fresh' = FALSE => PendingInv'
  BY DEF PendingInv
<1>3. CASE Get \/ NothingToDo \/ StatusUpdate \/ AuthenticateFails \/ Crash
  BY <1>2, <1>3
     DEF Get, NothingToDo, StatusUpdate, AuthenticateFails, Crash, DoneAndRequeue, Done
<1>4. CASE UserEdit \/ UserDelete
  BY <1>2, <1>4 DEF UserEdit, UserDelete
<1>5. CASE HandlePhaseTimeout \/ HandleToDelete
  <2>1. Same /\ pc = "reconcile"
    BY <1>5, SameStep DEF HandlePhaseTimeout, HandleToDelete
  <2>2. NextPhase(obj, "Failed", "False", FALSE) \/ NextPhase(obj, "Deleting", "False", TRUE)
    BY <1>5 DEF HandlePhaseTimeout, HandleToDelete
  <2> QED
    BY <1>1, <2>1, <2>2, AskedPending DEF NextPhase
<1>6. CASE InitializeResource
  <2> DEFINE guarded == [obj EXCEPT !.finalizer = TRUE]
  <2>1. /\ guarded \in Object /\ guarded.gen = obj.gen /\ guarded.id = obj.id
        /\ guarded.phase = "" /\ pc = "reconcile"
    BY <1>1, <1>6 DEF InitializeResource, Handling, Object
  <2>2. Same
    BY <1>6, SameStep DEF InitializeResource
  <2>3. \/ NextPhase(guarded, "Creating", "False", TRUE)
        \/ \E current \in BOOLEAN :
             (current => fresh) /\ NextToFailedOnReconcileError(guarded, current)
    BY <1>6 DEF InitializeResource
  <2> HIDE DEF guarded
  <2>4. CASE NextPhase(guarded, "Creating", "False", TRUE)
    BY <1>1, <2>1, <2>2, <2>4, AskedPending DEF NextPhase
  <2> QED
    BY <2>1, <2>2, <2>3, <2>4, ErrorPending
<1>7. CASE RemoveFinalizer
  <2> DEFINE released == [obj EXCEPT !.finalizer = FALSE]
  <2>1. /\ released \in Object /\ released.gen = obj.gen /\ released.id = obj.id
        /\ released.phase = "Deleting" /\ pc = "unfinalize"
    BY <1>1, <1>7 DEF RemoveFinalizer, WorkerInv, Object
  <2>2. Same
    BY <1>7, SameStep DEF RemoveFinalizer
  <2>3. \/ Done
        \/ \E current \in BOOLEAN :
             (current => fresh) /\ NextToFailedOnReconcileError(released, current)
    BY <1>7 DEF RemoveFinalizer
  <2> HIDE DEF released
  <2> QED
    BY <1>2, <2>1, <2>2, <2>3, ErrorPending DEF Done
<1>8. CASE Created
  <2>1. Same /\ pc = "reconcile"
    BY <1>8, SameStep DEF Created, Handling
  <2>2. Done \/ NextPhase(obj, "Updating", "False", TRUE)
    BY <1>8 DEF Created
  <2> QED
    BY <1>1, <1>2, <2>1, <2>2, AskedPending DEF NextPhase, Done
<1>9. ASSUME pc = "reconcile", Same, obj.phase \in {"Creating", "Provisioning", "Updating"},
             \/ \E e \in ErrorKinds : NextToFailedOnApiError(obj, e)
             \/ \E next, cond, requeue : NextPhase(obj, next, cond, requeue)
      PROVE  PendingInv'
  BY <1>1, <1>9, AskedPending, ErrorPending DEF NextPhase
<1>10. CASE Provisioning \/ Updating
  <2>1. Same /\ pc = "reconcile" /\ obj.phase \in {"Provisioning", "Updating"}
    BY <1>10, SameStep DEF Provisioning, Updating, Handling
  <2>2. \/ \E e \in ErrorKinds : NextToFailedOnApiError(obj, e)
        \/ \E next, cond, requeue : NextPhase(obj, next, cond, requeue)
    BY <1>10 DEF Provisioning, Updating, ErrorKinds
  <2> QED
    BY <1>9, <2>1, <2>2
<1>11. CASE Creating
  <2>1. Same /\ pc = "reconcile" /\ obj.phase = "Creating"
    BY <1>11, SameStep DEF Creating, Handling
  <2>2. \/ \E e \in ErrorKinds : NextToFailedOnApiError(obj, e)
        \/ /\ Len(remote) < MaxRemote
           /\ \E s \in RemoteStates : remote' = Adopted(obj, s)
           /\ \/ NextPhase(Recorded(obj), "Provisioning", "False", TRUE)
              \/ NextPhase(Recorded(obj), "Created", "True", TRUE)
    BY <1>11 DEF Creating, ErrorKinds
  <2>3. CASE /\ Len(remote) < MaxRemote
             /\ \E s \in RemoteStates : remote' = Adopted(obj, s)
             /\ \/ NextPhase(Recorded(obj), "Provisioning", "False", TRUE)
                \/ NextPhase(Recorded(obj), "Created", "True", TRUE)
    <3>1. Len(remote') = Len(remote) + 1
      BY <1>1, <2>3, AdoptedRemote
    <3>2. Len(remote) + 1 \in 0..MaxRemote
      BY <1>1, <2>3, LifecycleAssumption
    <3>3. /\ Recorded(obj) \in Object
          /\ Recorded(obj).gen = obj.gen /\ Recorded(obj).id = Len(remote')
      BY <1>1, <3>1, <3>2 DEF Recorded, Object
    <3> QED
      BY <1>1, <2>1, <2>3, <3>3, AskedPending DEF NextPhase
  <2> QED
    BY <1>9, <2>1, <2>2, <2>3
<1>12. CASE Deleting
  <2>1. Same /\ pc = "reconcile" /\ obj.phase = "Deleting"
    BY <1>12, SameStep DEF Deleting, Handling
  <2>2. pc' = "unfinalize" \/ \E e \in ErrorKinds : NextToFailedOnApiError(obj, e)
    BY <1>12 DEF Deleting, DeletionRefused, ErrorKinds
  <2> QED
    BY <1>1, <1>2, <2>1, <2>2, ErrorPending
<1>13. ASSUME Same, pc' = pc, fresh' = fresh, Len(remote') = Len(remote),
              obj'.phase = obj.phase, obj'.id = obj.id, obj'.obs = obj.obs
       PROVE  PendingInv'
  BY <1>13 DEF PendingInv, Same
<1>14. CASE WatchDeliver
  BY <1>13, <1>14, SameStep DEF WatchDeliver
<1>15. CASE RemoteProgress
  BY <1>1, <1>13, <1>15, SameStep, ProgressedRemote DEF RemoteProgress
<1>16. CASE Tick
  <2>1. \A v \in Object : Aged(v).obs = v.obs
    BY DEF Aged, Object
  <2> QED
    BY <1>1, <1>13, <1>16, <2>1, SameStep, AgedSame DEF Tick
<1>17. CASE UNCHANGED vars
  BY <1>13, <1>17, SameStep DEF vars
<1> QED
  BY <1>3, <1>4, <1>5, <1>6, <1>7, <1>8, <1>10, <1>11, <1>12, <1>14, <1>15, <1>16, <1>17
     DEF Next, Worker

\* Every step keeps ObservedInv.
LEMMA ObservedStep ==
    ASSUME TypeOK, PendingInv, ObservedInv, [Next]_vars
    PROVE  ObservedInv'
<1>1. api.gen \in Nat /\ api.obs \in Nat
  <2>1. api \in Object
    BY VersionsAreObjects DEF TypeOK
  <2> QED
    BY <2>1, LifecycleAssumption DEF Object
<1>2. \A m, n \in Nat : m <= n => m <= n + 1
  OBVIOUS
<1>3. CASE Same \/ Edited \/ Marked
  BY <1>1, <1>2, <1>3 DEF Same, Edited, Marked, ObservedInv
<1>4. CASE Written
  <2>1. api'.obs = api.gen /\ api'.gen = api.gen
    BY <1>4 DEF Written, StatusUpdate, PendingInv
  <2> QED
    BY <1>1, <2>1 DEF ObservedInv
<1> QED
  BY <1>3, <1>4, ApiStep

\* The invariant that the theorems below stand on.
LEMMA AccountInvariant == Spec => [](TypeOK /\ LifecycleInv /\ SpecInv /\ AccountInv)
<1>1. Init => AccountInv
  <2> SUFFICES ASSUME Init PROVE AccountInv
    OBVIOUS
  <2>1. history = <<NewObject>> /\ pc = "idle"
    BY DEF Init
  <2>2. api.obs = 0 /\ api.gen = 1
    BY <2>1 DEF api, NewObject
  <2> QED
    BY <2>1, <2>2 DEF AccountInv, PendingInv, ObservedInv
<1>2. TypeOK /\ LifecycleInv /\ SpecInv /\ AccountInv /\ [Next]_vars => AccountInv'
  BY InvParts, PendingStep, ObservedStep DEF AccountInv
<1> QED
  BY <1>1, <1>2, SpecInvariant, PTL DEF Spec

-----------------------------------------------------------------------------
(* The refinement. *)

\* What every case of the proof needs of the stored object and of the worker's copy.
LEMMA StoredFacts ==
    ASSUME TypeOK, LifecycleInv, SpecInv
    PROVE  /\ api \in Object /\ api \in Versions /\ Sound(api) /\ obj \in Object
           /\ RemoteTypeOK /\ Len(remote) \in Nat /\ DOMAIN remote = 1..Len(remote)
           /\ pc = "reconcile" => Sound(obj) /\ Outlasts(obj, api)
           /\ pc = "reconcile" => obj.gen \in Remote!Current
<1>1. /\ api \in Object /\ api \in Versions /\ obj \in Object
      /\ RemoteTypeOK /\ Len(remote) \in Nat /\ DOMAIN remote = 1..Len(remote)
  BY VersionsAreObjects, LenProperties DEF TypeOK, RemoteTypeOK
<1>2. Sound(api) /\ (pc = "reconcile" => Sound(obj) /\ Outlasts(obj, api))
  BY <1>1 DEF LifecycleInv, WorkerInv
<1>3. ASSUME pc = "reconcile"
      PROVE  obj.gen \in Remote!Current
  <2>1. obj.gen <= api.gen /\ \A r \in 1..Len(remote) : remote[r].gen <= obj.gen
    BY <1>1, <1>3 DEF SpecInv, ToldInv, NotAhead
  <2>2. obj.gen \in Nat \ {0} /\ api.gen \in Nat
    BY <1>1, LifecycleAssumption DEF Object
  <2> QED
    BY <1>1, <2>1, <2>2 DEF Remote!Current
<1> QED
  BY <1>1, <1>2, <1>3

\* A step that leaves the resources alone is one of the user's, a status write, or
\* nothing that the account shows.
LEMMA UntoldStep ==
    ASSUME TypeOK, LifecycleInv, SpecInv, AccountInv, [Next]_vars, remote' = remote
    PROVE  [Remote!RemoteNext]_(Remote!remoteVars)
<1> USE StoredFacts
<1>1. CASE Same
  BY <1>1 DEF Same, Remote!remoteVars
<1>2. CASE Edited
  <2>1. Remote!Want
    BY <1>2 DEF Edited, Remote!Want
  <2> QED
    BY <2>1 DEF Remote!RemoteNext
<1>3. CASE Marked
  <2>1. Remote!RequestDeletion
    BY <1>3 DEF Marked, Remote!RequestDeletion
  <2> QED
    BY <2>1 DEF Remote!RemoteNext
<1>4. CASE Written
  <2>1. pc = "write" /\ fresh
    BY <1>4 DEF Written, StatusUpdate
  <2>2. CASE obj.id = api.id
    BY <1>4, <2>2 DEF Written, Remote!remoteVars
  <2>3. CASE obj.id # api.id
    <3>1. obj.id = Len(remote)
      BY <2>1, <2>3 DEF AccountInv, PendingInv
    <3>2. api.phase = "Creating" /\ obj.id # 0
      BY <2>1, <2>3 DEF LifecycleInv, WorkerInv, Moves
    <3>3. api.id = 0
      BY <3>2 DEF Sound
    <3>4. remote # <<>>
      BY <3>1, <3>2, EmptySeq
    <3>5. Remote!Record
      BY <1>4, <3>1, <3>3, <3>4 DEF Written, Remote!Record
    <3> QED
      BY <3>5 DEF Remote!RemoteNext
  <2> QED
    BY <2>2, <2>3
<1> QED
  BY <1>1, <1>2, <1>3, <1>4, ApiStep

\* Every step is, as far as the account shows, a step of RemoteContract or none.
LEMMA AccountStep ==
    ASSUME TypeOK, LifecycleInv, SpecInv, AccountInv, [Next]_vars
    PROVE  [Remote!RemoteNext]_(Remote!remoteVars)
<1> USE StoredFacts
<1>1. CASE remote' = remote
  BY <1>1, UntoldStep
<1>2. ASSUME Creating, remote' # remote
      PROVE  Remote!Create
  <2>1. PICK s \in RemoteStates :
        remote' = Append(remote, [state |-> s, gen |-> obj.gen,
                                  made |-> obj.gen, denied |-> FALSE])
    BY <1>2 DEF Creating, Adopted
  <2>2. Same /\ pc = "reconcile"
    BY <1>2, SameStep DEF Creating, Handling
  <2> QED
    BY <2>1, <2>2 DEF Remote!Create, Same, RemoteStates
<1>3. ASSUME Updating, remote' # remote
      PROVE  Remote!Update
  <2>1. /\ pc = "reconcile" /\ obj.phase = "Updating"
        /\ remote[obj.id].state # "Deleted"
        /\ remote' = [remote EXCEPT ![obj.id].gen = obj.gen]
    BY <1>3 DEF Updating, Handling, Pushed
  <2>2. obj.id # 0 /\ api.id = obj.id
    BY <2>1 DEF Sound, Outlasts
  <2>3. Same
    BY <1>3, SameStep DEF Updating
  <2>4. obj.gen \in Remote!Current
    BY <2>1
  <2> QED
    BY <2>1, <2>2, <2>3, <2>4 DEF Remote!Update, Same
<1>4. ASSUME Deleting, remote' # remote
      PROVE  Remote!Delete \/ Remote!Deny
  <2>1. /\ pc = "reconcile" /\ obj.phase = "Deleting" /\ obj.id # 0
        /\ \/ remote' = [remote EXCEPT ![obj.id].state = "Deleted"]
           \/ /\ remote[obj.id].state # "Deleted"
              /\ remote' = [remote EXCEPT ![obj.id].denied = TRUE]
    BY <1>4 DEF Deleting, Handling, Erased, Exists, Denied
  <2>2. api.id = obj.id /\ api.deleting
    BY <2>1 DEF Sound, Outlasts
  <2>3. Same
    BY <1>4, SameStep DEF Deleting
  <2> QED
    BY <2>1, <2>2, <2>3 DEF Remote!Delete, Remote!Deny, Same
<1>5. ASSUME RemoteProgress
      PROVE  Remote!Finish
  <2>1. Same
    BY <1>5, SameStep DEF RemoteProgress
  <2> QED
    BY <1>5, <2>1 DEF RemoteProgress, Remote!Finish, Same
<1>6. remote' = remote \/ Creating \/ Updating \/ Deleting \/ RemoteProgress
  BY DEF Next, Worker, vars, Get, HandlePhaseTimeout, HandleToDelete, InitializeResource,
         Provisioning, Created, RemoveFinalizer, NothingToDo, StatusUpdate,
         AuthenticateFails, UserEdit, UserDelete, WatchDeliver, Tick, Crash
<1> QED
  BY <1>1, <1>2, <1>3, <1>4, <1>5, <1>6 DEF Remote!RemoteNext

\* The operator keeps to RemoteContract, whatever the cache shows it, whatever calls and
\* writes are lost and however often it is restarted: it touches the resource on record
\* alone, never sends an older spec than before, deletes only on request, and never
\* touches again what it has deleted.
THEOREM AccountIsTouchedByContract == Spec => ImplementsRemoteContract
<1>1. Init => Remote!RemoteInit
  <2> SUFFICES ASSUME Init PROVE Remote!RemoteInit
    OBVIOUS
  <2>1. api = NewObject /\ remote = <<>>
    BY DEF Init, api
  <2> QED
    BY <2>1 DEF Remote!RemoteInit, NewObject
<1>2. TypeOK /\ LifecycleInv /\ SpecInv /\ AccountInv /\ [Next]_vars
      => [Remote!RemoteNext]_(Remote!remoteVars)
  BY AccountStep
<1> QED
  BY <1>1, <1>2, AccountInvariant, PTL
     DEF Spec, ImplementsRemoteContract, Remote!RemoteSpec

-----------------------------------------------------------------------------
(* What may get lost, and how. *)

\* The step that loses an edit is the one that ends Provisioning.
LEMMA BehindStep ==
    ASSUME TypeOK, TypeOK', LifecycleInv, SpecInv, SpecInv', AccountInv, [Next]_vars,
           ~Behind, Behind'
    PROVE  api.phase = "Provisioning"
<1> USE StoredFacts
<1>1. api'.phase = "Created" /\ api'.obs = api'.gen /\ remote'[api'.id].gen # api'.gen
  BY DEF Behind
<1>2. CASE Same
  <2>1. /\ api.phase = "Created" /\ api.obs = api.gen
        /\ remote[api.id].gen = api.gen
    BY <1>1, <1>2 DEF Same, Behind
  <2>2. api.id \in 1..Len(remote)
    <3>1. api.id \in 0..Len(remote) /\ api.id # 0
      BY <2>1 DEF Sound
    <3> QED
      BY <3>1
  <2>3. remote'[api.id].gen >= api.gen
    BY <2>1, <2>2, AdvanceStep DEF SpecInv
  <2>4. remote'[api.id].gen <= api'.gen
    <3>1. Len(remote') >= Len(remote) /\ Len(remote') \in Nat
      <4>1. Len(remote') = Len(remote) \/ Len(remote') = Len(remote) + 1
        BY ToldStep DEF Told
      <4> QED
        BY <4>1
    <3>2. api.id \in 1..Len(remote')
      BY <2>2, <3>1
    <3>3. \A r \in 1..Len(remote') : \A v \in Versions' : remote'[r].gen <= v.gen
      BY DEF SpecInv, ToldInv, NotAhead
    <3>4. api' \in Versions'
      <4>1. Len(history') \in Nat \ {0}
        BY EmptySeq DEF TypeOK
      <4> QED
        BY <4>1 DEF api, Versions
    <3> QED
      BY <3>2, <3>3, <3>4
  <2>5. api.gen \in Nat /\ remote'[api.id].gen \in Nat
    <3>1. remote' \in Seq(Resource)
      BY DEF TypeOK
    <3>2. Len(remote') = Len(remote) \/ Len(remote') = Len(remote) + 1
      BY ToldStep DEF Told
    <3>3. api.id \in 1..Len(remote')
      BY <2>2, <3>2
    <3> QED
      BY <3>1, <3>3, Generations
  <2> QED
    BY <1>1, <1>2, <2>3, <2>4, <2>5 DEF Same
<1>3. CASE Edited
  <2>1. api.gen \in Nat /\ api.obs \in Nat /\ api.obs <= api.gen
    BY LifecycleAssumption DEF Object, AccountInv, ObservedInv
  <2>2. api.obs = api.gen + 1
    BY <1>1, <1>3 DEF Edited
  <2>3. \A m, n \in Nat : m <= n => m # n + 1
    OBVIOUS
  <2> QED
    BY <2>1, <2>2, <2>3
<1>4. CASE Marked
  BY <1>1, <1>4 DEF Marked, UserDelete, Behind
<1>5. CASE Written
  <2>1. pc = "write" /\ fresh /\ remote' = remote
    BY <1>5 DEF Written, StatusUpdate
  <2>2. /\ obj.phase = "Created" /\ api'.id = obj.id /\ api'.gen = api.gen
    BY <1>1, <1>5 DEF Written
  <2>3. api.phase \in {"Creating", "Provisioning", "Updating"}
    BY <2>1, <2>2 DEF AccountInv, PendingInv
  <2>4. CASE api.phase \in {"Creating", "Updating"}
    <3>1. remote[obj.id].gen = api.gen
      BY <2>1, <2>2, <2>4 DEF SpecInv, ReportInv, Reports
    <3> QED
      BY <1>1, <2>1, <2>2, <3>1
  <2> QED
    BY <2>3, <2>4
<1> QED
  BY <1>2, <1>3, <1>4, <1>5, ApiStep

\* An edit of a field that updates send is lost in no other way than this: it came while
\* the resource was provisioned, and the write that ends Provisioning took it for
\* observed.
THEOREM SentFieldsAreLostNowhereElse == Spec => SentFieldLostOnlyByProvisioning
<1>1. /\ TypeOK /\ LifecycleInv /\ SpecInv /\ AccountInv
      /\ (TypeOK /\ LifecycleInv /\ SpecInv /\ AccountInv)' /\ [Next]_vars
      => [ ~Behind /\ Behind' => api.phase = "Provisioning" ]_vars
  BY BehindStep
<1> QED
  BY <1>1, AccountInvariant, PTL DEF Spec, SentFieldLostOnlyByProvisioning

\* Without a fault, a creation that is known is on its way to the record, and a record
\* stays.
LEMMA UnrecordedStep ==
    ASSUME TypeOK, TypeOK', LifecycleInv, SpecInv, [Next]_vars,
           NEW r \in Unrecorded', r \notin Unrecorded, faults' = faults, fresh
    PROVE  FALSE
<1> USE StoredFacts
<1>1. /\ DOMAIN remote' = 1..Len(remote') /\ r \in 1..Len(remote')
      /\ r # api'.id /\ ~(pc' = "write" /\ obj'.id = r)
  <2>1. DOMAIN remote' = 1..Len(remote')
    BY LenProperties DEF TypeOK
  <2> QED
    BY <2>1 DEF Unrecorded
<1>2. faults \in Nat /\ ~Fault
  <2>1. faults \in Nat
    BY LifecycleAssumption DEF TypeOK
  <2> QED
    BY <2>1 DEF Fault
<1>3. CASE r \notin 1..Len(remote)
  <2>1. /\ Creating
        /\ Len(remote') = Len(remote) + 1
    BY <1>1, <1>3, ToldStep DEF Told
  <2>2. r = Len(remote) + 1
    BY <1>1, <1>3, <2>1
  <2>3. /\ obj.phase = "Creating" /\ Len(remote) < MaxRemote
        /\ \/ NextPhase(Recorded(obj), "Provisioning", "False", TRUE)
           \/ NextPhase(Recorded(obj), "Created", "True", TRUE)
    <3>1. remote' # remote
      BY <2>1
    <3> QED
      BY <1>2, <2>1, <3>1 DEF Creating, Handling
  <2>4. /\ Recorded(obj) \in Object
        /\ Recorded(obj).id = Len(remote) + 1
        /\ Recorded(obj).phase = "Creating"
    <3>1. Len(remote) + 1 \in 0..MaxRemote
      BY <2>3, LifecycleAssumption
    <3> QED
      BY <2>3, <3>1 DEF Recorded, Object
  <2>5. pc' = "write"
    BY <2>3, <2>4 DEF NextPhase, NextPhaseOf, Debounces, SamePhase
  <2>6. obj'.id = Len(remote) + 1
    BY <2>3, <2>4, <2>5, AskedStatus DEF NextPhase
  <2> QED
    BY <1>1, <2>2, <2>5, <2>6
<1>4. CASE r \in 1..Len(remote) /\ r = api.id
  <2>1. r # 0
    BY <1>4
  <2>2. CASE Same \/ Edited \/ Marked
    BY <1>1, <1>4, <2>2 DEF Same, Edited, Marked
  <2>3. CASE Written
    <3>1. Moves(api, obj.phase, obj.id) /\ api'.id = obj.id
      BY <2>3 DEF Written, StatusUpdate, LifecycleInv, WorkerInv
    <3>2. obj.id = api.id
      BY <1>4, <2>1, <3>1 DEF Moves, Sound
    <3> QED
      BY <1>1, <1>4, <3>1, <3>2
  <2> QED
    BY <2>2, <2>3, ApiStep
<1>5. CASE pc = "write" /\ obj.id = r
  <2>1. CASE StatusUpdate
    <3>1. history' = Stored(WithStatus(api, obj))
      BY <1>2, <2>1 DEF StatusUpdate, Acceptable
    <3>2. api' = WithStatus(api, obj)
      BY <3>1, StoredVersion, WrittenType DEF TypeOK
    <3>3. api'.id = obj.id
      BY <3>2 DEF WithStatus, Object
    <3> QED
      BY <1>1, <1>5, <3>3
  <2>2. CASE UserEdit \/ UserDelete \/ WatchDeliver \/ RemoteProgress \/ UNCHANGED vars
    BY <1>1, <1>5, <2>2 DEF UserEdit, UserDelete, WatchDeliver, RemoteProgress, vars
  <2>3. CASE Tick
    BY <1>1, <1>5, <2>3, AgedSame DEF Tick
  <2>4. CASE AuthenticateFails \/ Crash
    BY <1>2, <2>4 DEF AuthenticateFails, Crash
  <2> QED
    BY <1>5, <2>1, <2>2, <2>3, <2>4
       DEF Next, Worker, Get, HandlePhaseTimeout, HandleToDelete, InitializeResource,
           Creating, Provisioning, Updating, Created, Deleting, RemoveFinalizer,
           NothingToDo, Handling
<1> QED
  BY <1>3, <1>4, <1>5 DEF Unrecorded

\* A remote resource is left without a record in no other way than by a fault, or by a
\* pass whose copy of the object is not the stored version: changed meanwhile, or old
\* already when it was read from the cache.
THEOREM ResourcesAreLostByFaultOrStaleCopy == Spec => LostOnlyByFaultOrStaleCopy
<1>1. /\ TypeOK /\ LifecycleInv /\ SpecInv /\ AccountInv
      /\ (TypeOK /\ LifecycleInv /\ SpecInv /\ AccountInv)' /\ [Next]_vars
      => [ \A r \in Unrecorded' \ Unrecorded : faults' # faults \/ ~fresh ]_vars
  BY UnrecordedStep DEF TypeOK
<1> QED
  BY <1>1, AccountInvariant, PTL DEF Spec, LostOnlyByFaultOrStaleCopy
=============================================================================
