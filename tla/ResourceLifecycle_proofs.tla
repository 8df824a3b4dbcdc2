---------------------- MODULE ResourceLifecycle_proofs ----------------------
(***************************************************************************)
(* Proofs about ResourceLifecycle, for every timeout, number of edits,     *)
(* remote resources, faults and every lag of the cache.                    *)
(***************************************************************************)
EXTENDS ResourceLifecycle, SequenceTheorems, TLAPS

-----------------------------------------------------------------------------
(* How a step changes the versions. *)

\* A sequence with a length has an element.
LEMMA NonEmpty == \A s : Len(s) # 0 => s # <<>>
<1>1. Len(<<>>) = 0 BY EmptySeq
<1> QED BY <1>1, Zenon

\* A write makes v the stored version and adds no other.
LEMMA StoredVersion ==
    ASSUME history \in Seq(Object), history # <<>>,
           NEW v \in Object, history' = Stored(v)
    PROVE  /\ history' \in Seq(Object) /\ history' # <<>>
           /\ api' = v
           /\ Versions' \subseteq Versions \cup {v}
<1> USE LifecycleAssumption
<1>n. Len(history) \in Nat \ {0} BY EmptySeq
<1>1. CASE v = api
  BY <1>1 DEF Stored, api, Versions
<1>2. CASE v # api /\ Len(history) <= MaxLag
  <2>1. history' = Append(history, v) BY <1>2 DEF Stored
  <2> QED BY <1>n, <2>1, AppendProperties DEF api, Versions
<1>3. CASE v # api /\ ~(Len(history) <= MaxLag)
  <2>1. history' = [history EXCEPT ![Len(history)] = v] BY <1>3 DEF Stored
  <2>2. /\ history' \in Seq(Object) /\ Len(history') = Len(history)
        /\ \A i \in 1..Len(history) :
             history'[i] = IF i = Len(history) THEN v ELSE history[i]
    BY <1>n, <2>1, ExceptSeq
  <2> QED BY <1>n, <2>2, EmptySeq DEF api, Versions
<1> QED BY <1>1, <1>2, <1>3

\* The stored and the cached object are among the versions, and all are objects.
LEMMA VersionsAreObjects ==
    ASSUME history \in Seq(Object), history # <<>>
    PROVE  /\ Versions \subseteq Object
           /\ api \in Versions /\ cache \in Versions
           /\ Len(history) = 1 => cache = api
<1>1. Len(history) \in Nat \ {0} BY EmptySeq
<1>2. \A i \in 1..Len(history) : history[i] \in Object BY ElementOfSeq
<1>3. Head(history) = history[1] BY HeadTailProperties
<1> QED BY <1>1, <1>2, <1>3 DEF Versions, api, cache

\* A delivery and a restart drop versions, the stored one stays.
LEMMA DroppedVersions ==
    ASSUME history \in Seq(Object), history # <<>>,
           \/ Len(history) > 1 /\ history' = Tail(history)
           \/ history' = <<api>>
    PROVE  /\ history' \in Seq(Object) /\ history' # <<>>
           /\ api' = api
           /\ Versions' \subseteq Versions
<1>n. Len(history) \in Nat \ {0} BY EmptySeq
<1>1. CASE Len(history) > 1 /\ history' = Tail(history)
  <2>1. /\ history' \in Seq(Object) /\ Len(history') = Len(history) - 1
        /\ \A i \in 1..Len(history') : history'[i] = history[i + 1]
    BY <1>1, HeadTailProperties
  <2>n. Len(history') \in Nat \ {0} BY <1>n, <1>1, <2>1
  <2>e. history' # <<>> BY <2>n, NonEmpty, Zenon
  <2>2. Len(history') \in Nat \ {0} /\ history' # <<>> BY <2>n, <2>e
  <2>3. api' = api BY <1>n, <2>1, <2>2 DEF api
  <2>4. ASSUME NEW i \in 1..Len(history') PROVE history'[i] \in Versions
    <3>1. i + 1 \in 1..Len(history) BY <1>n, <2>1, <2>2
    <3> QED BY <2>1, <3>1 DEF Versions
  <2> QED BY <2>1, <2>2, <2>3, <2>4 DEF Versions
<1>2. CASE history' = <<api>>
  <2>1. api \in Versions /\ api \in Object BY VersionsAreObjects
  <2>2. /\ history' \in Seq(Object) /\ Len(history') = 1 /\ history'[1] = api
    BY <1>2, <2>1
  <2>n. Len(history') # 0 BY <2>2
  <2>3. history' # <<>> BY <2>n, NonEmpty, Zenon
  <2>4. api' = api BY <2>2 DEF api
  <2>5. Versions' = {history'[i] : i \in 1..1} BY <2>2 DEF Versions
  <2> QED BY <2>1, <2>2, <2>3, <2>4, <2>5
<1> QED BY <1>1, <1>2

\* Time makes every version older and changes nothing else of it.
LEMMA AgedObject ==
    ASSUME NEW v \in Object
    PROVE  Aged(v) \in Object
BY LifecycleAssumption DEF Aged, Object, Ages, NoTime, Overdue

\* Time makes every version older and adds none.
LEMMA AgedVersions ==
    ASSUME history \in Seq(Object), history # <<>>,
           history' = [i \in 1..Len(history) |-> Aged(history[i])]
    PROVE  /\ history' \in Seq(Object) /\ history' # <<>>
           /\ api' = Aged(api)
           /\ Versions' = {Aged(v) : v \in Versions}
<1>1. Len(history) \in Nat \ {0} BY EmptySeq
<1>2. \A i \in 1..Len(history) : history[i] \in Object BY ElementOfSeq
<1>3. \A i \in 1..Len(history) : Aged(history[i]) \in Object BY <1>2, AgedObject
<1>4. history' \in Seq(Object) /\ Len(history') = Len(history)
  BY <1>1, <1>3, IsASeq
<1>5. \A i \in 1..Len(history) : history'[i] = Aged(history[i]) OBVIOUS
<1> QED BY <1>1, <1>4, <1>5, EmptySeq DEF api, Versions

-----------------------------------------------------------------------------
(* Typing. *)

\* A new custom resource is an object.
LEMMA NewObjectType == NewObject \in Object
BY LifecycleAssumption
   DEF NewObject, Object, Phases, Transitioning, Ages, NoTime, Overdue, Conditions

\* What the API server stores on a write is an object.
LEMMA WrittenType ==
    ASSUME NEW v \in Object, NEW o \in Object
    PROVE  /\ WithMetadata(v) \in Object
           /\ WithStatus(v, o) \in Object
           /\ WithFinalizer(v) \in Object
           /\ WithoutFinalizer(v) \in Object
           /\ v.gen < MaxGen => [v EXCEPT !.gen = v.gen + 1] \in Object
           /\ WithMetadata([v EXCEPT !.deleting = TRUE]) \in Object
<1>1. \A w \in Object : WithMetadata(w) \in Object BY DEF WithMetadata, Object
<1>2. WithStatus(v, o) \in Object BY DEF WithStatus, Object
<1>3. \A b \in BOOLEAN : [v EXCEPT !.finalizer = b] \in Object BY DEF Object
<1>4. [v EXCEPT !.deleting = TRUE] \in Object BY DEF Object
<1>5. v.gen < MaxGen => v.gen + 1 \in 1..MaxGen BY LifecycleAssumption DEF Object
<1>6. v.gen < MaxGen => [v EXCEPT !.gen = v.gen + 1] \in Object BY <1>5 DEF Object
<1> QED BY <1>1, <1>2, <1>3, <1>4, <1>6 DEF WithFinalizer, WithoutFinalizer

\* What Next makes of an object is an object.
LEMMA EnteringType ==
    ASSUME NEW o \in Object, NEW next \in Phases, NEW cond \in Conditions
    PROVE  Entering(o, next, cond) \in Object
<1>1. (IF o.age = NoTime \/ ~SamePhase(o, next) THEN 0 ELSE o.age) \in Ages
  <2>1. 0 \in Ages BY LifecycleAssumption DEF Ages, Overdue
  <2>2. o.age \in Ages BY DEF Object
  <2> QED BY <2>1, <2>2
<1>2. o.gen \in 0..MaxGen BY LifecycleAssumption DEF Object
<1> QED BY <1>1, <1>2 DEF Entering, Object

\* Next leaves the worker well typed.
WorkerTypeOK ==
    /\ pc \in {"idle", "reconcile", "write", "unfinalize"}
    /\ obj \in Object /\ fresh \in BOOLEAN /\ queued \in BOOLEAN

\* Next leaves the worker with values of their types.
LEMMA NextPhaseType ==
    ASSUME NEW o \in Object, NEW current \in BOOLEAN, NEW next \in Phases,
           NEW cond \in Conditions, NEW requeue \in BOOLEAN,
           queued \in BOOLEAN,
           NextPhaseOf(o, current, next, cond, requeue)
    PROVE  WorkerTypeOK'
BY NewObjectType, EnteringType DEF NextPhaseOf, DoneAndRequeue, Done, WorkerTypeOK

\* So does the handling of an error of the remote API ...
LEMMA ApiErrorType ==
    ASSUME NEW o \in Object, NEW e \in ErrorKinds,
           fresh \in BOOLEAN, queued \in BOOLEAN,
           NextToFailedOnApiError(o, e)
    PROVE  WorkerTypeOK'
<1>1. o.phase \in Phases /\ "Failed" \in Phases /\ "False" \in Conditions
  BY DEF Object, Phases, Conditions
<1> QED BY <1>1, NextPhaseType DEF NextToFailedOnApiError, NextPhase

\* ... and that of any other error.
LEMMA ReconcileErrorType ==
    ASSUME NEW o \in Object, NEW current \in BOOLEAN, queued \in BOOLEAN,
           NextToFailedOnReconcileError(o, current)
    PROVE  WorkerTypeOK'
<1>1. o.phase \in Phases /\ "False" \in Conditions
  BY DEF Object, Conditions
<1> QED BY <1>1, NextPhaseType DEF NextToFailedOnReconcileError

HistoryTypeOK == history \in Seq(Object) /\ history # <<>>
RemoteTypeOK == remote \in Seq(Resource) /\ Len(remote) <= MaxRemote
FaultsTypeOK == faults \in 0..MaxFaults

\* TypeOK, by the parties whose variables it types.
LEMMA TypeParts == TypeOK <=> HistoryTypeOK /\ WorkerTypeOK /\ RemoteTypeOK /\ FaultsTypeOK
BY DEF TypeOK, HistoryTypeOK, WorkerTypeOK, RemoteTypeOK, FaultsTypeOK

\* A write keeps the versions typed.
LEMMA StoredType ==
    ASSUME HistoryTypeOK, NEW v \in Object, history' = Stored(v)
    PROVE  HistoryTypeOK'
BY StoredVersion DEF HistoryTypeOK

\* The faults stay within their bound.
LEMMA FaultType ==
    ASSUME FaultsTypeOK, Fault \/ NoFault
    PROVE  FaultsTypeOK'
BY LifecycleAssumption DEF FaultsTypeOK, Fault, NoFault

\* What a remote call leaves: one resource more, or the same ones, of which only
\* the one named by the identifier may have changed, and only as the call says.
LEMMA AdoptedRemote ==
    ASSUME RemoteTypeOK, NEW o \in Object, NEW s \in RemoteStates,
           Len(remote) < MaxRemote, remote' = Adopted(o, s)
    PROVE  /\ RemoteTypeOK'
           /\ Len(remote) \in Nat /\ Len(remote') = Len(remote) + 1
           /\ \A r \in 1..Len(remote) : remote'[r] = remote[r]
           /\ remote'[Len(remote) + 1] =
                [state |-> s, gen |-> o.gen, made |-> o.gen, denied |-> FALSE]
<1>1. [state |-> s, gen |-> o.gen, made |-> o.gen, denied |-> FALSE] \in Resource
  BY DEF Resource, Object
<1>2. Len(remote) \in Nat /\ MaxRemote \in Nat
  BY LenProperties, LifecycleAssumption DEF RemoteTypeOK
<1>3. remote \in Seq(Resource) BY DEF RemoteTypeOK
<1> QED BY <1>1, <1>2, <1>3, AppendProperties DEF Adopted, RemoteTypeOK

\* An update gives the named resource the spec of the object in the fields it sends.
LEMMA PushedRemote ==
    ASSUME RemoteTypeOK, NEW o \in Object, remote' = Pushed(o)
    PROVE  /\ RemoteTypeOK'
           /\ Len(remote) \in Nat /\ Len(remote') = Len(remote)
           /\ \A r \in 1..Len(remote) :
                /\ remote'[r].state = remote[r].state
                /\ remote'[r].made = remote[r].made
                /\ remote'[r].denied = remote[r].denied
           /\ \A r \in 1..Len(remote) :
                remote'[r].gen = IF r = o.id THEN o.gen ELSE remote[r].gen
<1>1. Len(remote) \in Nat /\ remote \in [1..Len(remote) -> Resource]
  BY LenProperties DEF RemoteTypeOK
<1>2. CASE o.id \in 1..Len(remote)
  <2> DEFINE e == [remote[o.id] EXCEPT !.gen = o.gen]
  <2>1. remote[o.id] \in Resource BY <1>1, <1>2
  <2>2. /\ e \in Resource /\ e.gen = o.gen /\ e.state = remote[o.id].state
        /\ e.made = remote[o.id].made /\ e.denied = remote[o.id].denied
    BY <2>1 DEF Resource, Object
  <2>3. remote' = [remote EXCEPT ![o.id] = e] BY DEF Pushed
  <2> HIDE DEF e
  <2>4. /\ remote' \in Seq(Resource) /\ Len(remote') = Len(remote)
        /\ \A r \in 1..Len(remote) : remote'[r] = IF r = o.id THEN e ELSE remote[r]
    BY <1>2, <2>2, <2>3, ExceptSeq DEF RemoteTypeOK
  <2> QED BY <1>1, <2>2, <2>4 DEF RemoteTypeOK
<1>3. CASE o.id \notin 1..Len(remote)
  <2>1. remote' = remote BY <1>1, <1>3 DEF Pushed
  <2> QED BY <1>1, <1>3, <2>1 DEF RemoteTypeOK
<1> QED BY <1>2, <1>3

\* A deletion marks the named resource, and no other.
LEMMA ErasedRemote ==
    ASSUME RemoteTypeOK, NEW o \in Object, remote' = Erased(o)
    PROVE  /\ RemoteTypeOK'
           /\ Len(remote) \in Nat /\ Len(remote') = Len(remote)
           /\ \A r \in 1..Len(remote) :
                remote'[r].state = IF r = o.id THEN "Deleted" ELSE remote[r].state
           /\ \A r \in 1..Len(remote) :
                /\ remote'[r].gen = remote[r].gen
                /\ remote'[r].made = remote[r].made
                /\ remote'[r].denied = remote[r].denied
<1>1. Len(remote) \in Nat /\ remote \in [1..Len(remote) -> Resource]
  BY LenProperties DEF RemoteTypeOK
<1>2. CASE o.id \in 1..Len(remote)
  <2> DEFINE e == [remote[o.id] EXCEPT !.state = "Deleted"]
  <2>1. remote[o.id] \in Resource BY <1>1, <1>2
  <2>2. /\ e \in Resource /\ e.state = "Deleted" /\ e.gen = remote[o.id].gen
        /\ e.made = remote[o.id].made /\ e.denied = remote[o.id].denied
    BY <2>1 DEF Resource
  <2>3. o.id # 0 BY <1>1, <1>2
  <2>4. remote' = [remote EXCEPT ![o.id] = e] BY <2>3 DEF Erased
  <2> HIDE DEF e
  <2>5. /\ remote' \in Seq(Resource) /\ Len(remote') = Len(remote)
        /\ \A r \in 1..Len(remote) : remote'[r] = IF r = o.id THEN e ELSE remote[r]
    BY <1>2, <2>2, <2>4, ExceptSeq DEF RemoteTypeOK
  <2> QED BY <1>1, <2>2, <2>5 DEF RemoteTypeOK
<1>3. CASE o.id \notin 1..Len(remote)
  <2>1. remote' = remote BY <1>1, <1>3 DEF Erased
  <2> QED BY <1>1, <1>3, <2>1 DEF RemoteTypeOK
<1> QED BY <1>2, <1>3

\* A DELETE that is denied leaves its mark on the named resource, and no other.
LEMMA DeniedRemote ==
    ASSUME RemoteTypeOK, NEW o \in Object, remote' = Denied(o)
    PROVE  /\ RemoteTypeOK'
           /\ Len(remote) \in Nat /\ Len(remote') = Len(remote)
           /\ \A r \in 1..Len(remote) :
                /\ remote'[r].state = remote[r].state
                /\ remote'[r].gen = remote[r].gen
                /\ remote'[r].made = remote[r].made
                /\ remote'[r].denied = IF r = o.id THEN TRUE ELSE remote[r].denied
<1>1. Len(remote) \in Nat /\ remote \in [1..Len(remote) -> Resource]
  BY LenProperties DEF RemoteTypeOK
<1>2. CASE o.id \in 1..Len(remote)
  <2> DEFINE e == [remote[o.id] EXCEPT !.denied = TRUE]
  <2>1. remote[o.id] \in Resource BY <1>1, <1>2
  <2>2. /\ e \in Resource /\ e.state = remote[o.id].state /\ e.gen = remote[o.id].gen
        /\ e.made = remote[o.id].made /\ e.denied = TRUE
    BY <2>1 DEF Resource
  <2>3. remote' = [remote EXCEPT ![o.id] = e] BY DEF Denied
  <2> HIDE DEF e
  <2>4. /\ remote' \in Seq(Resource) /\ Len(remote') = Len(remote)
        /\ \A r \in 1..Len(remote) : remote'[r] = IF r = o.id THEN e ELSE remote[r]
    BY <1>2, <2>2, <2>3, ExceptSeq DEF RemoteTypeOK
  <2> QED BY <1>1, <2>2, <2>4 DEF RemoteTypeOK
<1>3. CASE o.id \notin 1..Len(remote)
  <2>1. remote' = remote BY <1>1, <1>3 DEF Denied
  <2> QED BY <1>1, <1>3, <2>1 DEF RemoteTypeOK
<1> QED BY <1>2, <1>3

\* A creation that ends changes the state of its resource from "InCreation".
LEMMA ProgressedRemote ==
    ASSUME RemoteTypeOK, RemoteProgress
    PROVE  /\ RemoteTypeOK'
           /\ Len(remote) \in Nat /\ Len(remote') = Len(remote)
           /\ \A r \in 1..Len(remote) :
                \/ remote'[r].state = remote[r].state
                \/ remote[r].state = "InCreation" /\ remote'[r].state \in {"Active", "Failed"}
           /\ \A r \in 1..Len(remote) :
                /\ remote'[r].gen = remote[r].gen
                /\ remote'[r].made = remote[r].made
                /\ remote'[r].denied = remote[r].denied
<1>1. Len(remote) \in Nat /\ remote \in [1..Len(remote) -> Resource]
  BY LenProperties DEF RemoteTypeOK
<1>2. PICK q \in 1..Len(remote), s \in {"Active", "Failed"} :
        /\ remote[q].state = "InCreation"
        /\ remote' = [remote EXCEPT ![q].state = s]
  BY <1>1 DEF RemoteProgress
<1> DEFINE e == [remote[q] EXCEPT !.state = s]
<1>3. /\ e \in Resource /\ e.state = s /\ e.gen = remote[q].gen
      /\ e.made = remote[q].made /\ e.denied = remote[q].denied
  BY <1>1 DEF Resource, RemoteStates
<1>4. remote' = [remote EXCEPT ![q] = e] BY <1>2
<1> HIDE DEF e
<1>5. /\ remote' \in Seq(Resource) /\ Len(remote') = Len(remote)
      /\ \A r \in 1..Len(remote) : remote'[r] = IF r = q THEN e ELSE remote[r]
  BY <1>3, <1>4, ExceptSeq DEF RemoteTypeOK
<1> QED BY <1>1, <1>2, <1>3, <1>5 DEF RemoteTypeOK

\* The initial state is typed.
LEMMA TypeInit == Init => TypeOK
<1> SUFFICES ASSUME Init PROVE TypeOK
  OBVIOUS
<1>1. history \in Seq(Object) /\ Len(history) # 0 BY NewObjectType DEF Init
<1>2. history # <<>> BY <1>1, NonEmpty, Zenon
<1>3. remote \in Seq(Resource) /\ Len(remote) = 0 BY EmptySeq DEF Init
<1>4. Len(remote) <= MaxRemote /\ faults \in 0..MaxFaults
  BY <1>3, LifecycleAssumption DEF Init
<1> QED BY <1>1, <1>2, <1>3, <1>4, NewObjectType DEF Init, TypeOK

\* Every step keeps the types.
LEMMA TypeStep == TypeOK /\ [Next]_vars => TypeOK'
<1> SUFFICES ASSUME TypeOK, [Next]_vars PROVE TypeOK'
  OBVIOUS
<1>p. HistoryTypeOK /\ WorkerTypeOK /\ RemoteTypeOK /\ FaultsTypeOK
  BY TypeParts
<1>t. HistoryTypeOK' /\ WorkerTypeOK' /\ RemoteTypeOK' /\ FaultsTypeOK' => TypeOK'
  BY DEF TypeOK, HistoryTypeOK, WorkerTypeOK, RemoteTypeOK, FaultsTypeOK
<1>v. Versions \subseteq Object /\ api \in Object /\ cache \in Object
  BY <1>p, VersionsAreObjects DEF HistoryTypeOK
<1>o. obj \in Object /\ fresh \in BOOLEAN /\ queued \in BOOLEAN
  BY <1>p DEF WorkerTypeOK
<1>f. Fault \/ NoFault => FaultsTypeOK' BY <1>p, FaultType
<1>h. UNCHANGED history => HistoryTypeOK' BY <1>p DEF HistoryTypeOK
<1>r. UNCHANGED remote => RemoteTypeOK' BY <1>p DEF RemoteTypeOK
<1>d. DoneAndRequeue \/ (Done /\ UNCHANGED queued) => WorkerTypeOK'
  BY <1>o, NewObjectType DEF DoneAndRequeue, Done, WorkerTypeOK
<1>n. ASSUME NEW o \in Object, NEW next \in Phases, NEW cond \in Conditions,
             NEW requeue \in BOOLEAN, NextPhase(o, next, cond, requeue)
      PROVE  WorkerTypeOK'
  BY <1>o, <1>n, NextPhaseType DEF NextPhase
<1>e. ASSUME NEW o \in Object, NEW e \in ErrorKinds, NextToFailedOnApiError(o, e)
      PROVE  WorkerTypeOK'
  BY <1>o, <1>e, ApiErrorType
<1>c. /\ {"Creating", "Provisioning", "Created", "Updating", "Deleting", "Failed"}
            \subseteq Phases
      /\ {"True", "False"} \subseteq Conditions
      /\ "Unknown" \in ErrorKinds
  BY DEF Phases, Transitioning, Conditions, ErrorKinds
<1>b. ASSUME NEW b \in BOOLEAN PROVE [obj EXCEPT !.finalizer = b] \in Object
  BY <1>o DEF Object
<1>1. CASE Get
  <2>1. WorkerTypeOK' BY <1>1, <1>o, <1>v DEF Get, WorkerTypeOK
  <2> QED BY <1>1, <1>f, <1>h, <1>r, <2>1, <1>t DEF Get
<1>2. CASE HandlePhaseTimeout
  BY <1>2, <1>o, <1>n, <1>c, <1>f, <1>h, <1>r, <1>t DEF HandlePhaseTimeout
<1>3. CASE HandleToDelete
  BY <1>3, <1>o, <1>n, <1>c, <1>f, <1>h, <1>r, <1>t DEF HandleToDelete
<1>4. CASE InitializeResource
  <2>1. HistoryTypeOK'
    BY <1>4, <1>p, <1>v, <1>h, WrittenType, StoredType DEF InitializeResource
  <2>2. WorkerTypeOK'
    BY <1>4, <1>o, <1>b, <1>n, <1>c, ReconcileErrorType DEF InitializeResource
  <2> QED BY <1>4, <1>f, <1>r, <2>1, <2>2, <1>t DEF InitializeResource
<1>5. CASE Creating
  <2>1. RemoteTypeOK'
    BY <1>5, <1>p, <1>o, <1>r, AdoptedRemote DEF Creating
  <2>2. Len(remote) < MaxRemote => Recorded(obj) \in Object
    <3>1. Len(remote) \in Nat BY <1>p, LenProperties DEF RemoteTypeOK
    <3>2. Len(remote) < MaxRemote => Len(remote) + 1 \in 0..MaxRemote
      BY <3>1, LifecycleAssumption
    <3> QED BY <1>o, <3>2 DEF Recorded, Object
  <2>3. WorkerTypeOK'
    BY <1>5, <1>o, <1>n, <1>e, <1>c, <2>2 DEF Creating
  <2> QED BY <1>5, <1>f, <1>h, <2>1, <2>3, <1>t DEF Creating
<1>6. CASE Provisioning
  <2>1. WorkerTypeOK'
    BY <1>6, <1>o, <1>n, <1>e, <1>c DEF Provisioning
  <2> QED BY <1>6, <1>f, <1>h, <1>r, <2>1, <1>t DEF Provisioning
<1>7. CASE Updating
  <2>1. RemoteTypeOK' BY <1>7, <1>p, <1>o, <1>r, PushedRemote DEF Updating
  <2>2. WorkerTypeOK' BY <1>7, <1>o, <1>n, <1>e, <1>c DEF Updating
  <2> QED BY <1>7, <1>f, <1>h, <2>1, <2>2, <1>t DEF Updating
<1>8. CASE Created
  BY <1>8, <1>o, <1>n, <1>c, <1>d, <1>f, <1>h, <1>r, <1>t DEF Created
<1>9. CASE Deleting
  <2>1. RemoteTypeOK' BY <1>9, <1>p, <1>o, <1>r, ErasedRemote, DeniedRemote
    DEF Deleting
  <2>2. pc' = "unfinalize" /\ UNCHANGED <<obj, fresh, queued>> => WorkerTypeOK'
    BY <1>o DEF WorkerTypeOK
  <2>3. WorkerTypeOK'
    BY <1>9, <1>o, <1>e, <1>c, <2>2 DEF Deleting, DeletionRefused
  <2> QED BY <1>9, <1>f, <1>h, <2>1, <2>3, <1>t DEF Deleting
<1>10. CASE RemoveFinalizer
  <2>1. HistoryTypeOK'
    BY <1>10, <1>p, <1>v, <1>h, WrittenType, StoredType DEF RemoveFinalizer
  <2>2. WorkerTypeOK'
    BY <1>10, <1>o, <1>b, <1>d, ReconcileErrorType DEF RemoveFinalizer
  <2> QED BY <1>10, <1>f, <1>r, <2>1, <2>2, <1>t DEF RemoveFinalizer
<1>11. CASE NothingToDo
  BY <1>11, <1>d, <1>f, <1>h, <1>r, <1>t DEF NothingToDo
<1>12. CASE StatusUpdate
  <2>1. HistoryTypeOK'
    BY <1>12, <1>p, <1>v, <1>o, <1>h, WrittenType, StoredType DEF StatusUpdate
  <2> QED BY <1>12, <1>d, <1>f, <1>r, <2>1, <1>t DEF StatusUpdate
<1>13. CASE AuthenticateFails
  BY <1>13, <1>d, <1>f, <1>h, <1>r, <1>t DEF AuthenticateFails
<1>14. CASE Crash
  <2>1. HistoryTypeOK' BY <1>14, <1>p, DroppedVersions DEF Crash, HistoryTypeOK
  <2>2. WorkerTypeOK' BY <1>14, <1>v, NewObjectType DEF Crash, Done, WorkerTypeOK, Object
  <2> QED BY <1>14, <1>f, <1>r, <2>1, <2>2, <1>t DEF Crash
<1>15. CASE UserEdit
  <2>1. HistoryTypeOK' BY <1>15, <1>p, <1>v, WrittenType, StoredType DEF UserEdit
  <2>2. WorkerTypeOK' BY <1>15, <1>p DEF UserEdit, WorkerTypeOK
  <2> QED BY <1>15, <1>f, <1>r, <2>1, <2>2, <1>t DEF UserEdit
<1>16. CASE UserDelete
  <2>1. HistoryTypeOK' BY <1>16, <1>p, <1>v, WrittenType, StoredType DEF UserDelete
  <2>2. WorkerTypeOK' BY <1>16, <1>p DEF UserDelete, WorkerTypeOK
  <2> QED BY <1>16, <1>f, <1>r, <2>1, <2>2, <1>t DEF UserDelete
<1>17. CASE WatchDeliver
  <2>1. HistoryTypeOK' BY <1>17, <1>p, DroppedVersions DEF WatchDeliver, HistoryTypeOK
  <2>2. WorkerTypeOK' BY <1>17, <1>p DEF WatchDeliver, WorkerTypeOK
  <2> QED BY <1>17, <1>f, <1>r, <2>1, <2>2, <1>t DEF WatchDeliver
<1>18. CASE RemoteProgress
  <2>1. RemoteTypeOK' BY <1>18, <1>p, ProgressedRemote
  <2>2. WorkerTypeOK' BY <1>18, <1>p DEF RemoteProgress, WorkerTypeOK
  <2> QED BY <1>18, <1>f, <1>h, <2>1, <2>2, <1>t DEF RemoteProgress
<1>19. CASE Tick
  <2>1. HistoryTypeOK' BY <1>19, <1>p, AgedVersions DEF Tick, HistoryTypeOK
  <2>2. WorkerTypeOK' BY <1>19, <1>o, <1>p, AgedObject DEF Tick, WorkerTypeOK
  <2> QED BY <1>19, <1>f, <1>r, <2>1, <2>2, <1>t DEF Tick
<1>20. CASE UNCHANGED vars
  BY <1>20 DEF vars, TypeOK
<1> QED
  BY <1>1, <1>2, <1>3, <1>4, <1>5, <1>6, <1>7, <1>8, <1>9, <1>10, <1>11, <1>12,
     <1>13, <1>14, <1>15, <1>16, <1>17, <1>18, <1>19, <1>20 DEF Next, Worker

\* Every variable keeps its type, whatever the bounds.
THEOREM TypeCorrect == Spec => []TypeOK
BY TypeInit, TypeStep, PTL DEF Spec

-----------------------------------------------------------------------------
(* The invariant: how the stored object and the remote side change. *)

VersionsInv == \A v \in Versions : Sound(v) /\ Outlasts(v, api)
RemoteInv == FinalizerGuardsRemote /\ DeletedOnlyOnRequest /\ GoneWithResourceOrDenied

\* What a version says of later ones carries over to still later ones.
LEMMA OutlastsTransitive ==
    ASSUME NEW u \in Object, NEW v \in Object, NEW w \in Object,
           Outlasts(u, v), Outlasts(v, w)
    PROVE  Outlasts(u, w)
BY DEF Outlasts, Object

\* A version outlasts itself: a step that changes nothing else breaks no promise.
LEMMA OutlastsReflexive ==
    ASSUME NEW v \in Object
    PROVE  Outlasts(v, v)
BY DEF Outlasts

\* An identifier stays in range when resources are added.
LEMMA IdentifierInRange ==
    ASSUME NEW m \in Nat, NEW n \in Nat, m <= n, NEW i \in 0..m
    PROVE  i \in 0..n /\ i <= n
OBVIOUS

\* Identifiers are natural numbers.
LEMMA IdentifierType == \A o \in Object : o.id \in Nat
BY LifecycleAssumption DEF Object

\* A range of naturals, as an inequality.
LEMMA AtMost == \A i \in Nat, n \in Nat : i <= n <=> i \in 0..n
OBVIOUS

\* Inequalities chain.
LEMMA AtMostTransitive ==
    \A i \in Nat, m \in Nat, n \in Nat : i <= m /\ m <= n => i <= n
OBVIOUS

\* A write of a sound version that follows the stored one.
LEMMA WriteKeeps ==
    ASSUME TypeOK, VersionsInv, RemoteInv, UNCHANGED remote,
           NEW w \in Object, history' = Stored(w), Sound(w), Outlasts(api, w),
           w.live \/ (w.id # 0 => TakenForDeleted(w.id))
    PROVE  api' = w /\ VersionsInv' /\ RemoteInv'
<1>1. api' = w /\ Versions' \subseteq Versions \cup {w}
  BY StoredVersion DEF TypeOK
<1>2. Versions \subseteq Object /\ api \in Object
  BY VersionsAreObjects DEF TypeOK
<1>3. ASSUME NEW v \in Versions' PROVE Sound(v)' /\ Outlasts(v, api)'
  <2>1. CASE v = w
    BY <1>1, <2>1, OutlastsReflexive DEF Sound, Outlasts
  <2>2. CASE v \in Versions
    <3>1. Sound(v) /\ Outlasts(v, api) /\ v \in Object BY <1>2, <2>2 DEF VersionsInv
    <3>2. Outlasts(v, w) BY <1>2, <3>1, OutlastsTransitive
    <3> QED BY <1>1, <3>1, <3>2 DEF Sound, Outlasts
  <2> QED BY <1>1, <2>1, <2>2
<1>4. FinalizerGuardsRemote'
  BY <1>1, <1>2 DEF RemoteInv, FinalizerGuardsRemote, Outlasts, Object
<1>5. DeletedOnlyOnRequest'
  BY <1>1, <1>2 DEF RemoteInv, DeletedOnlyOnRequest, Outlasts, Object
<1>6. GoneWithResourceOrDenied'
  BY <1>1 DEF GoneWithResourceOrDenied, TakenForDeleted
<1> QED BY <1>1, <1>3, <1>4, <1>5, <1>6 DEF VersionsInv, RemoteInv

\* A remote call that creates, changes or deletes as the object allows.
LEMMA RemoteKeeps ==
    ASSUME TypeOK, VersionsInv, RemoteInv, UNCHANGED history, RemoteTypeOK',
           Len(remote) <= Len(remote'),
           remote' # <<>> /\ api.live => api.finalizer,
           \A r \in 1..Len(remote) : TakenForDeleted(r) => TakenForDeleted(r)',
           \A r \in 1..Len(remote') : remote'[r].state = "Deleted" =>
               \/ r \in 1..Len(remote) /\ remote[r].state = "Deleted"
               \/ api.deleting /\ (api.live => api.phase \in {"Deleting", "Failed"})
    PROVE  VersionsInv' /\ RemoteInv'
<1>1. /\ Len(remote) \in Nat /\ DOMAIN remote = 1..Len(remote)
      /\ Len(remote)' \in Nat /\ DOMAIN remote' = 1..Len(remote')
  BY LenProperties DEF TypeOK, RemoteTypeOK
<1>2. api' = api /\ Versions' = Versions BY DEF api, Versions
<1>3. Versions \subseteq Object /\ api \in Object /\ api \in Versions
  BY VersionsAreObjects DEF TypeOK
<1>4. VersionsInv'
  <2>1. ASSUME NEW v \in Versions PROVE Sound(v)' /\ Outlasts(v, api)'
    <3>1. Sound(v) /\ Outlasts(v, api) BY DEF VersionsInv
    <3>2. Outlasts(v, api)' BY <1>2, <3>1 DEF Outlasts
    <3>3. v.id \in 0..Len(remote) BY <3>1 DEF Sound
    <3>4. v.id \in 0..Len(remote') BY <1>1, <3>3, IdentifierInRange
    <3> QED BY <3>1, <3>2, <3>4 DEF Sound
  <2> QED BY <1>2, <2>1 DEF VersionsInv
<1>5. FinalizerGuardsRemote' BY <1>2 DEF FinalizerGuardsRemote
<1>6. DeletedOnlyOnRequest' BY <1>1, <1>2 DEF RemoteInv, DeletedOnlyOnRequest
<1>7. GoneWithResourceOrDenied'
  <2>1. api.id \in 0..Len(remote) BY <1>3 DEF VersionsInv, Sound
  <2> QED BY <1>1, <1>2, <2>1 DEF RemoteInv, GoneWithResourceOrDenied, TakenForDeleted
<1> QED BY <1>4, <1>5, <1>6, <1>7 DEF RemoteInv

\* Versions forgotten, the stored one kept.
LEMMA DropKeeps ==
    ASSUME TypeOK, VersionsInv, RemoteInv, UNCHANGED remote,
           api' = api, Versions' \subseteq Versions
    PROVE  VersionsInv' /\ RemoteInv'
BY DEF VersionsInv, RemoteInv, Sound, Outlasts, FinalizerGuardsRemote,
       DeletedOnlyOnRequest, GoneWithResourceOrDenied, TakenForDeleted

\* Time changes nothing but the age.
LEMMA AgedSame ==
    ASSUME NEW v \in Object
    PROVE  /\ Aged(v).live = v.live /\ Aged(v).gen = v.gen
           /\ Aged(v).deleting = v.deleting /\ Aged(v).finalizer = v.finalizer
           /\ Aged(v).phase = v.phase /\ Aged(v).id = v.id
BY DEF Aged, Object

\* A tick keeps the relations between the versions.
LEMMA TickKeeps ==
    ASSUME TypeOK, VersionsInv, RemoteInv, Tick
    PROVE  api' = Aged(api) /\ VersionsInv' /\ RemoteInv'
<1>1. api' = Aged(api) /\ Versions' = {Aged(v) : v \in Versions} /\ remote' = remote
  BY AgedVersions DEF TypeOK, Tick
<1>2. Versions \subseteq Object /\ api \in Object
  BY VersionsAreObjects DEF TypeOK
<1>3. ASSUME NEW v \in Versions PROVE Sound(Aged(v))' /\ Outlasts(Aged(v), api)'
  <2>1. Sound(v) /\ Outlasts(v, api) /\ v \in Object BY <1>2 DEF VersionsInv
  <2> QED BY <1>1, <1>2, <2>1, AgedSame DEF Sound, Outlasts
<1>4. RemoteInv'
  BY <1>1, <1>2, AgedSame
     DEF RemoteInv, FinalizerGuardsRemote, DeletedOnlyOnRequest,
         GoneWithResourceOrDenied, TakenForDeleted
<1> QED BY <1>1, <1>3, <1>4 DEF VersionsInv

-----------------------------------------------------------------------------
(* The invariant: the worker's copy. *)

\* What Next asks to be written fits the stored object, if the copy is current.
LEMMA NextPhaseWorker ==
    ASSUME NEW o \in Object, NEW current \in BOOLEAN, NEW next \in Phases,
           NEW cond, NEW requeue,
           NextPhaseOf(o, current, next, cond, requeue),
           current => /\ api'.live
                      /\ o.id <= Len(remote')
                      /\ next # "" => api'.finalizer
                      /\ Moves(api', next, o.id)
    PROVE  WorkerInv'
<1>1. CASE DoneAndRequeue
  BY <1>1 DEF DoneAndRequeue, Done, WorkerInv
<1>2. CASE /\ pc' = "write" /\ obj' = Entering(o, next, cond)
           /\ fresh' = current
  <2>1. obj'.phase = next /\ obj'.id = o.id BY <1>2 DEF Entering, Object
  <2> QED BY <1>2, <2>1 DEF WorkerInv
<1> QED BY <1>1, <1>2 DEF NextPhaseOf

\* A worker that is reading what it got: facts about a current copy.
LEMMA CurrentCopy ==
    ASSUME TypeOK, VersionsInv, WorkerInv, pc \in {"reconcile", "unfinalize"}
    PROVE  /\ obj \in Object /\ api \in Object
           /\ Sound(obj) /\ obj.live /\ Outlasts(obj, api)
           /\ Len(remote) \in Nat
           /\ obj.phase # "" \/ obj.deleting => obj.finalizer
           /\ fresh => obj = api
<1>1. obj \in Object /\ api \in Object /\ Len(remote) \in Nat
  BY VersionsAreObjects, LenProperties DEF TypeOK
<1> QED BY <1>1 DEF WorkerInv, Sound

\* A handler without an effect on the stored object that asks for a move.
LEMMA HandlerMoves ==
    ASSUME TypeOK, VersionsInv, WorkerInv, pc \in {"reconcile", "unfinalize"},
           UNCHANGED history, Len(remote) <= Len(remote'), Len(remote') \in Nat,
           NEW o \in Object, NEW next \in Phases, NEW cond, NEW requeue,
           obj.phase # "" \/ obj.deleting,
           NextPhaseOf(o, fresh, next, cond, requeue),
           fresh => Moves(obj, next, o.id) /\ o.id <= Len(remote')
    PROVE  WorkerInv'
<1>1. api' = api BY DEF api
<1>2. fresh => /\ api'.live
               /\ o.id <= Len(remote')
               /\ next # "" => api'.finalizer
               /\ Moves(api', next, o.id)
  BY <1>1, CurrentCopy
<1>3. fresh \in BOOLEAN BY DEF TypeOK
<1> QED BY <1>2, <1>3, NextPhaseWorker

\* A refused or lost remote call.
LEMMA ApiErrorWorker ==
    ASSUME TypeOK, VersionsInv, WorkerInv, pc = "reconcile",
           UNCHANGED history, Len(remote) <= Len(remote'), Len(remote') \in Nat,
           NEW e \in ErrorKinds, obj.phase \in Transitioning,
           NextToFailedOnApiError(obj, e)
    PROVE  WorkerInv'
<1>i. obj.id \in 0..Len(remote) /\ Len(remote) \in Nat BY CurrentCopy DEF Sound
<1>j. obj.id <= Len(remote') BY <1>i, IdentifierInRange
<1>1. /\ obj \in Object /\ obj.id <= Len(remote') /\ obj.phase # ""
      /\ obj.phase \in Phases /\ "Failed" \in Phases
  BY <1>j, CurrentCopy DEF Transitioning, Phases
<1>2. Moves(obj, obj.phase, obj.id) /\ Moves(obj, "Failed", obj.id)
  BY DEF Moves
<1>3. CASE NextPhaseOf(obj, fresh, "Failed", "False", FALSE)
  BY <1>1, <1>2, <1>3, HandlerMoves
<1>4. CASE NextPhaseOf(obj, fresh, obj.phase, "False", TRUE)
  BY <1>1, <1>2, <1>4, HandlerMoves
<1> QED BY <1>3, <1>4 DEF NextToFailedOnApiError, NextPhase

\* Whatever does not touch the worker: the stored object goes on, and the worker's
\* copy stays current only if the stored object has not changed.
LEMMA WorldKeepsWorker ==
    ASSUME TypeOK, VersionsInv, WorkerInv, UNCHANGED <<pc, obj>>,
           api' \in Object, Outlasts(api, api'),
           fresh' = FALSE \/ (fresh' = fresh /\ api' = api),
           Len(remote') \in Nat, Len(remote) <= Len(remote'),
           \A r \in 1..Len(remote) : TakenForDeleted(r) => TakenForDeleted(r)'
    PROVE  WorkerInv'
<1>1. CASE pc \in {"reconcile", "unfinalize"}
  <2>1. /\ obj \in Object /\ api \in Object /\ Sound(obj) /\ obj.live
        /\ Outlasts(obj, api) /\ Len(remote) \in Nat
    BY <1>1, CurrentCopy
  <2>2. Outlasts(obj, api') BY <2>1, OutlastsTransitive
  <2>3. obj.id \in 0..Len(remote) BY <2>1 DEF Sound
  <2>8. obj.id \in 0..Len(remote') BY <2>1, <2>3, IdentifierInRange
  <2>4. Sound(obj)' BY <2>1, <2>8 DEF Sound
  <2>5. Outlasts(obj, api)' BY <2>2 DEF Outlasts
  <2>6. pc = "unfinalize" =>
          /\ obj.phase = "Deleting"
          /\ obj.id # 0 => TakenForDeleted(obj.id)'
    BY <2>3 DEF WorkerInv, TakenForDeleted
  <2>7. fresh' => obj = api' BY <1>1, <2>1 DEF WorkerInv
  <2> QED BY <1>1, <2>1, <2>4, <2>5, <2>6, <2>7 DEF WorkerInv
<1>2. CASE pc \notin {"reconcile", "unfinalize"}
  <2>1. obj.id \in Nat /\ Len(remote) \in Nat
    BY LenProperties, LifecycleAssumption DEF TypeOK, Object
  <2>2. fresh' => api' = api /\ fresh BY DEF TypeOK
  <2>3. pc = "write" /\ fresh' =>
          /\ api'.live /\ obj.id <= Len(remote')
          /\ obj.phase # "" => api'.finalizer
          /\ Moves(api', obj.phase, obj.id)
    <3> SUFFICES ASSUME pc = "write", fresh'
                 PROVE  /\ api'.live /\ obj.id <= Len(remote')
                        /\ obj.phase # "" => api'.finalizer
                        /\ Moves(api', obj.phase, obj.id)
      OBVIOUS
    <3>1. /\ api.live /\ obj.id <= Len(remote)
          /\ obj.phase # "" => api.finalizer
          /\ Moves(api, obj.phase, obj.id)
      BY <2>2 DEF WorkerInv
    <3>2. obj.id <= Len(remote') BY <2>1, <3>1, AtMostTransitive, Zenon
    <3> QED BY <2>2, <3>1, <3>2
  <2> QED BY <1>2, <2>2, <2>3 DEF WorkerInv
<1> QED BY <1>1, <1>2

\* What the writes of the finalizer and of the status make of the stored object.
LEMMA FinalizerWrites ==
    ASSUME NEW v \in Object, v.live, Sound(v)
    PROVE  /\ Sound(WithFinalizer(v)) /\ Outlasts(v, WithFinalizer(v))
           /\ WithFinalizer(v).live /\ WithFinalizer(v).finalizer
           /\ WithFinalizer(v).phase = v.phase /\ WithFinalizer(v).id = v.id
           /\ v.phase = "Deleting" =>
                 /\ Sound(WithoutFinalizer(v)) /\ Outlasts(v, WithoutFinalizer(v))
                 /\ WithoutFinalizer(v).id = v.id
BY DEF WithFinalizer, WithoutFinalizer, WithMetadata, Sound, Outlasts, Object

\* A status write that a handler may ask for follows the stored object.
LEMMA StatusWrite ==
    ASSUME NEW v \in Object, NEW o \in Object, v.live, Sound(v),
           Len(remote) \in Nat, o.id <= Len(remote),
           o.phase # "" => v.finalizer, Moves(v, o.phase, o.id)
    PROVE  LET w == WithStatus(v, o)
           IN  Sound(w) /\ Outlasts(v, w) /\ w.live
<1> DEFINE w == WithStatus(v, o)
<1>1. /\ w.live = v.live /\ w.finalizer = v.finalizer /\ w.deleting = v.deleting
      /\ w.phase = o.phase /\ w.id = o.id
  BY DEF WithStatus, Object
<1>i. o.id \in 0..Len(remote) BY IdentifierType, AtMost, Zenon
<1>2. w.id \in 0..Len(remote) BY <1>1, <1>i
<1>3. Sound(w)
  BY <1>1, <1>2 DEF Sound, Moves, Transitioning
<1>4. Outlasts(v, w)
  BY <1>1 DEF Sound, Outlasts, Moves, Transitioning
<1> QED BY <1>1, <1>3, <1>4

\* After an error met with a copy that is no longer current, any write is refused.
LEMMA StaleWorker ==
    ASSUME NEW o \in Object, NextToFailedOnReconcileError(o, FALSE)
    PROVE  WorkerInv'
<1>1. o.phase \in Phases BY DEF Object
<1> QED BY <1>1, NextPhaseWorker DEF NextToFailedOnReconcileError

\* The invariant holds initially.
LEMMA InvInit == Init => VersionsInv /\ RemoteInv /\ WorkerInv
<1> SUFFICES ASSUME Init PROVE VersionsInv /\ RemoteInv /\ WorkerInv
  OBVIOUS
<1>1. Versions = {NewObject} /\ api = NewObject
  BY DEF Init, Versions, api
<1>2. Len(remote) = 0 /\ DOMAIN remote = {} /\ remote = <<>> BY DEF Init
<1>3. VersionsInv
  <2>1. 0 \in 0..Len(remote) BY <1>2
  <2>2. Sound(NewObject) BY <2>1 DEF Sound, NewObject
  <2>3. Outlasts(NewObject, NewObject) BY NewObjectType, OutlastsReflexive
  <2> QED BY <1>1, <2>2, <2>3 DEF VersionsInv
<1>4. RemoteInv
  BY <1>1, <1>2 DEF RemoteInv, FinalizerGuardsRemote, DeletedOnlyOnRequest,
                    GoneWithResourceOrDenied, NewObject
<1>5. WorkerInv BY DEF Init, WorkerInv
<1> QED BY <1>3, <1>4, <1>5

-----------------------------------------------------------------------------
(* The invariant: the steps of the worker that write the stored object. *)

\* Adding the finalizer and asking for phase Creating, in any of its outcomes.
LEMMA InitializeResourceKeeps ==
    ASSUME TypeOK, VersionsInv, RemoteInv, WorkerInv, InitializeResource
    PROVE  VersionsInv' /\ RemoteInv' /\ WorkerInv'
<1> DEFINE guarded == [obj EXCEPT !.finalizer = TRUE]
<1>1. /\ obj \in Object /\ api \in Object /\ Sound(obj) /\ obj.live
      /\ fresh => obj = api
      /\ pc = "reconcile" /\ obj.phase = "" /\ ~ShouldBeDeleted(obj)
      /\ Len(remote) \in Nat /\ remote' = remote
  BY CurrentCopy DEF InitializeResource, Handling
<1>2. /\ guarded \in Object /\ guarded.phase = "" /\ guarded.id = obj.id
      /\ obj.id <= Len(remote) /\ "" \in Phases /\ "Creating" \in Phases
  <2>1. obj.id \in 0..Len(remote) BY <1>1 DEF Sound
  <2>2. obj.id <= Len(remote) BY <1>1, <2>1, IdentifierType, AtMost, Zenon
  <2> QED BY <1>1, <2>2 DEF Object, Phases, Transitioning
<1>3. UNCHANGED history => VersionsInv' /\ RemoteInv' /\ api' = api
  BY <1>1, DropKeeps DEF api, Versions
<1>4. fresh /\ history' = Stored(WithFinalizer(api)) =>
        /\ VersionsInv' /\ RemoteInv'
        /\ api' = WithFinalizer(api)
  BY <1>1, WriteKeeps, WrittenType, FinalizerWrites
<1>5. CASE obj.finalizer /\ UNCHANGED history /\ NextPhase(guarded, "Creating", "False", TRUE)
  <2>1. fresh => /\ api'.live /\ guarded.id <= Len(remote') /\ api'.finalizer
                 /\ Moves(api', "Creating", guarded.id)
    BY <1>1, <1>2, <1>3, <1>5 DEF Moves
  <2> HIDE DEF guarded
  <2>2. WorkerInv' BY <1>2, <1>5, <2>1, NextPhaseWorker DEF NextPhase, TypeOK
  <2> QED BY <1>3, <1>5, <2>2
<1>6. CASE /\ fresh /\ history' = Stored(WithFinalizer(api))
           /\ NextPhase(guarded, "Creating", "False", TRUE)
  <2>1. /\ api'.live /\ guarded.id <= Len(remote') /\ api'.finalizer
        /\ Moves(api', "Creating", guarded.id)
    BY <1>1, <1>2, <1>4, <1>6, FinalizerWrites DEF Moves
  <2> HIDE DEF guarded
  <2>2. WorkerInv' BY <1>2, <1>6, <2>1, NextPhaseWorker DEF NextPhase, TypeOK
  <2> QED BY <1>4, <1>6, <2>2
<1>7. CASE /\ fresh /\ UNCHANGED history
           /\ NextToFailedOnReconcileError(guarded, TRUE)
  <2>1. /\ api'.live /\ guarded.id <= Len(remote')
        /\ Moves(api', "", guarded.id)
    BY <1>1, <1>2, <1>3, <1>7 DEF Moves
  <2>2. NextPhaseOf(guarded, TRUE, "", "False", TRUE)
    BY <1>2, <1>7 DEF NextToFailedOnReconcileError
  <2> HIDE DEF guarded
  <2>3. WorkerInv' BY <1>2, <2>1, <2>2, NextPhaseWorker
  <2> QED BY <1>3, <1>7, <2>3
<1>8. CASE NextToFailedOnReconcileError(guarded, FALSE) /\ UNCHANGED history
  BY <1>2, <1>3, <1>8, StaleWorker
<1>9. CASE /\ NextToFailedOnReconcileError(guarded, FALSE)
           /\ fresh /\ history' = Stored(WithFinalizer(api))
  BY <1>2, <1>4, <1>9, StaleWorker
<1> QED BY <1>5, <1>6, <1>7, <1>8, <1>9 DEF InitializeResource

\* Taking the finalizer away: the recorded resource is taken for deleted by then.
LEMMA RemoveFinalizerKeeps ==
    ASSUME TypeOK, VersionsInv, RemoteInv, WorkerInv, RemoveFinalizer
    PROVE  VersionsInv' /\ RemoteInv' /\ WorkerInv'
<1> DEFINE released == [obj EXCEPT !.finalizer = FALSE]
<1>1. /\ obj \in Object /\ api \in Object /\ Sound(obj) /\ obj.live
      /\ fresh => obj = api
      /\ pc = "unfinalize" /\ obj.phase = "Deleting"
      /\ obj.id # 0 => TakenForDeleted(obj.id)
      /\ Len(remote) \in Nat /\ remote' = remote
  BY CurrentCopy DEF RemoveFinalizer, WorkerInv
<1>2. /\ released \in Object /\ released.phase = "Deleting" /\ released.id = obj.id
      /\ obj.id <= Len(remote) /\ "Deleting" \in Phases
  <2>1. obj.id \in 0..Len(remote) BY <1>1 DEF Sound
  <2>2. obj.id <= Len(remote) BY <1>1, <2>1, IdentifierType, AtMost, Zenon
  <2> QED BY <1>1, <2>2 DEF Object, Phases, Transitioning
<1>3. UNCHANGED history => VersionsInv' /\ RemoteInv' /\ api' = api
  BY <1>1, DropKeeps DEF api, Versions
<1>4. fresh /\ history' = Stored(WithoutFinalizer(api)) => VersionsInv' /\ RemoteInv'
  BY <1>1, WriteKeeps, WrittenType, FinalizerWrites
<1>5. CASE fresh /\ history' = Stored(WithoutFinalizer(api)) /\ Done
  BY <1>4, <1>5 DEF Done, WorkerInv
<1>6. CASE /\ fresh /\ UNCHANGED history
           /\ NextToFailedOnReconcileError(released, TRUE)
  <2>1. /\ api'.live /\ released.id <= Len(remote') /\ api'.finalizer
        /\ Moves(api', "Deleting", released.id)
    BY <1>1, <1>2, <1>3, <1>6 DEF Moves, Sound
  <2>2. NextPhaseOf(released, TRUE, "Deleting", "False", TRUE)
    BY <1>2, <1>6 DEF NextToFailedOnReconcileError
  <2> HIDE DEF released
  <2>3. WorkerInv' BY <1>2, <2>1, <2>2, NextPhaseWorker
  <2> QED BY <1>3, <1>6, <2>3
<1>7. CASE NextToFailedOnReconcileError(released, FALSE) /\ UNCHANGED history
  BY <1>2, <1>3, <1>7, StaleWorker
<1>8. CASE /\ NextToFailedOnReconcileError(released, FALSE)
           /\ fresh /\ history' = Stored(WithoutFinalizer(api))
  BY <1>2, <1>4, <1>8, StaleWorker
<1> QED BY <1>5, <1>6, <1>7, <1>8 DEF RemoveFinalizer

\* The status write, which only a current copy gets through.
LEMMA StatusUpdateKeeps ==
    ASSUME TypeOK, VersionsInv, RemoteInv, WorkerInv, StatusUpdate
    PROVE  VersionsInv' /\ RemoteInv' /\ WorkerInv'
<1>1. /\ obj \in Object /\ api \in Object /\ Sound(api)
      /\ Len(remote) \in Nat /\ remote' = remote
  BY VersionsAreObjects, LenProperties DEF TypeOK, VersionsInv, StatusUpdate
<1>2. WorkerInv' BY DEF StatusUpdate, DoneAndRequeue, Done, WorkerInv
<1>3. CASE UNCHANGED history
  BY <1>1, <1>2, <1>3, DropKeeps DEF api, Versions
<1>4. CASE fresh /\ history' = Stored(WithStatus(api, obj))
  <2>1. /\ api.live /\ obj.id <= Len(remote)
        /\ obj.phase # "" => api.finalizer
        /\ Moves(api, obj.phase, obj.id)
    BY <1>4 DEF StatusUpdate, WorkerInv
  <2>2. /\ Sound(WithStatus(api, obj)) /\ Outlasts(api, WithStatus(api, obj))
        /\ WithStatus(api, obj).live /\ WithStatus(api, obj) \in Object
    BY <1>1, <2>1, StatusWrite, WrittenType
  <2> QED BY <1>1, <1>2, <1>4, <2>2, WriteKeeps
<1> QED BY <1>3, <1>4 DEF StatusUpdate, Acceptable

-----------------------------------------------------------------------------
(* The invariant: the handlers that call the remote side. *)

\* A creation adds a resource while the stored object carries the finalizer, however
\* old the copy is that it is made for.
LEMMA CreatingKeeps ==
    ASSUME TypeOK, VersionsInv, RemoteInv, WorkerInv, Creating
    PROVE  VersionsInv' /\ RemoteInv' /\ WorkerInv'
<1>1. /\ pc = "reconcile" /\ obj.phase = "Creating" /\ history' = history
      /\ obj \in Object /\ api \in Object
      /\ Len(remote) \in Nat /\ obj.finalizer
      /\ RemoteTypeOK /\ Outlasts(obj, api)
  BY CurrentCopy DEF Creating, Handling, TypeOK, RemoteTypeOK
<1>2. api.live => api.finalizer BY <1>1 DEF Outlasts
<1>3. \/ remote' = remote
      \/ /\ Len(remote) < MaxRemote
         /\ \E s \in RemoteStates : remote' = Adopted(obj, s)
  BY DEF Creating
<1>4. /\ RemoteTypeOK' /\ Len(remote') \in Nat /\ Len(remote) <= Len(remote')
      /\ \A r \in 1..Len(remote) : remote'[r] = remote[r]
      /\ \A r \in 1..Len(remote') :
           remote'[r].state = "Deleted" => r \in 1..Len(remote)
      /\ \A r \in 1..Len(remote) : TakenForDeleted(r) => TakenForDeleted(r)'
  <2>1. CASE remote' = remote BY <1>1, <2>1 DEF RemoteTypeOK, TakenForDeleted
  <2>2. CASE Len(remote) < MaxRemote /\ \E s \in RemoteStates : remote' = Adopted(obj, s)
    <3>1. PICK s \in RemoteStates : remote' = Adopted(obj, s) BY <2>2
    <3>2. /\ RemoteTypeOK' /\ Len(remote') = Len(remote) + 1
          /\ \A r \in 1..Len(remote) : remote'[r] = remote[r]
          /\ remote'[Len(remote) + 1] =
               [state |-> s, gen |-> obj.gen, made |-> obj.gen, denied |-> FALSE]
      BY <1>1, <2>2, <3>1, AdoptedRemote
    <3>3. s # "Deleted" BY DEF RemoteStates
    <3>4. remote'[Len(remote) + 1].state # "Deleted" BY <3>2, <3>3
    <3> QED BY <1>1, <3>2, <3>4 DEF TakenForDeleted
  <2> QED BY <1>3, <2>1, <2>2
<1>5. VersionsInv' /\ RemoteInv'
  BY <1>1, <1>2, <1>4, RemoteKeeps
<1>6. WorkerInv'
  <2>1. ASSUME NEW e \in ErrorKinds, NextToFailedOnApiError(obj, e) PROVE WorkerInv'
    BY <1>1, <1>4, <2>1, ApiErrorWorker DEF Transitioning
  <2>2. ASSUME NEW s \in RemoteStates, Len(remote) < MaxRemote,
               remote' = Adopted(obj, s),
               NEW next \in {"Provisioning", "Created"}, NEW cond,
               NextPhase(Recorded(obj), next, cond, TRUE)
        PROVE  WorkerInv'
    <3>1. Len(remote') = Len(remote) + 1 BY <1>1, <2>2, AdoptedRemote
    <3>2. Len(remote) + 1 \in 0..MaxRemote BY <1>1, <2>2, LifecycleAssumption
    <3>3. /\ Recorded(obj) \in Object /\ Recorded(obj).id = Len(remote) + 1
      BY <1>1, <3>2 DEF Recorded, Object
    <3>4. Recorded(obj).id # 0 /\ Recorded(obj).id <= Len(remote')
      BY <1>1, <3>1, <3>3
    <3>5. Moves(obj, next, Recorded(obj).id) BY <1>1, <3>4 DEF Moves
    <3>6. next \in Phases BY DEF Phases, Transitioning
    <3> QED BY <1>1, <1>4, <2>2, <3>3, <3>4, <3>5, <3>6, HandlerMoves DEF NextPhase
  <2>3. "Unknown" \in ErrorKinds BY DEF ErrorKinds
  <2> QED BY <2>1, <2>2, <2>3 DEF Creating
<1> QED BY <1>5, <1>6

\* An update deletes nothing.
LEMMA UpdatingKeeps ==
    ASSUME TypeOK, VersionsInv, RemoteInv, WorkerInv, Updating
    PROVE  VersionsInv' /\ RemoteInv' /\ WorkerInv'
<1>1. /\ pc = "reconcile" /\ obj.phase = "Updating" /\ history' = history
      /\ obj \in Object /\ api \in Object
      /\ Len(remote) \in Nat /\ obj.finalizer
      /\ RemoteTypeOK /\ Outlasts(obj, api) /\ obj.id \in 0..Len(remote)
  BY CurrentCopy DEF Updating, Handling, TypeOK, RemoteTypeOK, Sound
<1>2. api.live => api.finalizer BY <1>1 DEF Outlasts
<1>3. remote' = remote \/ remote' = Pushed(obj) BY DEF Updating
<1>4. /\ RemoteTypeOK' /\ Len(remote') = Len(remote)
      /\ \A r \in 1..Len(remote) : remote'[r].state = remote[r].state
      /\ \A r \in 1..Len(remote) : TakenForDeleted(r) => TakenForDeleted(r)'
  BY <1>1, <1>3, PushedRemote DEF RemoteTypeOK, TakenForDeleted
<1>5. VersionsInv' /\ RemoteInv'
  BY <1>1, <1>2, <1>4, RemoteKeeps
<1>6. obj.id <= Len(remote') /\ Len(remote) <= Len(remote') /\ Len(remote') \in Nat
  BY <1>1, <1>4, IdentifierType, AtMost
<1>7. WorkerInv'
  <2>1. ASSUME NEW e \in ErrorKinds, NextToFailedOnApiError(obj, e) PROVE WorkerInv'
    BY <1>1, <1>4, <2>1, ApiErrorWorker DEF Transitioning
  <2>2. CASE NextPhase(obj, "Created", "True", TRUE)
    <3>1. Moves(obj, "Created", obj.id) /\ "Created" \in Phases
      BY <1>1 DEF Moves, Phases
    <3> QED BY <1>1, <1>4, <1>6, <2>2, <3>1, HandlerMoves DEF NextPhase
  <2>3. "Unknown" \in ErrorKinds BY DEF ErrorKinds
  <2> QED BY <2>1, <2>2, <2>3 DEF Updating
<1> QED BY <1>5, <1>7

\* A deletion is made only for a copy in Deleting, hence on request.
LEMMA DeletingKeeps ==
    ASSUME TypeOK, VersionsInv, RemoteInv, WorkerInv, Deleting
    PROVE  VersionsInv' /\ RemoteInv' /\ WorkerInv'
<1>1. /\ pc = "reconcile" /\ obj.phase = "Deleting" /\ history' = history
      /\ obj \in Object /\ api \in Object /\ Sound(obj)
      /\ Len(remote) \in Nat /\ obj.finalizer /\ obj.deleting
      /\ RemoteTypeOK /\ Outlasts(obj, api) /\ obj.id \in 0..Len(remote)
  BY CurrentCopy DEF Deleting, Handling, TypeOK, RemoteTypeOK, Sound
<1>2. /\ api.live => api.finalizer
      /\ api.deleting /\ api.phase \in {"Deleting", "Failed"}
  BY <1>1 DEF Outlasts
<1>3. \/ remote' = remote \/ remote' = Erased(obj)
      \/ remote' = Denied(obj)
  BY DEF Deleting
<1>4. /\ RemoteTypeOK' /\ Len(remote') = Len(remote)
      /\ \A r \in 1..Len(remote) : TakenForDeleted(r) => TakenForDeleted(r)'
  BY <1>1, <1>3, ErasedRemote, DeniedRemote DEF RemoteTypeOK, TakenForDeleted
<1>5. VersionsInv' /\ RemoteInv'
  BY <1>1, <1>2, <1>4, RemoteKeeps
<1>6. WorkerInv'
  <2>1. ASSUME NEW e \in ErrorKinds, NextToFailedOnApiError(obj, e) PROVE WorkerInv'
    BY <1>1, <1>4, <2>1, ApiErrorWorker DEF Transitioning
  <2>2. CASE /\ remote' = Erased(obj) \/ remote' = Denied(obj)
             /\ pc' = "unfinalize"
             /\ UNCHANGED <<obj, fresh, queued>>
    <3>1. obj.id # 0 => TakenForDeleted(obj.id)'
      <4>1. obj' = obj /\ (obj.id # 0 => obj.id \in 1..Len(remote)) BY <1>1, <2>2
      <4>2. CASE remote' = Erased(obj)
        BY <1>1, <4>1, <4>2, ErasedRemote DEF TakenForDeleted
      <4>3. CASE remote' = Denied(obj)
        BY <1>1, <4>1, <4>3, DeniedRemote DEF TakenForDeleted
      <4> QED BY <2>2, <4>2, <4>3
    <3>2. Sound(obj)' BY <1>1, <1>4, <2>2 DEF Sound
    <3>3. Outlasts(obj, api)' BY <1>1, <2>2 DEF Outlasts, api
    <3>4. fresh' => obj' = api' BY <1>1, <2>2 DEF WorkerInv, api
    <3>5. obj'.live /\ obj'.phase = "Deleting" /\ obj' = obj
      BY <1>1, <2>2 DEF WorkerInv
    <3> QED BY <2>2, <3>1, <3>2, <3>3, <3>4, <3>5 DEF WorkerInv
  <2>3. "Unknown" \in ErrorKinds BY DEF ErrorKinds
  <2> QED BY <2>1, <2>2, <2>3 DEF Deleting, DeletionRefused
<1> QED BY <1>5, <1>6

\* Handlers that change neither the stored object nor the remote side.
LEMMA QuietHandlersKeep ==
    ASSUME TypeOK, VersionsInv, RemoteInv, WorkerInv,
           \/ HandlePhaseTimeout \/ HandleToDelete \/ Provisioning \/ Created
           \/ NothingToDo \/ AuthenticateFails
    PROVE  VersionsInv' /\ RemoteInv' /\ WorkerInv'
<1>1. /\ pc = "reconcile" /\ history' = history /\ remote' = remote
  BY DEF HandlePhaseTimeout, HandleToDelete, Provisioning, Created, Handling,
         NothingToDo, AuthenticateFails
<1>2. /\ obj \in Object /\ Len(remote) \in Nat /\ obj.id \in 0..Len(remote)
  BY <1>1, CurrentCopy DEF Sound
<1>3. obj.id <= Len(remote') /\ Len(remote) <= Len(remote') /\ Len(remote') \in Nat
  BY <1>1, <1>2, IdentifierType, AtMost
<1>4. VersionsInv' /\ RemoteInv' BY <1>1, DropKeeps DEF api, Versions
<1>5. Done => WorkerInv' BY DEF Done, WorkerInv
<1>6. ASSUME NEW next \in Phases, NEW cond, NEW requeue,
             obj.phase # "" \/ obj.deleting, Moves(obj, next, obj.id),
             NextPhase(obj, next, cond, requeue)
      PROVE  WorkerInv'
  BY <1>1, <1>2, <1>3, <1>6, HandlerMoves DEF NextPhase
<1>7. {"Creating", "Provisioning", "Created", "Updating", "Deleting", "Failed"}
        \subseteq Phases
  BY DEF Phases, Transitioning
<1>8. CASE HandlePhaseTimeout
  <2>1. obj.phase # "" /\ Moves(obj, "Failed", obj.id)
    BY <1>8 DEF HandlePhaseTimeout, TimedOut, Moves, Transitioning
  <2> QED BY <1>4, <1>6, <1>7, <1>8, <2>1 DEF HandlePhaseTimeout
<1>9. CASE HandleToDelete
  <2>1. obj.deleting /\ Moves(obj, "Deleting", obj.id)
    BY <1>9 DEF HandleToDelete, ShouldBeDeleted, Moves
  <2> QED BY <1>4, <1>6, <1>7, <1>9, <2>1 DEF HandleToDelete
<1>10. CASE Provisioning
  <2>1. /\ obj.phase = "Provisioning" /\ obj.phase \in Transitioning
        /\ Moves(obj, "Created", obj.id)
        /\ Moves(obj, "Failed", obj.id) /\ Moves(obj, "Provisioning", obj.id)
    BY <1>10 DEF Provisioning, Handling, Moves, Transitioning
  <2>2. ASSUME NEW e \in ErrorKinds, NextToFailedOnApiError(obj, e) PROVE WorkerInv'
    BY <1>1, <1>2, <2>1, <2>2, ApiErrorWorker
  <2> QED BY <1>4, <1>6, <1>7, <1>10, <2>1, <2>2 DEF Provisioning
<1>11. CASE Created
  <2>1. obj.phase = "Created" /\ Moves(obj, "Updating", obj.id)
    BY <1>11 DEF Created, Handling, Moves
  <2> QED BY <1>4, <1>5, <1>6, <1>7, <1>11, <2>1 DEF Created
<1>12. CASE NothingToDo BY <1>4, <1>5, <1>12 DEF NothingToDo
<1>13. CASE AuthenticateFails
  BY <1>4, <1>5, <1>13 DEF AuthenticateFails, DoneAndRequeue
<1> QED BY <1>8, <1>9, <1>10, <1>11, <1>12, <1>13

\* Taking the cached copy: what its version says of later ones holds of the copy.
LEMMA GetKeeps ==
    ASSUME TypeOK, VersionsInv, RemoteInv, WorkerInv, Get
    PROVE  VersionsInv' /\ RemoteInv' /\ WorkerInv'
<1>1. history' = history /\ remote' = remote /\ pc = "idle" BY DEF Get
<1>2. VersionsInv' /\ RemoteInv' BY <1>1, DropKeeps DEF api, Versions
<1>3. CASE UNCHANGED <<pc, obj, fresh>>
  <2>1. pc' = "idle" /\ fresh' = FALSE BY <1>1, <1>3 DEF WorkerInv, TypeOK
  <2> QED BY <1>2, <2>1 DEF WorkerInv
<1>4. CASE /\ cache.live /\ pc' = "reconcile" /\ obj' = cache
           /\ fresh' = (Len(history) = 1)
  <2>1. /\ cache \in Versions
        /\ Len(history) = 1 => cache = api
    BY VersionsAreObjects DEF TypeOK
  <2>2. Sound(cache) /\ Outlasts(cache, api) BY <2>1 DEF VersionsInv
  <2>3. Sound(obj)' BY <1>1, <1>4, <2>2 DEF Sound
  <2>4. Outlasts(obj, api)' BY <1>1, <1>4, <2>2 DEF Outlasts, api
  <2>5. fresh' => obj' = api' BY <1>1, <1>4, <2>1 DEF api
  <2>6. pc' = "reconcile" /\ obj'.live /\ fresh' \in BOOLEAN BY <1>4
  <2> QED BY <1>2, <2>3, <2>4, <2>5, <2>6 DEF WorkerInv
<1> QED BY <1>2, <1>3, <1>4 DEF Get

-----------------------------------------------------------------------------
(* The invariant: the steps of the world. *)

\* The steps of everybody but the worker.
LEMMA WorldKeeps ==
    ASSUME TypeOK, TypeOK', VersionsInv, RemoteInv, WorkerInv,
           UserEdit \/ UserDelete \/ WatchDeliver \/ RemoteProgress \/ Tick \/ Crash
    PROVE  VersionsInv' /\ RemoteInv' /\ WorkerInv'
<1>1. /\ api \in Object /\ api' \in Object /\ Sound(api) /\ Outlasts(api, api)
      /\ Len(remote) \in Nat /\ Len(remote)' \in Nat
  <2>1. api \in Object /\ api \in Versions BY VersionsAreObjects DEF TypeOK
  <2>2. api' \in Object
    <3>1. history' \in Seq(Object) /\ history' # <<>> BY DEF TypeOK
    <3>2. Len(history') \in Nat \ {0} BY <3>1, EmptySeq
    <3> QED BY <3>1, <3>2, ElementOfSeq DEF api
  <2>3. Len(remote) \in Nat /\ Len(remote)' \in Nat BY LenProperties DEF TypeOK
  <2> QED BY <2>1, <2>2, <2>3, OutlastsReflexive DEF VersionsInv
<1>u. UNCHANGED remote => \A r \in 1..Len(remote) : TakenForDeleted(r) => TakenForDeleted(r)'
  BY DEF TakenForDeleted
<1>2. CASE UserEdit
  <2> DEFINE w == [api EXCEPT !.gen = api.gen + 1]
  <2>1. /\ api.live /\ w \in Object /\ history' = Stored(w) /\ remote' = remote
        /\ fresh' = FALSE
    BY <1>1, <1>2, WrittenType DEF UserEdit
  <2>2. Sound(w) /\ Outlasts(api, w) /\ w.live
    BY <1>1, <2>1 DEF Sound, Outlasts, Object
  <2>3. api' = w /\ VersionsInv' /\ RemoteInv' BY <1>1, <2>1, <2>2, WriteKeeps
  <2>4. Outlasts(api, api') /\ Len(remote) <= Len(remote') BY <1>1, <2>1, <2>2, <2>3
  <2>5. UNCHANGED <<pc, obj>> BY <1>2 DEF UserEdit
  <2>6. WorkerInv' BY <1>1, <1>u, <2>1, <2>4, <2>5, WorldKeepsWorker
  <2> QED BY <2>3, <2>6
<1>3. CASE UserDelete
  <2> DEFINE w == WithMetadata([api EXCEPT !.deleting = TRUE])
  <2>1. /\ api.live /\ w \in Object /\ history' = Stored(w) /\ remote' = remote
        /\ fresh' = FALSE
    BY <1>1, <1>3, WrittenType DEF UserDelete
  <2>2. /\ Sound(w) /\ Outlasts(api, w)
        /\ w.live \/ w.id = 0
    BY <1>1, <2>1 DEF Sound, Outlasts, Object, WithMetadata
  <2> HIDE DEF w
  <2>3. api' = w /\ VersionsInv' /\ RemoteInv' BY <1>1, <2>1, <2>2, WriteKeeps
  <2>4. Outlasts(api, api') /\ Len(remote) <= Len(remote') BY <1>1, <2>1, <2>2, <2>3
  <2>5. UNCHANGED <<pc, obj>> BY <1>3 DEF UserDelete
  <2>6. WorkerInv' BY <1>1, <1>u, <2>1, <2>4, <2>5, WorldKeepsWorker
  <2> QED BY <2>3, <2>6
<1>4. CASE WatchDeliver
  <2>1. api' = api /\ Versions' \subseteq Versions /\ remote' = remote
    BY <1>4, DroppedVersions DEF WatchDeliver, TypeOK
  <2>2. WorkerInv' BY <1>1, <1>4, <1>u, <2>1, WorldKeepsWorker DEF WatchDeliver
  <2> QED BY <2>1, <2>2, DropKeeps
<1>5. CASE RemoteProgress
  <2>1. /\ history' = history /\ api' = api /\ UNCHANGED <<pc, obj, fresh>>
        /\ RemoteTypeOK /\ RemoteTypeOK'
    BY <1>5 DEF RemoteProgress, TypeOK, RemoteTypeOK, api
  <2>2. /\ Len(remote') = Len(remote)
        /\ \A r \in 1..Len(remote) :
             /\ remote'[r].state = "Deleted" <=> remote[r].state = "Deleted"
             /\ TakenForDeleted(r) => TakenForDeleted(r)'
    BY <1>5, <2>1, ProgressedRemote DEF TakenForDeleted
  <2>3. remote' # <<>> => remote # <<>>
    <3>1. Len(remote) = 0 => Len(remote') = 0 BY <2>2
    <3>2. remote = <<>> => Len(remote) = 0 BY EmptySeq
    <3>3. remote' \in Seq(Resource) BY <2>1 DEF RemoteTypeOK
    <3>4. remote' # <<>> => Len(remote') # 0 BY <3>3, EmptySeq
    <3> QED BY <3>1, <3>2, <3>4
  <2>4. remote' # <<>> /\ api.live => api.finalizer
    BY <2>3 DEF RemoteInv, FinalizerGuardsRemote
  <2>5. Len(remote) <= Len(remote') BY <1>1, <2>2
  <2>6. VersionsInv' /\ RemoteInv' BY <2>1, <2>2, <2>4, <2>5, RemoteKeeps
  <2>7. WorkerInv' BY <1>1, <2>1, <2>2, <2>5, WorldKeepsWorker
  <2> QED BY <2>6, <2>7
<1>6. CASE Tick
  <2>1. api' = Aged(api) /\ VersionsInv' /\ RemoteInv' BY <1>6, TickKeeps
  <2>2. /\ obj \in Object /\ obj' = Aged(obj) /\ remote' = remote
        /\ UNCHANGED <<pc, fresh>>
    BY <1>6 DEF Tick, TypeOK
  <2>3. Sound(obj) => Sound(obj)' BY <2>2, AgedSame DEF Sound
  <2>4. Outlasts(obj, api) => Outlasts(obj, api)'
    BY <1>1, <2>1, <2>2, AgedSame DEF Outlasts
  <2>5. obj = api => obj' = api' BY <2>1, <2>2
  <2>6. Moves(api, obj.phase, obj.id) => Moves(api, obj.phase, obj.id)'
    BY <1>1, <2>1, <2>2, AgedSame DEF Moves
  <2>7. /\ obj'.phase = obj.phase /\ obj'.id = obj.id /\ obj'.live = obj.live
        /\ api'.live = api.live /\ api'.finalizer = api.finalizer
    BY <1>1, <2>1, <2>2, AgedSame
  <2> QED BY <2>1, <2>2, <2>3, <2>4, <2>5, <2>6, <2>7
    DEF WorkerInv, TakenForDeleted
<1>7. CASE Crash
  <2>1. api' = api /\ Versions' \subseteq Versions /\ remote' = remote
    BY <1>7, DroppedVersions DEF Crash, TypeOK
  <2>2. WorkerInv' BY <1>7 DEF Crash, Done, WorkerInv
  <2> QED BY <2>1, <2>2, DropKeeps
<1> QED BY <1>2, <1>3, <1>4, <1>5, <1>6, <1>7

\* Every step keeps the invariant.
LEMMA InvStep ==
    ASSUME TypeOK, TypeOK', VersionsInv, RemoteInv, WorkerInv, [Next]_vars
    PROVE  VersionsInv' /\ RemoteInv' /\ WorkerInv'
<1>1. CASE UNCHANGED vars
  <2>1. VersionsInv' /\ RemoteInv' BY <1>1, DropKeeps DEF vars, api, Versions
  <2>2. WorkerInv' = WorkerInv BY <1>1
    DEF vars, WorkerInv, Sound, Outlasts, Moves, TakenForDeleted, api
  <2> QED BY <2>1, <2>2
<1>2. CASE UserEdit \/ UserDelete \/ WatchDeliver \/ RemoteProgress \/ Tick \/ Crash
  BY <1>2, WorldKeeps
<1>3. CASE \/ HandlePhaseTimeout \/ HandleToDelete \/ Provisioning \/ Created
           \/ NothingToDo \/ AuthenticateFails
  BY <1>3, QuietHandlersKeep
<1>4. CASE Get BY <1>4, GetKeeps
<1>5. CASE InitializeResource BY <1>5, InitializeResourceKeeps
<1>6. CASE Creating BY <1>6, CreatingKeeps
<1>7. CASE Updating BY <1>7, UpdatingKeeps
<1>8. CASE Deleting BY <1>8, DeletingKeeps
<1>9. CASE RemoveFinalizer BY <1>9, RemoveFinalizerKeeps
<1>10. CASE StatusUpdate BY <1>10, StatusUpdateKeeps
<1> QED
  BY <1>1, <1>2, <1>3, <1>4, <1>5, <1>6, <1>7, <1>8, <1>9, <1>10 DEF Next, Worker

\* LifecycleInv, in the three parts the lemmas work with.
LEMMA InvParts == LifecycleInv <=> VersionsInv /\ RemoteInv /\ WorkerInv
BY DEF LifecycleInv, VersionsInv, RemoteInv

-----------------------------------------------------------------------------
(* What follows. *)

\* The inductive invariant: every version the worker may still read from the cache,
\* and the copy it holds, agree with the stored object as far as the handlers rely
\* on it.
THEOREM LifecycleInvariant == Spec => [](TypeOK /\ LifecycleInv)
<1>1. Init => TypeOK /\ LifecycleInv
  BY TypeInit, InvInit, InvParts
<1>2. TypeOK /\ LifecycleInv /\ [Next]_vars => (TypeOK /\ LifecycleInv)'
  <2>1. LifecycleInv' <=> VersionsInv' /\ RemoteInv' /\ WorkerInv'
    BY DEF LifecycleInv, VersionsInv, RemoteInv
  <2> QED BY <2>1, TypeStep, InvStep, InvParts
<1> QED BY <1>1, <1>2, PTL DEF Spec

\* While remote resources may exist, the stored object carries the finalizer, so
\* that it cannot vanish behind the reconciler's back.
THEOREM FinalizerGuards == Spec => []FinalizerGuardsRemote
<1>1. TypeOK /\ LifecycleInv => FinalizerGuardsRemote BY DEF LifecycleInv
<1> QED BY <1>1, LifecycleInvariant, PTL

\* No remote resource is deleted before the user asked for it and phase Deleting
\* was stored.
THEOREM DeletionIsRequested == Spec => []DeletedOnlyOnRequest
<1>1. TypeOK /\ LifecycleInv => DeletedOnlyOnRequest BY DEF LifecycleInv
<1> QED BY <1>1, LifecycleInvariant, PTL

\* An object that is gone has had the resource it recorded deleted, unless a DELETE of
\* it was answered by 404 or 405 while it was there.
THEOREM GoneAfterDelete == Spec => []GoneWithResourceOrDenied
<1>1. TypeOK /\ LifecycleInv => GoneWithResourceOrDenied BY DEF LifecycleInv
<1> QED BY <1>1, LifecycleInvariant, PTL

\* A phase before the creation has no identifier, one that needs it has one.
THEOREM IdentifierFitsPhase == Spec => []IdentifierMatchesPhase
<1>1. TypeOK /\ LifecycleInv => IdentifierMatchesPhase
  <2> SUFFICES ASSUME TypeOK, LifecycleInv PROVE IdentifierMatchesPhase
    OBVIOUS
  <2>1. api \in Versions BY VersionsAreObjects DEF TypeOK
  <2>2. Sound(api) BY <2>1 DEF LifecycleInv
  <2>3. Len(remote) \in Nat /\ DOMAIN remote = 1..Len(remote)
    BY LenProperties DEF TypeOK
  <2>4. api.id \in 0..Len(remote) BY <2>2 DEF Sound
  <2>5. api.id # 0 => api.id \in DOMAIN remote BY <2>3, <2>4
  <2> QED BY <2>2, <2>5 DEF Sound, IdentifierMatchesPhase
<1> QED BY <1>1, LifecycleInvariant, PTL

-----------------------------------------------------------------------------
(* The stored object implements ResourceContract. *)

\* Every step leaves the stored object as it is, as far as the contract sees it,
\* or is one of the contract's steps.
LEMMA ContractStep ==
    ASSUME TypeOK, TypeOK', LifecycleInv, LifecycleInv', [Next]_vars
    PROVE  [Contract!ContractNext]_(Contract!contractVars)
<1> DEFINE Same == /\ api'.live = api.live /\ api'.deleting = api.deleting
                   /\ api'.phase = api.phase /\ api'.id = api.id
<1>i. VersionsInv /\ RemoteInv /\ WorkerInv BY InvParts
<1>1. /\ api \in Object /\ Sound(api) /\ Len(remote) \in Nat
  <2>1. api \in Object /\ api \in Versions BY VersionsAreObjects DEF TypeOK
  <2> QED BY <2>1, LenProperties DEF TypeOK, LifecycleInv
<1>s. Same => [Contract!ContractNext]_(Contract!contractVars)
  BY DEF Contract!contractVars
<1>w. ASSUME NEW w \in Object, history' = Stored(w) PROVE api' = w
  BY <1>w, StoredVersion DEF TypeOK
<1>u. api' = api => Same OBVIOUS
<1>2. CASE history' = history
  BY <1>2, <1>s DEF api
<1>3. CASE WatchDeliver \/ Crash
  BY <1>3, <1>s, DroppedVersions DEF WatchDeliver, Crash, TypeOK
<1>4. CASE Tick
  BY <1>1, <1>4, <1>i, <1>s, TickKeeps, AgedSame
<1>5. CASE UserEdit
  <2>1. api' = [api EXCEPT !.gen = api.gen + 1]
    BY <1>1, <1>5, <1>w, WrittenType DEF UserEdit
  <2> QED BY <1>1, <1>s, <2>1 DEF Object
<1>6. CASE UserDelete
  <2>1. api' = WithMetadata([api EXCEPT !.deleting = TRUE]) /\ api.live /\ ~api.deleting
    BY <1>1, <1>6, <1>w, WrittenType DEF UserDelete
  <2>2. /\ api'.deleting = TRUE /\ api'.phase = api.phase /\ api'.id = api.id
        /\ api'.live \in BOOLEAN
        /\ api'.live = FALSE => api.phase = ""
    BY <1>1, <2>1 DEF WithMetadata, Object, Sound
  <2>3. Contract!RequestDeletion
    BY <2>1, <2>2 DEF Contract!RequestDeletion
  <2> QED BY <2>3 DEF Contract!ContractNext
<1>7. CASE pc = "reconcile" /\ fresh /\ history' = Stored(WithFinalizer(api))
  <2>1. api.live BY <1>i, <1>7, CurrentCopy
  <2>2. api' = WithFinalizer(api) BY <1>1, <1>7, <1>w, WrittenType
  <2>3. Same BY <1>1, <2>1, <2>2 DEF WithFinalizer, WithMetadata, Object
  <2> QED BY <1>s, <2>3
<1>8. CASE pc = "unfinalize" /\ fresh /\ history' = Stored(WithoutFinalizer(api))
  <2>1. api.live /\ api.phase = "Deleting" /\ api.deleting
    BY <1>i, <1>1, <1>8, CurrentCopy DEF WorkerInv, Sound
  <2>2. api' = WithoutFinalizer(api) BY <1>1, <1>8, <1>w, WrittenType
  <2>3. /\ api'.live = FALSE /\ api'.deleting = api.deleting
        /\ api'.phase = api.phase /\ api'.id = api.id
    BY <1>1, <2>1, <2>2 DEF WithoutFinalizer, WithMetadata, Object
  <2>4. Contract!Vanish BY <2>1, <2>3 DEF Contract!Vanish
  <2> QED BY <2>4 DEF Contract!ContractNext
<1>9. CASE pc = "write" /\ fresh /\ history' = Stored(WithStatus(api, obj))
  <2>1. api.live /\ Moves(api, obj.phase, obj.id) BY <1>i, <1>9 DEF WorkerInv
  <2>2. obj \in Object /\ api' = WithStatus(api, obj)
    BY <1>1, <1>9, <1>w, WrittenType DEF TypeOK
  <2>3. /\ api'.live = api.live /\ api'.deleting = api.deleting
        /\ api'.phase = obj.phase /\ api'.id = obj.id
    BY <1>1, <2>2 DEF WithStatus, Object
  <2>4. CASE obj.phase = api.phase /\ obj.id = api.id
    BY <1>s, <2>3, <2>4
  <2>5. CASE api.phase = "" /\ obj.phase = "Creating" /\ obj.id = api.id
    <3>1. Contract!Begin BY <2>1, <2>3, <2>5 DEF Contract!Begin
    <3> QED BY <3>1 DEF Contract!ContractNext
  <2>6. CASE /\ api.phase = "Creating" /\ obj.phase \in {"Provisioning", "Created"}
             /\ obj.id # 0
    <3>1. api.id = 0 BY <1>1, <2>6 DEF Sound
    <3>2. obj.id \in Nat \ {0} BY <2>2, <2>6, IdentifierType
    <3>3. Contract!RecordRemote
      BY <2>1, <2>3, <2>6, <3>1, <3>2 DEF Contract!RecordRemote
    <3> QED BY <3>3 DEF Contract!ContractNext
  <2>7. CASE /\ <<api.phase, obj.phase>> \in { <<"Provisioning", "Created">>,
                                               <<"Created", "Updating">>,
                                               <<"Updating", "Created">> }
             /\ obj.id = api.id
    <3>1. Contract!Advance BY <2>1, <2>3, <2>7 DEF Contract!Advance
    <3> QED BY <3>1 DEF Contract!ContractNext
  <2>8. CASE api.phase \in Transitioning /\ obj.phase = "Failed" /\ obj.id = api.id
    <3>1. Contract!Fail BY <2>1, <2>3, <2>8 DEF Contract!Fail, Transitioning
    <3> QED BY <3>1 DEF Contract!ContractNext
  <2>9. CASE /\ api.deleting /\ api.phase # "Failed" /\ obj.phase = "Deleting"
             /\ obj.id = api.id
    <3>1. CASE api.phase = "Deleting" BY <1>s, <2>3, <2>9, <3>1
    <3>2. CASE api.phase # "Deleting"
      <4>1. Contract!BeginDeletion
        BY <2>1, <2>3, <2>9, <3>2 DEF Contract!BeginDeletion
      <4> QED BY <4>1 DEF Contract!ContractNext
    <3> QED BY <3>1, <3>2
  <2> QED BY <2>1, <2>4, <2>5, <2>6, <2>7, <2>8, <2>9 DEF Moves
<1>10. CASE UNCHANGED vars BY <1>2, <1>10 DEF vars
<1>11. CASE Worker \/ AuthenticateFails \/ RemoteProgress
  <2>1. \/ history' = history
        \/ pc = "reconcile" /\ fresh /\ history' = Stored(WithFinalizer(api))
        \/ pc = "unfinalize" /\ fresh /\ history' = Stored(WithoutFinalizer(api))
        \/ pc = "write" /\ fresh /\ history' = Stored(WithStatus(api, obj))
    BY <1>11
       DEF Worker, Get, HandlePhaseTimeout, HandleToDelete, InitializeResource,
           Creating, Provisioning, Updating, Created, Deleting, RemoveFinalizer,
           NothingToDo, StatusUpdate, Acceptable, AuthenticateFails, RemoteProgress,
           Handling
  <2> QED BY <1>2, <1>7, <1>8, <1>9, <2>1
<1> QED BY <1>3, <1>4, <1>5, <1>6, <1>10, <1>11 DEF Next

\* Whoever watches the stored object sees the stages of ResourceContract: an
\* identifier recorded once and never lost, no way out of Failed, no end but
\* through Deleting.
THEOREM StoredObjectImplementsContract == Spec => ImplementsContract
<1>1. Init => Contract!ContractInit
  <2> SUFFICES ASSUME Init PROVE Contract!ContractInit OBVIOUS
  <2>1. history = <<NewObject>> BY DEF Init
  <2>2. api = NewObject BY <2>1 DEF api
  <2>3. api.live = TRUE /\ api.deleting = FALSE /\ api.phase = "" /\ api.id = 0
    BY <2>2 DEF NewObject
  <2> QED BY <2>3 DEF Contract!ContractInit
<1>2. /\ TypeOK /\ LifecycleInv /\ (TypeOK /\ LifecycleInv)' /\ [Next]_vars
      => [Contract!ContractNext]_(Contract!contractVars)
  BY ContractStep
<1> QED
  BY <1>1, <1>2, LifecycleInvariant, PTL DEF Spec, ImplementsContract, Contract!ContractSpec
=============================================================================
