------------------------ MODULE DeliveredSpec_proofs ------------------------
(***************************************************************************)
(* What the remote side is told of the spec: the fields that updates send  *)
(* never go back to older values, and what is reported as applied has the  *)
(* stored ones.  On top of the invariant of ResourceLifecycle_proofs,      *)
(* generations are compared.                                               *)
(***************************************************************************)
EXTENDS ResourceLifecycle_proofs

-----------------------------------------------------------------------------
(* The invariant. *)

\* Later versions have later specs.
Ordered ==
    \A i, j \in 1..Len(history) : i <= j => history[i].gen <= history[j].gen

\* Generation g is none of a version still to come.
NotAhead(g) == \A v \in Versions : g <= v.gen

\* Nobody has told the remote side of a spec the cache does not show yet, and the copy
\* of a handler is no older than what the remote side was told.
ToldInv ==
    /\ \A r \in 1..Len(remote) : NotAhead(remote[r].gen)
    /\ pc = "reconcile" =>
         /\ NotAhead(obj.gen)
         /\ \A r \in 1..Len(remote) : remote[r].gen <= obj.gen

\* A status that will report a spec as applied, and will be accepted, tells the truth.
Reports == pc = "write" /\ fresh /\ obj.phase = "Created"
               /\ api.phase \in {"Creating", "Updating"}
ReportInv ==
    Reports => /\ obj.id \in 1..Len(remote)
               /\ remote[obj.id].gen = api.gen
               /\ api.phase = "Creating" => remote[obj.id].made = api.gen
               /\ obj.obs = api.gen

SpecInv == Ordered /\ ToldInv /\ ReportInv

-----------------------------------------------------------------------------
(* How the versions change. *)

\* A write of a spec that is no older comes last.
LEMMA StoredOrder ==
    ASSUME TypeOK, Ordered, NEW v \in Object, api.gen <= v.gen, history' = Stored(v)
    PROVE  Ordered' /\ \A g \in Nat : NotAhead(g) => NotAhead(g)'
<1> USE LifecycleAssumption
<1>1. /\ Len(history) \in Nat \ {0} /\ api \in Object /\ api \in Versions
      /\ \A i \in 1..Len(history) : history[i] \in Object
  BY EmptySeq, ElementOfSeq, VersionsAreObjects DEF TypeOK
<1>2. \A w \in Object : w.gen \in Nat
  BY DEF Object
<1>3. \A i \in 1..Len(history) : history[i].gen <= api.gen
  BY <1>1 DEF Ordered, api
<1>4. \A g \in Nat : NotAhead(g) => NotAhead(g)'
  <2> SUFFICES ASSUME NEW g \in Nat, NotAhead(g), NEW w \in Versions'
               PROVE  g <= w.gen
    BY DEF NotAhead
  <2>1. w \in Versions \/ w = v
    BY StoredVersion DEF TypeOK
  <2>2. g <= api.gen
    BY <1>1 DEF NotAhead
  <2>3. g <= v.gen
    BY <1>1, <1>2, <2>2
  <2> QED
    BY <2>1, <2>3 DEF NotAhead
<1>5. CASE v = api
  <2>1. history' = history
    BY <1>5 DEF Stored
  <2>2. Ordered'
    BY <2>1 DEF Ordered
  <2> QED
    BY <1>4, <2>2
<1>6. CASE v # api /\ Len(history) <= MaxLag
  <2>1. history' = Append(history, v)
    BY <1>6 DEF Stored
  <2>2. /\ Len(history') = Len(history) + 1
        /\ \A i \in 1..Len(history) : history'[i] = history[i]
        /\ history'[Len(history) + 1] = v
    BY <2>1, AppendProperties DEF TypeOK
  <2>3. \A i \in 1..Len(history) : history[i].gen <= v.gen
    BY <1>1, <1>2, <1>3
  <2>4. Ordered'
    BY <1>1, <1>2, <2>2, <2>3 DEF Ordered
  <2> QED
    BY <1>4, <2>4
<1>7. CASE v # api /\ ~(Len(history) <= MaxLag)
  <2>1. history' = [history EXCEPT ![Len(history)] = v]
    BY <1>7 DEF Stored
  <2>2. /\ Len(history') = Len(history)
        /\ \A i \in 1..Len(history) :
             history'[i] = IF i = Len(history) THEN v ELSE history[i]
    BY <1>1, <2>1, ExceptSeq DEF TypeOK
  <2>3. \A i \in 1..Len(history) : history[i].gen <= v.gen
    BY <1>1, <1>2, <1>3
  <2>4. Ordered'
    BY <1>1, <1>2, <2>2, <2>3 DEF Ordered
  <2> QED
    BY <1>4, <2>4
<1> QED
  BY <1>4, <1>5, <1>6, <1>7

\* Dropping versions keeps the rest in order.
LEMMA DroppedOrder ==
    ASSUME TypeOK, Ordered,
           \/ Len(history) > 1 /\ history' = Tail(history)
           \/ history' = <<api>>
    PROVE  Ordered' /\ \A g \in Nat : NotAhead(g) => NotAhead(g)'
<1>1. Len(history) \in Nat \ {0} /\ api \in Object /\ Versions' \subseteq Versions
  BY EmptySeq, VersionsAreObjects, DroppedVersions DEF TypeOK
<1>2. CASE Len(history) > 1 /\ history' = Tail(history)
  <2>1. /\ Len(history') = Len(history) - 1
        /\ \A i \in 1..Len(history') : history'[i] = history[i + 1]
    BY <1>2, HeadTailProperties DEF TypeOK
  <2>2. \A i, j \in 1..Len(history') :
          i <= j => i + 1 \in 1..Len(history) /\ j + 1 \in 1..Len(history) /\ i + 1 <= j + 1
    BY <1>1, <2>1
  <2>3. Ordered'
    BY <2>1, <2>2 DEF Ordered
  <2> QED
    BY <1>1, <2>3 DEF NotAhead
<1>3. CASE history' = <<api>>
  <2>1. Len(history') = 1 /\ history'[1] = api /\ api.gen \in Nat
    BY <1>1, <1>3, LifecycleAssumption DEF Object
  <2>2. Ordered'
    BY <2>1 DEF Ordered
  <2> QED
    BY <1>1, <2>2 DEF NotAhead
<1> QED
  BY <1>2, <1>3

\* So does time, which leaves every spec alone.
LEMMA AgedOrder ==
    ASSUME TypeOK, Ordered, history' = [i \in 1..Len(history) |-> Aged(history[i])]
    PROVE  Ordered' /\ \A g \in Nat : NotAhead(g) => NotAhead(g)'
<1>1. /\ Len(history) \in Nat
      /\ \A i \in 1..Len(history) : history[i] \in Object
      /\ Versions \subseteq Object
      /\ Versions' = {Aged(v) : v \in Versions}
  BY ElementOfSeq, LenProperties, VersionsAreObjects, AgedVersions DEF TypeOK
<1>2. \A v \in Object : Aged(v).gen = v.gen
  BY AgedSame
<1>3. Len(history') = Len(history)
  BY <1>1
<1>4. \A i \in 1..Len(history) : history'[i].gen = history[i].gen
  BY <1>1, <1>2
<1>5. Ordered'
  BY <1>3, <1>4 DEF Ordered
<1>6. \A w \in Versions' : \E v \in Versions : w.gen = v.gen
  BY <1>1, <1>2
<1> QED
  BY <1>5, <1>6 DEF NotAhead

\* Every step keeps the order, and nothing read or told gets ahead.
LEMMA OrderStep ==
    ASSUME TypeOK, Ordered, [Next]_vars
    PROVE  Ordered' /\ \A g \in Nat : NotAhead(g) => NotAhead(g)'
<1>1. api \in Object /\ obj \in Object
  BY VersionsAreObjects DEF TypeOK
<1>2. CASE history' = history
  BY <1>2 DEF Ordered, NotAhead, Versions
<1>3. ASSUME NEW v \in Object, v.gen = api.gen \/ v.gen = api.gen + 1, history' = Stored(v)
      PROVE  Ordered' /\ \A g \in Nat : NotAhead(g) => NotAhead(g)'
  <2>1. api.gen \in Nat
    BY <1>1, LifecycleAssumption DEF Object
  <2>2. api.gen <= v.gen
    BY <1>3, <2>1
  <2> QED
    BY <1>3, <2>2, StoredOrder
<1>4. /\ WithFinalizer(api) \in Object /\ WithoutFinalizer(api) \in Object
      /\ WithStatus(api, obj) \in Object
      /\ WithMetadata([api EXCEPT !.deleting = TRUE]) \in Object
      /\ api.gen < MaxGen => [api EXCEPT !.gen = api.gen + 1] \in Object
  BY <1>1, WrittenType
<1>5. /\ WithFinalizer(api).gen = api.gen /\ WithoutFinalizer(api).gen = api.gen
      /\ WithStatus(api, obj).gen = api.gen
      /\ WithMetadata([api EXCEPT !.deleting = TRUE]).gen = api.gen
      /\ [api EXCEPT !.gen = api.gen + 1].gen = api.gen + 1
  BY <1>1 DEF WithFinalizer, WithoutFinalizer, WithStatus, WithMetadata, Object
<1>6. CASE InitializeResource \/ RemoveFinalizer \/ StatusUpdate \/ UserEdit \/ UserDelete
  <2>1. \/ history' = history
        \/ history' = Stored(WithFinalizer(api)) \/ history' = Stored(WithoutFinalizer(api))
        \/ history' = Stored(WithStatus(api, obj))
        \/ history' = Stored(WithMetadata([api EXCEPT !.deleting = TRUE]))
        \/ api.gen < MaxGen /\ history' = Stored([api EXCEPT !.gen = api.gen + 1])
    BY <1>6 DEF InitializeResource, RemoveFinalizer, StatusUpdate, UserEdit, UserDelete
  <2> QED
    BY <1>2, <1>3, <1>4, <1>5, <2>1
<1>7. CASE WatchDeliver \/ Crash
  BY <1>7, DroppedOrder DEF WatchDeliver, Crash
<1>8. CASE Tick
  BY <1>8, AgedOrder DEF Tick
<1> QED
  BY <1>2, <1>6, <1>7, <1>8
     DEF Next, Worker, vars, Get, HandlePhaseTimeout, HandleToDelete, Creating, Provisioning,
         Updating, Created, Deleting, NothingToDo, AuthenticateFails, RemoteProgress

-----------------------------------------------------------------------------
(* What the remote side has been told. *)

\* The calls that tell the remote side a spec are those of Creating and Updating; whatever
\* else happens to the resources leaves their specs alone.
Told ==
    \/ /\ Len(remote') = Len(remote)
       /\ \A r \in 1..Len(remote) : remote'[r].gen = remote[r].gen
    \/ /\ Creating
       /\ Len(remote') = Len(remote) + 1
       /\ \A r \in 1..Len(remote) : remote'[r].gen = remote[r].gen
       /\ remote'[Len(remote) + 1].gen = obj.gen
    \/ /\ Updating
       /\ Len(remote') = Len(remote)
       /\ \A r \in 1..Len(remote) :
            remote'[r].gen = IF r = obj.id THEN obj.gen ELSE remote[r].gen

\* Every step is of one of these kinds.
LEMMA ToldStep ==
    ASSUME TypeOK, [Next]_vars
    PROVE  Told
<1>1. RemoteTypeOK /\ obj \in Object
  BY DEF TypeOK, RemoteTypeOK
<1>2. CASE remote' = remote
  BY <1>2 DEF Told
<1>3. CASE Creating
  <2>1. \/ remote' = remote
        \/ \E s \in RemoteStates : Len(remote) < MaxRemote /\ remote' = Adopted(obj, s)
    BY <1>3 DEF Creating
  <2>2. ASSUME NEW s \in RemoteStates, Len(remote) < MaxRemote, remote' = Adopted(obj, s)
        PROVE  Told
    <3>1. /\ Len(remote') = Len(remote) + 1
          /\ \A r \in 1..Len(remote) : remote'[r] = remote[r]
          /\ remote'[Len(remote) + 1] =
               [state |-> s, gen |-> obj.gen, made |-> obj.gen, denied |-> FALSE]
      BY <1>1, <2>2, AdoptedRemote
    <3> QED
      BY <1>3, <3>1 DEF Told
  <2> QED
    BY <1>2, <2>1, <2>2
<1>4. CASE Updating
  <2>1. remote' = remote \/ remote' = Pushed(obj)
    BY <1>4 DEF Updating
  <2> QED
    BY <1>1, <1>2, <1>4, <2>1, PushedRemote DEF Told
<1>5. CASE Deleting
  <2>1. remote' = remote \/ remote' = Erased(obj) \/ remote' = Denied(obj)
    BY <1>5 DEF Deleting
  <2>2. CASE remote' = Erased(obj)
    BY <1>1, <2>2, ErasedRemote DEF Told
  <2>3. CASE remote' = Denied(obj)
    BY <1>1, <2>3, DeniedRemote DEF Told
  <2> QED
    BY <1>2, <2>1, <2>2, <2>3
<1>6. CASE RemoteProgress
  BY <1>1, <1>6, ProgressedRemote DEF Told
<1> QED
  BY <1>2, <1>3, <1>4, <1>5, <1>6
     DEF Next, Worker, vars, Get, HandlePhaseTimeout, HandleToDelete, InitializeResource,
         Provisioning, Created, RemoveFinalizer, NothingToDo, StatusUpdate,
         AuthenticateFails, UserEdit, UserDelete, WatchDeliver, Tick, Crash

\* What the cache shows is none of a version still to come, and a handler starts with it.
LEMMA ReadStep ==
    ASSUME TypeOK, Ordered, [Next]_vars, pc' = "reconcile"
    PROVE  \/ pc = "reconcile" /\ obj'.gen = obj.gen
           \/ obj' = cache /\ UNCHANGED <<history, remote>>
<1>1. obj \in Object
  BY DEF TypeOK
<1>2. Aged(obj).gen = obj.gen
  BY <1>1, AgedSame
<1>3. CASE Get
  BY <1>3 DEF Get
<1>4. CASE Tick
  BY <1>2, <1>4 DEF Tick
<1>5. CASE UserEdit \/ UserDelete \/ WatchDeliver \/ RemoteProgress \/ UNCHANGED vars
  BY <1>5 DEF UserEdit, UserDelete, WatchDeliver, RemoteProgress, vars
<1>6. ASSUME NEW o, NEW current, NEW next, NEW cond, NEW requeue,
             NextPhaseOf(o, current, next, cond, requeue)
      PROVE  FALSE
  BY <1>6 DEF NextPhaseOf, DoneAndRequeue, Done
<1>7. ASSUME NEW o, NEW e, NextToFailedOnApiError(o, e)
      PROVE  FALSE
  BY <1>6, <1>7 DEF NextToFailedOnApiError, NextPhase
<1>8. ASSUME NEW o, NEW current, NextToFailedOnReconcileError(o, current)
      PROVE  FALSE
  BY <1>6, <1>8 DEF NextToFailedOnReconcileError
<1>9. ASSUME NEW o, NEW next, NEW cond, NEW requeue, NextPhase(o, next, cond, requeue)
      PROVE  FALSE
  BY <1>6, <1>9 DEF NextPhase
<1>10. CASE Done
  BY <1>10 DEF Done
<1>11. CASE HandlePhaseTimeout \/ HandleToDelete
  BY <1>9, <1>11 DEF HandlePhaseTimeout, HandleToDelete
<1>12. CASE InitializeResource
  BY <1>8, <1>9, <1>12 DEF InitializeResource
<1>13. CASE Creating
  BY <1>7, <1>9, <1>13 DEF Creating
<1>14. CASE Provisioning
  BY <1>7, <1>9, <1>14 DEF Provisioning
<1>15. CASE Updating
  BY <1>7, <1>9, <1>15 DEF Updating
<1>16. CASE Created
  BY <1>9, <1>10, <1>16 DEF Created
<1>17. CASE Deleting
  BY <1>7, <1>17 DEF Deleting, DeletionRefused
<1>18. CASE RemoveFinalizer
  BY <1>8, <1>10, <1>18 DEF RemoveFinalizer
<1>19. CASE NothingToDo \/ StatusUpdate \/ AuthenticateFails \/ Crash
  BY <1>10, <1>19 DEF NothingToDo, StatusUpdate, AuthenticateFails, Crash, DoneAndRequeue
<1> QED
  BY <1>3, <1>4, <1>5, <1>11, <1>12, <1>13, <1>14, <1>15, <1>16, <1>17, <1>18, <1>19
     DEF Next, Worker

\* Generations are natural numbers.
LEMMA Generations ==
    /\ \A o \in Object : o.gen \in Nat
    /\ \A s \in Seq(Resource) :
          /\ Len(s) \in Nat /\ DOMAIN s = 1..Len(s)
          /\ \A r \in 1..Len(s) : s[r].gen \in Nat
<1>1. \A o \in Object : o.gen \in Nat
  BY LifecycleAssumption DEF Object
<1>2. \A o \in Resource : o.gen \in Nat
  BY LifecycleAssumption DEF Resource
<1> QED
  BY <1>1, <1>2, LenProperties, ElementOfSeq

\* Every step keeps ToldInv.
LEMMA ToldInvStep ==
    ASSUME TypeOK, TypeOK', Ordered, ToldInv, [Next]_vars
    PROVE  ToldInv'
<1>1. /\ Len(remote) \in Nat /\ Len(remote') \in Nat
      /\ \A r \in 1..Len(remote) : remote[r].gen \in Nat
      /\ \A r \in 1..Len(remote') : remote'[r].gen \in Nat
      /\ obj.gen \in Nat /\ obj'.gen \in Nat
  <2>1. remote \in Seq(Resource) /\ remote' \in Seq(Resource)
    BY DEF TypeOK
  <2>2. obj \in Object /\ obj' \in Object
    BY DEF TypeOK
  <2> QED
    BY <2>1, <2>2, Generations
<1>2. \A g \in Nat : NotAhead(g) => \A v \in Versions' : g <= v.gen
  BY OrderStep DEF NotAhead
<1>3. Told
  BY ToldStep
<1>4. Creating \/ Updating => pc = "reconcile" /\ pc' # "reconcile"
  <2>1. ASSUME NEW o, NEW next, NEW cond, NEW requeue, NextPhase(o, next, cond, requeue)
        PROVE  pc' # "reconcile"
    BY <2>1 DEF NextPhase, NextPhaseOf, DoneAndRequeue, Done
  <2>2. ASSUME NEW o, NEW e, NextToFailedOnApiError(o, e)
        PROVE  pc' # "reconcile"
    BY <2>1, <2>2 DEF NextToFailedOnApiError
  <2>3. Creating => pc = "reconcile" /\ pc' # "reconcile"
    BY <2>1, <2>2 DEF Creating, Handling
  <2>4. Updating => pc = "reconcile" /\ pc' # "reconcile"
    BY <2>1, <2>2 DEF Updating, Handling
  <2> QED
    BY <2>3, <2>4
<1>5. \A r \in 1..Len(remote') :
        \/ r \in 1..Len(remote) /\ remote'[r].gen = remote[r].gen
        \/ pc = "reconcile" /\ remote'[r].gen = obj.gen
  <2>1. \A n \in Nat : \A r \in 1..(n + 1) : r \in 1..n \/ r = n + 1
    OBVIOUS
  <2> QED
    BY <1>1, <1>3, <1>4, <2>1 DEF Told
<1>6. \A r \in 1..Len(remote') : NotAhead(remote'[r].gen)
  BY <1>1, <1>5 DEF ToldInv
<1>7. \A r \in 1..Len(remote') : \A v \in Versions' : remote'[r].gen <= v.gen
  BY <1>1, <1>2, <1>6
<1>8. ASSUME pc' = "reconcile"
      PROVE  /\ \A v \in Versions' : obj'.gen <= v.gen
             /\ \A r \in 1..Len(remote') : remote'[r].gen <= obj'.gen
  <2>1. /\ Len(remote') = Len(remote)
        /\ \A r \in 1..Len(remote) : remote'[r].gen = remote[r].gen
    BY <1>3, <1>4, <1>8 DEF Told
  <2>2. CASE pc = "reconcile" /\ obj'.gen = obj.gen
    <3>1. NotAhead(obj.gen) /\ \A r \in 1..Len(remote) : remote[r].gen <= obj.gen
      BY <2>2 DEF ToldInv
    <3> QED
      BY <1>1, <1>2, <2>1, <2>2, <3>1
  <2>3. CASE obj' = cache /\ UNCHANGED <<history, remote>>
    <3>1. cache \in Versions
      BY VersionsAreObjects DEF TypeOK
    <3>2. NotAhead(cache.gen)
      <4>1. Len(history) \in Nat \ {0} /\ cache = history[1]
        BY EmptySeq, HeadTailProperties DEF TypeOK, cache
      <4>2. 1 \in 1..Len(history) /\ \A i \in 1..Len(history) : 1 <= i
        BY <4>1
      <4> QED
        BY <4>1, <4>2 DEF Ordered, NotAhead, Versions
    <3>3. \A r \in 1..Len(remote) : remote[r].gen <= cache.gen
      BY <3>1 DEF ToldInv, NotAhead
    <3> QED
      BY <1>1, <1>2, <2>1, <2>3, <3>2, <3>3
  <2> QED
    BY <1>8, <2>2, <2>3, ReadStep
<1> QED
  BY <1>7, <1>8 DEF ToldInv, NotAhead

\* No call that reaches the remote side brings an older spec back.
LEMMA AdvanceStep ==
    ASSUME TypeOK, ToldInv, [Next]_vars
    PROVE  \A r \in DOMAIN remote : remote'[r].gen >= remote[r].gen
<1>1. /\ Len(remote) \in Nat /\ DOMAIN remote = 1..Len(remote)
      /\ \A r \in 1..Len(remote) : remote[r].gen \in Nat
      /\ obj.gen \in Nat
  BY Generations DEF TypeOK
<1>2. Updating => \A r \in 1..Len(remote) : remote[r].gen <= obj.gen
  BY DEF Updating, Handling, ToldInv
<1>3. \A g \in Nat : g >= g
  OBVIOUS
<1>4. \A g, h \in Nat : g <= h => h >= g
  OBVIOUS
<1>5. \A r \in 1..Len(remote) :
        \/ remote'[r].gen = remote[r].gen
        \/ Updating /\ remote'[r].gen = obj.gen
  BY ToldStep DEF Told
<1> QED
  BY <1>1, <1>2, <1>3, <1>4, <1>5

-----------------------------------------------------------------------------
(* What a status about to be written reports. *)

\* What NextPhase asks to be written.
LEMMA AskedStatus ==
    ASSUME NEW o \in Object, NEW current, NEW next, NEW cond, NEW requeue,
           NextPhaseOf(o, current, next, cond, requeue), pc' = "write"
    PROVE  /\ fresh' = current
           /\ obj'.phase = next /\ obj'.id = o.id /\ obj'.obs = o.gen
<1>1. obj' = Entering(o, next, cond) /\ fresh' = current
  BY DEF NextPhaseOf, DoneAndRequeue, Done
<1> QED
  BY <1>1 DEF Entering, Object

\* An error does not report anything as applied.
LEMMA ErrorsReportNothing ==
    ASSUME NEW o \in Object, pc' = "write",
           \/ \E e \in ErrorKinds : NextToFailedOnApiError(o, e)
           \/ \E current \in BOOLEAN : NextToFailedOnReconcileError(o, current)
    PROVE  obj'.phase \in {"Failed", o.phase}
BY AskedStatus DEF NextToFailedOnApiError, NextToFailedOnReconcileError, NextPhase

\* Every step keeps ReportInv.
LEMMA ReportStep ==
    ASSUME TypeOK, VersionsInv, WorkerInv, ReportInv, [Next]_vars
    PROVE  ReportInv'
<1>1. /\ obj \in Object /\ api \in Object
      /\ remote \in Seq(Resource) /\ RemoteTypeOK
      /\ Len(remote) \in Nat
  BY VersionsAreObjects, LenProperties DEF TypeOK, RemoteTypeOK
<1>2. pc' # "write" \/ fresh' = FALSE \/ obj'.phase # "Created" => ReportInv'
  BY DEF ReportInv, Reports
<1>3. pc = "reconcile" /\ fresh => obj = api
  BY DEF WorkerInv
<1>4. ASSUME NEW next, next # "Created", NEW o \in Object, NEW current \in BOOLEAN,
             NEW cond, NEW requeue, NextPhaseOf(o, current, next, cond, requeue)
      PROVE  ReportInv'
  BY <1>2, <1>4, AskedStatus
<1>5. ASSUME NEW o \in Object, o.phase # "Created",
             \/ \E e \in ErrorKinds : NextToFailedOnApiError(o, e)
             \/ \E current \in BOOLEAN : NextToFailedOnReconcileError(o, current)
      PROVE  ReportInv'
  BY <1>2, <1>5, ErrorsReportNothing
<1>6. CASE Get \/ NothingToDo \/ StatusUpdate \/ AuthenticateFails \/ Crash
  BY <1>2, <1>6
     DEF Get, NothingToDo, StatusUpdate, AuthenticateFails, Crash, DoneAndRequeue, Done
<1>7. CASE UserEdit \/ UserDelete
  BY <1>2, <1>7 DEF UserEdit, UserDelete
<1>8. CASE HandlePhaseTimeout \/ HandleToDelete
  BY <1>1, <1>4, <1>8 DEF HandlePhaseTimeout, HandleToDelete, NextPhase, TypeOK
<1>9. CASE InitializeResource
  <2> DEFINE guarded == [obj EXCEPT !.finalizer = TRUE]
  <2>1. guarded \in Object /\ guarded.phase = ""
    BY <1>1, <1>9 DEF InitializeResource, Handling, Object
  <2>2. \/ NextPhase(guarded, "Creating", "False", TRUE)
        \/ \E current \in BOOLEAN : NextToFailedOnReconcileError(guarded, current)
    BY <1>9 DEF InitializeResource
  <2> HIDE DEF guarded
  <2> QED
    BY <1>4, <1>5, <2>1, <2>2 DEF NextPhase, TypeOK
<1>10. CASE RemoveFinalizer
  <2> DEFINE released == [obj EXCEPT !.finalizer = FALSE]
  <2>1. released \in Object /\ released.phase = "Deleting"
    BY <1>1, <1>10 DEF RemoveFinalizer, WorkerInv, Object
  <2>2. Done \/ \E current \in BOOLEAN : NextToFailedOnReconcileError(released, current)
    BY <1>10 DEF RemoveFinalizer
  <2> HIDE DEF released
  <2> QED
    BY <1>2, <1>5, <2>1, <2>2 DEF Done
<1>11. CASE Created
  <2>1. NextPhase(obj, "Updating", "False", TRUE) \/ Done
    BY <1>11 DEF Created
  <2> QED
    BY <1>1, <1>2, <1>4, <2>1 DEF NextPhase, Done, TypeOK
<1>12. CASE Deleting
  <2>1. obj.phase = "Deleting"
    BY <1>12 DEF Deleting, Handling
  <2>2. pc' = "unfinalize" \/ \E e \in ErrorKinds : NextToFailedOnApiError(obj, e)
    BY <1>12 DEF Deleting, DeletionRefused, ErrorKinds
  <2> QED
    BY <1>1, <1>2, <1>5, <2>1, <2>2
<1>13. CASE Provisioning
  <2>1. /\ obj.phase = "Provisioning" /\ pc = "reconcile"
        /\ history' = history /\ api' = api
    BY <1>13 DEF Provisioning, Handling, api
  <2>2. \/ \E next, cond, requeue : NextPhase(obj, next, cond, requeue)
        \/ \E e \in ErrorKinds : NextToFailedOnApiError(obj, e)
    BY <1>13 DEF Provisioning
  <2>3. CASE \E next, cond, requeue : NextPhase(obj, next, cond, requeue)
    <3>1. pc' = "write" => fresh' = fresh
      BY <1>1, <2>3, AskedStatus DEF NextPhase
    <3> QED
      BY <1>3, <2>1, <3>1 DEF ReportInv, Reports
  <2> QED
    BY <1>1, <1>5, <2>1, <2>2, <2>3
<1>14. CASE Creating
  <2>1. /\ obj.phase = "Creating" /\ pc = "reconcile"
        /\ history' = history /\ api' = api
    BY <1>14 DEF Creating, Handling, api
  <2>2. \/ \E e \in ErrorKinds : NextToFailedOnApiError(obj, e)
        \/ /\ Len(remote) < MaxRemote
           /\ \E s \in RemoteStates : remote' = Adopted(obj, s)
           /\ \/ NextPhase(Recorded(obj), "Provisioning", "False", TRUE)
              \/ NextPhase(Recorded(obj), "Created", "True", TRUE)
    BY <1>14 DEF Creating, ErrorKinds
  <2>3. CASE \E e \in ErrorKinds : NextToFailedOnApiError(obj, e)
    BY <1>1, <1>5, <2>1, <2>3
  <2>4. CASE /\ Len(remote) < MaxRemote
             /\ \E s \in RemoteStates : remote' = Adopted(obj, s)
             /\ \/ NextPhase(Recorded(obj), "Provisioning", "False", TRUE)
                \/ NextPhase(Recorded(obj), "Created", "True", TRUE)
    <3>1. PICK s \in RemoteStates : remote' = Adopted(obj, s)
      BY <2>4
    <3>2. /\ Len(remote') = Len(remote) + 1
          /\ remote'[Len(remote) + 1] =
               [state |-> s, gen |-> obj.gen, made |-> obj.gen, denied |-> FALSE]
      BY <1>1, <2>4, <3>1, AdoptedRemote
    <3>3. /\ Recorded(obj) \in Object
          /\ Recorded(obj).id = Len(remote) + 1 /\ Recorded(obj).gen = obj.gen
      <4>1. Len(remote) + 1 \in 0..MaxRemote
        BY <1>1, <2>4, LifecycleAssumption
      <4> QED
        BY <1>1, <4>1 DEF Recorded, Object
    <3>4. CASE NextPhase(Recorded(obj), "Provisioning", "False", TRUE)
      BY <1>4, <3>3, <3>4 DEF NextPhase, TypeOK
    <3>5. CASE NextPhase(Recorded(obj), "Created", "True", TRUE)
      <4>1. pc' = "write" => /\ fresh' = fresh
                             /\ obj'.id = Len(remote) + 1 /\ obj'.obs = obj.gen
        BY <3>3, <3>5, AskedStatus DEF NextPhase
      <4>2. Len(remote) + 1 \in 1..Len(remote')
        BY <1>1, <3>2
      <4>3. /\ remote'[Len(remote) + 1].gen = obj.gen
            /\ remote'[Len(remote) + 1].made = obj.gen
        BY <3>2
      <4> QED
        BY <1>3, <2>1, <4>1, <4>2, <4>3 DEF ReportInv, Reports
    <3> QED
      BY <2>4, <3>4, <3>5
  <2> QED
    BY <2>2, <2>3, <2>4
<1>15. CASE Updating
  <2>1. /\ obj.phase = "Updating" /\ pc = "reconcile"
        /\ history' = history /\ api' = api
    BY <1>15 DEF Updating, Handling, api
  <2>2. \/ \E e \in ErrorKinds : NextToFailedOnApiError(obj, e)
        \/ remote' = Pushed(obj) /\ NextPhase(obj, "Created", "True", TRUE)
    BY <1>15 DEF Updating, ErrorKinds
  <2>3. CASE remote' = Pushed(obj) /\ NextPhase(obj, "Created", "True", TRUE)
    <3>1. obj.id \in 1..Len(remote)
      <4>1. obj.id # 0 /\ obj.id \in 0..Len(remote)
        BY <2>1 DEF WorkerInv, Sound
      <4> QED
        BY <1>1, <4>1
    <3>2. Len(remote') = Len(remote) /\ remote'[obj.id].gen = obj.gen
      BY <1>1, <2>3, <3>1, PushedRemote
    <3>3. pc' = "write" => fresh' = fresh /\ obj'.id = obj.id /\ obj'.obs = obj.gen
      BY <1>1, <2>3, AskedStatus DEF NextPhase
    <3> QED
      BY <1>3, <2>1, <3>1, <3>2, <3>3 DEF ReportInv, Reports
  <2> QED
    BY <1>1, <1>5, <2>1, <2>2, <2>3
<1>16. ASSUME pc' = pc, fresh' = fresh, Len(remote') = Len(remote),
              \A r \in 1..Len(remote) :
                  remote'[r].gen = remote[r].gen /\ remote'[r].made = remote[r].made,
              api'.phase = api.phase, api'.gen = api.gen,
              obj'.phase = obj.phase, obj'.id = obj.id, obj'.obs = obj.obs
       PROVE  ReportInv'
  BY <1>16 DEF ReportInv, Reports
<1>17. CASE WatchDeliver
  <2>1. api' = api
    BY <1>17, DroppedVersions DEF WatchDeliver, TypeOK
  <2> QED
    BY <1>16, <1>17, <2>1 DEF WatchDeliver
<1>18. CASE RemoteProgress
  BY <1>1, <1>16, <1>18, ProgressedRemote DEF RemoteProgress, api
<1>19. CASE Tick
  <2>1. api' = Aged(api)
    BY <1>19, AgedVersions DEF Tick, TypeOK
  <2>2. \A v \in Object : Aged(v).obs = v.obs
    BY DEF Aged, Object
  <2> QED
    BY <1>1, <1>16, <1>19, <2>1, <2>2, AgedSame DEF Tick
<1>20. CASE UNCHANGED vars
  BY <1>16, <1>20 DEF vars, api
<1> QED
  BY <1>6, <1>7, <1>8, <1>9, <1>10, <1>11, <1>12, <1>13, <1>14, <1>15, <1>17, <1>18, <1>19,
     <1>20
     DEF Next, Worker

-----------------------------------------------------------------------------
(* The theorems. *)

\* Nothing has been told or reported in the beginning.
LEMMA SpecInvInit == Init => SpecInv
<1> SUFFICES ASSUME Init PROVE SpecInv
  OBVIOUS
<1>1. history = <<NewObject>> /\ remote = <<>> /\ pc = "idle"
  BY DEF Init
<1>2. Len(history) = 1 /\ history[1].gen = 1 /\ Len(remote) = 0
  BY <1>1, EmptySeq DEF NewObject
<1> QED
  BY <1>1, <1>2 DEF SpecInv, Ordered, ToldInv, ReportInv, Reports

\* The inductive invariant: what the remote side has been told lies between what handlers
\* may still read and what is stored, and a status that reports it is true.
LEMMA SpecInvariant == Spec => [](TypeOK /\ LifecycleInv /\ SpecInv)
<1>1. /\ TypeOK /\ LifecycleInv /\ (TypeOK /\ LifecycleInv)' /\ SpecInv /\ [Next]_vars
      => SpecInv'
  BY InvParts, OrderStep, ToldInvStep, ReportStep DEF SpecInv
<1> QED
  BY <1>1, SpecInvInit, LifecycleInvariant, PTL DEF Spec

\* The fields an update sends never go back to an older version at the remote side: no
\* late, repeated or restarted update, and no update from an old copy, undoes a newer
\* one.
THEOREM NoOlderSpec == Spec => RemoteSpecAdvances
<1>1. TypeOK /\ SpecInv /\ [Next]_vars
      => [\A r \in DOMAIN remote : remote'[r].gen >= remote[r].gen]_vars
  BY AdvanceStep DEF SpecInv
<1> QED
  BY <1>1, SpecInvariant, PTL DEF Spec, RemoteSpecAdvances

\* A phase changes only by a status write of a current copy.
LEMMA ConfirmStep ==
    ASSUME TypeOK, LifecycleInv, SpecInv, [Next]_vars,
           api.phase \in {"Creating", "Updating"}, api'.phase = "Created"
    PROVE  /\ remote'[api'.id].gen = api'.gen
           /\ api.phase = "Creating" => remote'[api'.id].made = api'.gen
           /\ api'.obs = api'.gen
<1>1. api \in Object /\ obj \in Object
  BY VersionsAreObjects DEF TypeOK
<1>2. ASSUME NEW w \in Object, history' = Stored(w)
      PROVE  api' = w
  BY <1>2, StoredVersion DEF TypeOK
<1>3. CASE api'.phase = api.phase
  BY <1>3
<1>4. CASE history' = history
  BY <1>3, <1>4 DEF api
<1>5. CASE WatchDeliver \/ Crash
  BY <1>3, <1>5, DroppedVersions DEF WatchDeliver, Crash, TypeOK
<1>6. CASE Tick
  BY <1>1, <1>3, <1>6, AgedVersions, AgedSame DEF Tick, TypeOK
<1>7. CASE UserEdit
  <2>1. api' = [api EXCEPT !.gen = api.gen + 1]
    BY <1>1, <1>2, <1>7, WrittenType DEF UserEdit
  <2> QED
    BY <1>1, <1>3, <2>1 DEF Object
<1>8. CASE UserDelete
  <2>1. api' = WithMetadata([api EXCEPT !.deleting = TRUE])
    BY <1>1, <1>2, <1>8, WrittenType DEF UserDelete
  <2> QED
    BY <1>1, <1>3, <2>1 DEF WithMetadata, Object
<1>9. CASE history' = Stored(WithFinalizer(api)) \/ history' = Stored(WithoutFinalizer(api))
  <2>1. api' = WithFinalizer(api) \/ api' = WithoutFinalizer(api)
    BY <1>1, <1>2, <1>9, WrittenType
  <2> QED
    BY <1>1, <1>3, <2>1 DEF WithFinalizer, WithoutFinalizer, WithMetadata, Object
<1>10. CASE /\ pc = "write" /\ fresh /\ remote' = remote
            /\ history' = Stored(WithStatus(api, obj))
  <2>1. api' = WithStatus(api, obj)
    BY <1>1, <1>2, <1>10, WrittenType
  <2>2. /\ api'.phase = obj.phase /\ api'.id = obj.id /\ api'.obs = obj.obs
        /\ api'.gen = api.gen
    BY <1>1, <2>1 DEF WithStatus, Object
  <2> QED
    BY <1>10, <2>2 DEF SpecInv, ReportInv, Reports
<1>11. CASE Worker \/ AuthenticateFails \/ RemoteProgress
  <2>1. \/ history' = history
        \/ history' = Stored(WithFinalizer(api)) \/ history' = Stored(WithoutFinalizer(api))
        \/ /\ pc = "write" /\ fresh /\ remote' = remote
           /\ history' = Stored(WithStatus(api, obj))
    BY <1>11
       DEF Worker, Get, HandlePhaseTimeout, HandleToDelete, InitializeResource,
           Creating, Provisioning, Updating, Created, Deleting, RemoveFinalizer,
           NothingToDo, StatusUpdate, Acceptable, AuthenticateFails, RemoteProgress
  <2> QED
    BY <1>4, <1>9, <1>10, <2>1
<1>12. CASE UNCHANGED vars
  BY <1>4, <1>12 DEF vars
<1> QED
  BY <1>5, <1>6, <1>7, <1>8, <1>11, <1>12 DEF Next

\* When an update is reported as Created, the remote resource has the stored spec in
\* every field an update sends, and when a creation finished at once is, in every field:
\* the status write of a pass that an edit overtook is refused.
THEOREM ReportsAreTrue == Spec => ReportedFieldsAreStored
<1>1. TypeOK /\ LifecycleInv /\ SpecInv /\ [Next]_vars
      => [ /\ api.phase \in {"Creating", "Updating"}
           /\ api'.phase = "Created"
           => /\ remote'[api'.id].gen = api'.gen
              /\ api.phase = "Creating" => remote'[api'.id].made = api'.gen
              /\ api'.obs = api'.gen ]_vars
  BY ConfirmStep
<1> QED
  BY <1>1, SpecInvariant, PTL DEF Spec, ReportedFieldsAreStored
=============================================================================
