# Verification of the Aruba Cloud resource operator

A Kubernetes operator with nine controllers, one per kind of Aruba Cloud
resource. Each custom resource is a small state machine, driven by a shared
reconciler: its status records how far the remote resource has come. This
directory holds TLA+ models of that code, the TLC runs that check them on small
instances, and proofs, checked by TLAPS, of what holds for every instance.

Paths are relative to `src/`; `reconciler.go` is `internal/reconciler/reconciler.go`.

## 1. The system

| Component | Code | State | Operations |
|---|---|---|---|
| Shared reconciler | `internal/reconciler/reconciler.go`, `api/v1alpha1/common_types.go` | none of its own; `status` and finalizers of the stored object | `Reconcile`, `HandlePhaseTimeout`, `HandleToDelete`, `Next`, `NextToFailedOnApiError`, `NextToFailedOnReconcileError`, `InitializeResource`, `HandleCreating/Provisioning/Updating/Deletion`, `CheckForUpdates` |
| References | `reconciler.go:560-692` | reads `status.resourceID` of other objects | `GetProjectID` ... `GetKeyPairID` |
| Controllers: project, vpc, subnet, securitygroup, securityrule, blockstorage, elasticip, keypair | `internal/controller/*_controller.go` | the identifiers of the parents, in `status` | `Init`, `Creating`, `Provisioning`, `Updating`, `Created`, `Deleting` |
| Controller: cloudserver | `internal/controller/cloudserver_controller.go`, `internal/util/cloudserver_util.go` | also the attached data volumes | the same, with its own `Created` and `Updating` |
| Authentication | `reconciler.go:522-558`, `internal/client/helper.go:85` | one `apiToken` shared by all controllers | `Authenticate`, `SetAPIToken` |
| Token manager | `internal/client/oauth_client.go` | credentials, token cache by tenant | `GetActiveToken`, `SetClientIdAndSecret`, `GetAccessToken`, `isExpired` |
| Vault client | `internal/client/vault_client.go` | token, TTL, renewable, cancel function | `login`, `GetSecret`, `autoRenew`, `renewSelf`, `StartAutoRenew`, `Close` |
| API client | `internal/client/helper.go`, `internal/client/aruba*_client.go` | the shared token | `DoAPIRequest` and one method per remote operation |
| Conditions, volume changes | `internal/util` | none | `UpdateConditions`, `CalculateVolumeChanges` |
| Configuration | `internal/config` | read once | `Load`, `Validate` |
| Process | `cmd/main.go` | wiring | start, leader election |

How they interact. The API server stores custom resources; an informer keeps a
cache of them that lags behind, and every event puts a key into the controller's
queue. One worker per controller takes a key and calls `Reconcile`, which reads
the **cache**, logs in, checks the phase's timeout and a requested deletion, and
then runs the handler of the phase: a call to the Aruba Cloud API, then a status
write (`Next`) or a metadata write (finalizers). The API server refuses a write
of a copy that is not the stored version. Everything the operator knows between
two passes is in the stored status; nothing else survives.

What is hard, and what makes each component correct:

* *Reconciler.* A pass acts on an old copy; a user edits or deletes at any moment,
  also between the remote call and the status write; replies are lost; the process
  restarts. Correct: nothing is created for an object that may vanish unseen;
  nothing is deleted without a request; what is gone was deleted remotely, or its DELETE was
  answered as if; what is reported as applied was sent; phases end; deletions end.
* *References.* An identifier is taken as a sign of readiness, read from one cache and
  used later; references can be edited and objects replaced under their names. Correct:
  every call reaches the resource that was recorded, a resource is recorded only below
  the parents its object refers to, and what is gone was deleted, or its DELETE answered as if.
* *Cloud server.* Two remote calls in one handler, a comparison of generations
  that `Next` has already made equal. Correct: every change of the spec is sent,
  the recorded volumes are the attached ones.
* *Authentication.* Nine workers share one token and one pair of credentials,
  with locks around single steps only. Correct: a request carries a token of its
  own tenant, not expired.
* *Vault client.* A background renewal and a re-login beside the readers. Correct:
  the token is renewed before it expires as long as the process runs.

`PROJECT.json` lists the hazards line by line, with the properties that cover them.

## 2. Modules

| Module | Content |
|---|---|
| `ResourceContract` | Abstract: the stages somebody sees who watches only the stored object. No cache, worker, retry or remote side. |
| `RemoteContract` | Abstract: what the operator does to its user's account, as somebody sees it who watches the remote resources and knows the user's wishes. No phase, pass or fault. |
| `ResourceLifecycle` | The shared reconciler, one object, its cache, its worker and its remote resources; the properties; the refinement of `ResourceContract` and of `RemoteContract`. |
| `RetryTimer` | The clock of a phase: requeues, debounce, timeout, and how often the handler runs. |
| `ResourceExpectations` | What comments and test plans say and the code does not do. |
| `References` | Many objects of all nine kinds that refer to each other, their nine workers, and the tree of remote resources; each object follows `ResourceContract`. |
| `CloudServer` | The cloud server's own `Created` and `Updating`: property updates and data volumes. |
| `Authentication` | The workers' way to a token: `Authenticate`, the token manager, the shared client. |
| `VaultClient` | The operator's own Vault token: login, renewal goroutine, `Close`. |
| `*_proofs` | The theorems about the module of that name, and their proofs; `DeliveredSpec_proofs` is about `ResourceLifecycle` too, and `RemoteContract_proofs` says that it implements `RemoteContract`. |
| `MC*` | What TLC runs. |

They divide the system by what interacts. `ResourceLifecycle` has one object in full
detail (finalizer, timeout, debounce, lost replies, restart) and no other objects.
`References` has all objects and their interplay, and of the reconciler only what an
observer of one object can tell: it merges a pass's writes and leaves the clock out, and
that its objects keep to `ResourceContract`, as those of `ResourceLifecycle` do, is what
ties the two together. `RetryTimer` has the clock that `ResourceLifecycle` leaves out, and nothing
else. `CloudServer` refines the two phases of one kind. `Authentication` stands before every
handler, and `VaultClient` behind its `GetSecret`.

Operators named `X_Y` are faults seeded into `X`: replacing `X` by one of them must
break the property `PROJECT.json` pairs it with. Nothing else uses them.

### ResourceLifecycle and the code

State:

| Variable | Stands for |
|---|---|
| `history` | the versions of the object from the one in the informer cache (`cache`, first) to the stored one (`api`, last) |
| `pc`, `obj`, `fresh` | what the worker does next, the copy it works on, and whether the copy's `resourceVersion` is still the stored one |
| `queued` | the key is in the queue, now or after a delay |
| `remote` | resources created in the account on behalf of the object; the index is the identifier. `state`; `gen`, the version of the fields that updates send; `made`, the version it was created with, which the other fields keep; `denied`, a DELETE was answered by 404 or 405 although it is there |
| `faults` | faults so far, bounded by `MaxFaults` |

An object has what the control flow reads: live, generation (the version of the
spec), deletion timestamp, finalizer, phase, identifier, observed generation, age
of `phaseStartTime`, and the status of condition `Synchronized`. Messages and reasons
are left out. Of the spec, two parts are told apart: the fields that an update sends, and
those that only a creation does. To the second belong a key pair's `value`
(`keypair_controller.go:129`), a volume's type, image and bootable
(`blockstorage_controller.go:130-143`), and the references (the cloud server, which does send some of
its own, is in `CloudServer`).

One pass of `Reconcile` is cut where somebody else can act in between:

1. `Get` reads the cache. `AuthenticateFails` is `Authenticate` returning an error.
2. `HandlePhaseTimeout`, `HandleToDelete`, or the handler of the phase:
   `InitializeResource` (with its metadata write), `Creating`, `Provisioning`,
   `Updating`, `Created`, `Deleting` (each with its remote call), `NothingToDo`.
   A handler ends in `NextPhase`: debounced, or a status asked to be written.
3. `StatusUpdate`, the write; or `RemoveFinalizer`, the metadata write at the
   end of `HandleDeletion`.

A remote call and the local code after it form one step: the other parties can
act before it and after it, and what they do during the call has the effect of
doing it after. Each remote call may succeed, be refused with any kind of error
(`ErrorKinds`: 400 or 404; another 4xx; 5xx; no answer of the API), or be carried
out with its reply lost. Each write may be accepted, refused as out of date, fail,
or be accepted with its reply lost. The world: `UserEdit`, `UserDelete`,
`WatchDeliver`, `RemoteProgress`, `Tick`, `Crash`.

Decisions a reader should know:

* **One object, one worker.** controller-runtime never runs two workers on one key,
  and no controller sets `MaxConcurrentReconciles`. Objects of one kind share
  nothing but the API token.
* **Cache lag.** `MaxLag` bounds the events not delivered yet; beyond it the newest
  version replaces the last one, as a watch resumed by a list does. So the cache can be
  any number of versions behind, with at most `MaxLag` still to come.
* **Time.** `maxPhaseTimeout` is `MaxPhaseTimeout` ticks and ages stop at one more.
  Delays of a requeue are not kept: a queued key may be taken at once or late. `RetryTimer` keeps them.
* **Debounce.** `Next` writes a retry in the same phase only when it falls on an
  exact multiple of 20 seconds (or with a clock set back); the model takes either branch,
  and `RetryTimer` computes which.
* **The remote side.** A creation that succeeds returns an identifier, and has the whole spec. An
  update changes the fields it sends. A DELETE answered by 404 or 405, which counts as success
  (`helper.go:136`), may be one of a resource that does not exist, or without an identifier, or
  of one that is there and stays: "they use 400 and 404 even if the resource is not ready"
  (`helper.go:65`). The model marks that one as `denied`. Of the
  errors in `InvalidStatus`, only 400 is left for a DELETE.
  A resource in creation becomes active or failed, at any time or never. The reply
  may omit the state, as `Status` is a pointer in the code.
* **Project** is the special case whose creation reply has no state; its
  `Provisioning` is never reached.
* **Not in the model**: an object created again under the same name, other finalizers,
  the removal of ours by hand, a user who writes the status. Kubernetes raises the generation of
  an object when its deletion is requested; this changes only whether `obs = gen`
  afterwards, which nothing reads once the object is being deleted.

The refinement of `RemoteContract` maps its `account` to `remote`, `wanted` to the stored generation,
`requested` to the deletion mark and `recorded` to the stored identifier. A call whose reply is lost has its effect
on the account all the same; a status write is `Record` or nothing. `Update` changes the fields updates send, so
that a resource may have a mix of two specs; `Deny` is the DELETE that is answered by 404 or 405 and deletes nothing.

### RetryTimer and the code

`age` is `time.Since(PhaseStartTime)`; `queued` and `timer` are the work queue, with its ready key and
the earliest of its delayed ones; `pass` is the worker, before and after `HandlePhaseTimeout`. `Retry` is
every `Next` that stays in its phase: `RequeueDelay` is what the debounce returns, or, when the retry
falls on a multiple and is written, the whole of `requeueAfter`. `PutOff` is a pass that ends in an error, which the
queue's rate limiter delays. Nothing is assumed of how long a pass takes (requests have no deadline) or how
late a worker or a timer is: that time is counted in `lost`, so that the properties are about the operator's own
waiting. `events` and `errors` count what may cause one more pass.

### References and the code

| Variable | Stands for |
|---|---|
| `store`, `seen` | each object as stored and as its kind's informer cache has it |
| `held` | the creation whose identifiers a worker has looked up and whose request is still to come |
| `remote` | `remote[o]`: the resources created on behalf of object `o`, each with the prefix of identifiers it was created below |
| `doings` | edits, deletions and creations by users, bounded by `MaxDoings` |

A controller is a record: the references its requests name (`path`, from the URLs the
client's methods build), the ones `Creating` resolves, the ones whose identifiers it stores,
and whether its creation reply tells a state. The handlers are then written once, as in
the shared reconciler. `IdOf` is `GetProjectID` ... `GetKeyPairID`: the cached object with an identifier,
whatever its phase. `Resolve` and `CreateSucceeds`/`CreateFails` split `HandleCreating` between
the lookups and the request; the lookups themselves are one step, though caches lag each for itself, so that
any combination of old and new objects can be read. `AddressOf` is what `Get`,
`Update` and `Delete` name: identifiers in the status, never the references. The remote
side accepts a creation below resources that exist, finds a resource only under the
prefix it was created with, and deletes what is below a deleted resource, or refuses. A
`Delete` that finds nothing succeeds, as 404 does in `DoAPIRequest`, and so does one that finds its resource and is
answered by 404 or 405: the resource stays, `denied`, and its object goes. A user may reuse a name. A cache takes over the
newest version at once (`Deliver`), or stays where it is: versions it would catch up with one by one while newer ones are
stored are skipped.

### CloudServer and the code

`server` and `seen` are the object and its cached copy, `remote` the server, `work` the pass:
`Updating` makes two calls and a status write, and is cut after each. What a handler changes in memory
travels in `work.copy` and reaches the object only by an accepted status write;
`Retry` forgets it when `Next` debounces. `props` are the fields the property update sends; an edit of any other changes
the generation only. `named` is the set of volumes whose objects have an
identifier. `unsure` is a history variable: the parts of the server a call has changed and no stored status has recorded.

### Authentication and the code

`shared` is `HelperClient.apiToken`, `creds` the credentials in the token manager, `lock` its
mutex, `cache` its tokens, `pass` what each worker is at. Every place where another worker can act is a step: the
cache is read, credentials are fetched and set, the lock is taken for a login, the answer is cached and
the lock given back, the client is given the token, and only then requests are made.
A token's `left` counts from its issue, a cache entry's `believed` from the answer. `crossed`
remembers whether passes for different tenants have ever overlapped.

### VaultClient and the code

`life` is what is left of the token at Vault; `ttl` and `renewable` are the client's fields;
`renewer`, `ctx`, `before` and `wait` are the goroutine, its context, `renewBefore` and its timer.
`Close` is what `NewReconciler` defers (`reconciler.go:82`), so it races with the start of the
goroutine. `Renew` is one turn of the loop after the timer: `renewSelf`, or else `login`.

## 3. Runs

| Run | Bounds | Question |
|---|---|---|
| `lifecycle_safety` | timeout 1 tick, 3 generations, 2 remote resources, lag 1, 1 fault; 1.5 million states | the invariants and action properties below, the inductive invariant, the two refinements |
| `lifecycle_liveness` | timeout 1, 2 generations, 1 remote resource, lag 1, 1 fault; 62 thousand states | the three liveness properties |
| `retry_timer` | intervals of 3, a timeout of 9, delays up to 5, 2 events, 2 errors; 650 thousand states | the timeout is noticed, no hot loop |
| `lost_edit` | no faults, 3 generations, 1 remote resource | refuted expectation, section 5 |
| `orphan` | no faults, no edits, 2 remote resources | refuted expectation, section 5 |
| `failed_is_final` | no faults, 2 generations, 1 remote resource | refuted expectations, section 5 |
| `references` | ten objects of all kinds, 3 of them touched by users, 2 doings, 2 remote resources per object; 195 thousand states | five properties of identifiers, stages and deaths |
| `cloudserver` | 2 volumes, 2 settings of the properties, 3 generations, 2 faults; 1.0 million states | invariants, what a status write may record, the contract, and a liveness property |
| `cloudserver_update` | 1 volume, 2 generations, no faults | refuted expectation, section 5 |
| `authentication` | 2 workers, 2 tenants, tokens live 5 ticks, margin 4, passes of at most 1 tick; 193 thousand states | tokens and locks |
| `other_tenant` | the same | refuted expectation, section 5 |
| `vault` | leases of 4, 12 and 60 seconds, the code's 10 seconds, 2 faults; 27 thousand states | renewal |

What the properties of the lifecycle say:

* `FinalizerGuardsRemote`: once anything was created, the stored object has the finalizer.
* `DeletedOnlyOnRequest`: a remote resource is deleted only if the deletion was requested
  and phase Deleting was stored, however old the copy is.
* `GoneWithResourceOrDenied`: an object that is gone had the resource it recorded deleted, or the DELETE of it
  was answered by 404 or 405. `orphan` shows the second; this says that nothing else, no timeout, refusal or lost
  reply, takes the finalizer away.
* `IdentifierMatchesPhase`: the handlers that name a resource have one to name.
* `ReportedFieldsAreStored`: when an update is reported as Created, the remote side has what is stored in
  all the fields that updates send; when a creation that finished at once is, in all fields. An edit during the
  call makes the status write a conflict; that is what this rests on.
* `RemoteSpecAdvances`: no late or repeated update brings an older value of a field it sends back.
* `ImplementsContract`: the stored object moves as `ResourceContract` says. Like `LifecycleInv`, it says nothing of
  the remote side: a creation carried out after its object timed out leaves both true.
* `ImplementsRemoteContract`: the account changes as `RemoteContract` says: only the resource on
  record is updated or deleted, with fields of a spec that was wanted and is no older than what the account has seen, never
  without a request and never after its deletion; and what goes on record is the resource created last.
* `SentFieldLostOnlyByProvisioning`: an object comes to rest in Created, its generation observed, with an older value at
  the remote side of a field that updates send, in one way only: the end of Provisioning. `lost_edit` shows that way; this
  says there is no other in the shared handlers (the cloud server's own are in `cloudserver_update`). The fields that
  updates leave out are lost by every update, as `lost_edit` shows too.
* `LostOnlyByFaultOrStaleCopy`: a resource drops out of every record only through a fault, or when a pass acts on a copy
  that is not the stored version. The copy may have become old while the worker held it, or have been old when it was
  read, be it only behind the operator's own last write, with no fault and no user involved: `orphan` shows that one. What
  is excluded is a loss by an undisturbed pass that read what is stored.
* `LifecycleInv`: the inductive invariant of section 4; its run is a check of the proof's
  statement, and its seeded fault shows that the run would notice.
* `TransitionEnds`, `EditIsNoticed`, `DeletionSettles`: no phase under way lasts
  for ever; an edit of a Created object starts an update; a deletion ends with the
  object gone or Failed.

What the others say:

* `AddressNamesItsResource`: the identifiers in an object's status always name the resource it
  recorded, at the place where it was created.
* `RemovalReachesRecordedResource`: an object goes only when the resource it has on record is deleted, or was denied its
  deletion by 404 or 405: the call that counts as done has named that very resource and no other.
* `FollowsContract`: every object keeps to `ResourceContract` whatever happens to the others.
* `ChildOfCurrentParents`: what is recorded as created lies below the resources that the referenced objects
  have on record at that very moment. Excepted are parents that outlived their object by a denied deletion: a worker may
  hold such an identifier, and the remote side accepts it.
* `DeathsAreRequested`: a resource dies only by a requested deletion of the very object that has it on record, or
  of one it lies below; never by an old copy of an object that was replaced under its name. A resource that was denied its deletion may
  die later, by the request that was made then or with its parent.
* `RecordsWhatIsWanted`: an update reported as done has recorded the volumes of the stored spec, and networks are never
  recorded of any other.
* `FollowsContract` of `CloudServer`: its own handlers lead through the stages of `ResourceContract`.
* `TimeoutIsNoticed`: a phase is under way for its timeout and one `requeueAfter` at most, plus `lost`.
* `CallsAreSpaced`: its handler runs once in each `requeueAfter`, plus once for each event, error and restart.
* `StatusTellsServer`: the status lists exactly the attached volumes, and the networks the server
  was given, outside of `unsure`.
* `VolumeRecordSettles`: when edits end, the recorded volumes become the wanted ones or the
  object fails.
* `OwnTokenUnlessCrossed`: requests carry a token of the right owner unless vault is on and passes for different
  tenants have overlapped.
* `NoExpiredToken`: no request carries an expired token as long as three passes fit into
  the margin: one that believes the token too long, one that hands it over, one that uses it.
* `EveryPassEnds`: nobody waits for the token manager's lock for ever.
* `RenewedInTime`: a waiting goroutine's token outlives its timer, unless the last attempt failed or
  the lease is one second.
* `TokenComesBack`: while the goroutine lives, an expired token is replaced.
* `EarlyCloseIsIgnored`: `Close` before the goroutine runs does not stop the renewal.

Why the bounds are enough. In the lifecycle, three generations let one edit be under way while another
arrives and the first is in the cache; two remote resources let a creation be repeated
after a lost reply; a lag of one event separates what was read, what is stored and what
is delivered; a timeout of one tick has ages before, at and beyond it; one fault puts a
crash, a failed login, a failed write or a lost reply at every place.
`lost_edit` needs a third generation for the second of its edits, `orphan` a second resource and no edit.
`lifecycle_liveness` needs no repeated creation and one edit is enough for `EditIsNoticed`.
Deadlock is not checked: an object that is gone with an empty queue takes no step, and
that is the end of it.

`references` begins with everything Created but a security rule, or everything but a
server, so that a creation runs beside settled objects; the VPC `net1` is a parent on two levels, the group a parent
and a child and the rule a child of both, and these three are edited, deleted and created again, twice in all: enough to
delete a parent and reuse its name while a child's creation holds the old identifier, with the deletion carried out or
denied. `cloudserver` has
two volumes, so that one can be attached while another is detached, three generations, so that
an edit comes between the phase change and the property update, and two faults, so that a reply and then a status write are lost.
`retry_timer`: the timeout is a multiple of the interval, as 5 minutes are of 20 seconds, so that a pass begins on it
and is not yet late; delays after errors are shorter and longer than an interval and overlap with it.
`authentication`: two workers are enough for any overlap of two passes; the margin of 4 is the smallest
for which passes of one tick may do. `vault` has a lease below the least margin, one just above, and one
whose fifth is more than the margin. In `references` and `cloudserver` deadlock is not checked: when users do nothing more and all has
settled, nothing is left to do. The proofs lift the bounds for what they cover.

Fairness (`FairSpec`). In `ResourceLifecycle`: weak fairness of `Worker`: the worker goroutine takes the next key
and finishes its pass. Of `WatchDeliver`: the informer works off its events. Of `Tick`:
time passes. Nothing is assumed of users, of the remote side or of `NextPhase`'s choices;
a phase ends because of its timeout even if the remote side never answers well. It does have to answer: weak
fairness of `Worker` says that every remote call, the login too, comes back at some time, with an answer or an error,
and the HTTP client of the code has no deadline that would see to it (`helper.go:75`). A call that is never answered
holds the worker for ever, and none of the liveness properties, in any module, is about that case. Faults
are bounded, which says that logins do not fail for ever: while they do, `Reconcile`
returns before the timeout is looked at (`reconciler.go:131`), and nothing ends.

In `CloudServer`: weak fairness of the worker, of the watch and of the volumes' controllers, which
give every volume an identifier in the end; strong fairness of `TimeOut`, which
is enabled whenever Updating is taken up again, and comes first in a pass once five minutes
are over (strong fairness asks a little more than the clock gives: that Updating is not left and entered for ever in
less than five minutes each time, which bounded edits exclude already). In `Authentication`: weak fairness of each worker's steps; strong fairness of the steps that take
the lock, as a `sync.Mutex` is handed to a waiter that has waited for a millisecond.
In `VaultClient`: weak fairness of everything that is not a fault. `References` and `RetryTimer` have no liveness: what
makes phases end is in `ResourceLifecycle`, and `RetryTimer` says by when.

## 4. Proofs

`ResourceLifecycle_proofs`, for every value of the constants under `LifecycleAssumption`
(a timeout, a generation and a lag of at least one; the others any natural number):

| Theorem | Statement |
|---|---|
| `TypeCorrect` | `Spec => []TypeOK` |
| `LifecycleInvariant` | `Spec => [](TypeOK /\ LifecycleInv)` |
| `FinalizerGuards` | `Spec => []FinalizerGuardsRemote` |
| `DeletionIsRequested` | `Spec => []DeletedOnlyOnRequest` |
| `GoneAfterDelete` | `Spec => []GoneWithResourceOrDenied` |
| `IdentifierFitsPhase` | `Spec => []IdentifierMatchesPhase` |
| `StoredObjectImplementsContract` | `Spec => ImplementsContract` |

The argument. None of the safety invariants is inductive: a step of the worker acts on
`obj`, a copy of a version that may be long past, and the properties speak of the stored
object and of the remote side. `LifecycleInv` closes the gap with three ideas.

* `Sound(v)`: what is true of every version by itself. Past its first phase it carries
  the finalizer; in Deleting it is to be deleted; the identifier fits the phase.
* `Outlasts(v, w)`: what a version says for ever about a later one. The deletion mark
  stays; Deleting is followed only by Deleting or Failed, Failed by nothing else; an
  identifier, once recorded, stays. Every cached version, and the worker's copy,
  outlasts the stored object, so what a handler concludes from its copy about deleting or
  creating is still true of what is stored.
* `WorkerInv`: a copy that is still current equals the stored object, and a status about
  to be written by a current copy is one of the `Moves` the handlers ask for.

The lemmas follow that order: what a write, a delivery, a restart and a tick do to the
versions; what a remote call does to the resources; which of these keep which part;
then one lemma per action (`InitializeResourceKeeps`, `GetKeeps`, ...), joined in
`InvStep`. The refinement uses the invariant: a current copy's status write is one step of
the contract by its `Moves`, and every other step leaves the stored object alone or is a
metadata write.

`DeliveredSpec_proofs` builds on it:

| Theorem | Statement |
|---|---|
| `NoOlderSpec` | `Spec => RemoteSpecAdvances` |
| `ReportsAreTrue` | `Spec => ReportedFieldsAreStored` |

Its invariant `SpecInv` compares generations: `history` is in order; the remote side has
been told, in the fields that updates send, of no spec that the cache does not show yet, and a handler's copy is no
older than what the remote side was told (`ToldInv`), because one worker reads from one cache
that never goes back, over a restart too; and a status that will report a
spec and will be accepted is about a resource that has the stored spec in these fields, and in all of them when it
ends a creation (`ReportInv`).

`RemoteContract_proofs` builds on that:

| Theorem | Statement |
|---|---|
| `AccountIsTouchedByContract` | `Spec => ImplementsRemoteContract` |
| `SentFieldsAreLostNowhereElse` | `Spec => SentFieldLostOnlyByProvisioning` |
| `ResourcesAreLostByFaultOrStaleCopy` | `Spec => LostOnlyByFaultOrStaleCopy` |

The refinement is a safety property of the whole specification: initial states map to an initial state, and
each step to one of `RemoteContract` or to a stutter (`AccountStep`). It needs what `LifecycleInv` and `SpecInv` say,
and of a status that waits to be written with a copy still current that it observes the stored generation,
becomes Created only out of a phase that leads there, and names a resource not yet on record only if it
is the last one created (`PendingInv`). `UntoldStep` follows the spec: a handler's generation is among
the `Current` ones because its copy is no older than what the account was told. The three
theorems bound the findings of section 5: of the fields that updates send, the shared handlers lose no edit but as the
first half of `lost_edit` shows; and no resource drops out of the record but by a fault or by a pass on an old copy, the
operator's own last write being enough to make it old.

`References_proofs`, for any objects, kinds and references under `ReferencesAssumption` (each
object on a path is one object, referents are of the right kind: what the API server accepts):

| Theorem | Statement |
|---|---|
| `TypeCorrect` | `Spec => []TypeOK` |
| `AddressNames` | `Spec => []AddressNamesItsResource` |
| `Removal` | `Spec => RemovalReachesRecordedResource` |
| `CurrentParents` | `Spec => ChildOfCurrentParents` |
| `Contracts` | `Spec => FollowsContract` |
| `Deaths` | `Spec => DeathsAreRequested` |

The difficulty is an identifier read from a cache and used when its object may
be gone, or replaced under its name. `Known(p, n)` is what stays true of it: *while the
resource is owed to its object, that is, lives and was never denied a deletion (`Owed`), its object still has it on
record*, since an object goes only with its resource or after a denied DELETE, and a new one under the name starts with none. Identifiers in caches and in
creations under way are `Known`; as the remote side creates only below resources that
live, a creation that succeeds lies below the parents on record, or below some that were denied their deletion. `Placed` says that a
recorded resource lies where the status says, `Prepared` that a creation has one identifier for each
reference on its path. `Deaths` needs one more (`RequestSeen`): a cache that shows a request for
deletion and a resource that is owed shows the object that is stored, since an object replaced
under its name has taken its resource along.

`CloudServer_proofs`, under `CloudServerAssumption`, for any volumes and properties:

| Theorem | Statement |
|---|---|
| `TypeCorrect` | `Spec => []TypeOK` |
| `StatusIsTrue` | `Spec => []StatusTellsServer` |
| `RecordIsOfStoredSpec` | `Spec => RecordsWhatIsWanted` |
| `ServerFollowsContract` | `Spec => FollowsContract` |

A pass may hold a copy that is ahead of the stored status and behind the server: `Agrees` says that a copy equals what was
read in the parts the pass has not touched, and the server in the others, and `WorkInv` that
these are among `unsure`. The last two rest on `PassInv`, which says where the status that waits to be written
leads from the object that was read; an accepted write finds that object stored.

`Authentication_proofs`, under `AuthenticationAssumption`, for any number of workers and tenants:

| Theorem | Statement |
|---|---|
| `TypeCorrect` | `Spec => []TypeOK`, with it that the mutex is held by one login at most |
| `OwnToken` | `Spec => []OwnTokenUnlessCrossed` |
| `Unexpired` | `Spec => []NoExpiredToken` |

`OwnInv` follows the owner of the credentials through every place where they rest: token
manager, cache, a pass's hands, the client. `AgeInv` is the margin's arithmetic: a cache entry
is believed in for at most one pass too long, since `retrieved` is taken after the login; the pass
that takes it may keep it for a second one before it sets it; the pass that finds it set may
use it for a third. So three passes have to fit into the margin, and into the token's life.

`VaultClient_proofs`, under `VaultAssumption`, for any leases and any least margin: `TypeCorrect`, and
`RenewalInTime` (`Spec => []RenewedInTime`). `Margins` ties what is left of the token to what is left of the
timer: after a renewal that worked, they differ by exactly the margin, or by one tick for a lease
that is no longer than the margin. `EarlyClose` (`Spec => EarlyCloseIsIgnored`) rests on `Outlives`: a
goroutine that has not run when `Close` comes takes a context that nothing cancels.

`RetryTimer_proofs`, under `RetryTimerAssumption`, for any interval, timeout and delays: `TypeCorrect`, with it that the
key is never forgotten, `TimeoutNoticed` and `Calls`. `DelayBounds` is the arithmetic of the debounce: what `Next`
asks for is more than nothing, no more than `requeueAfter`, and leads to the next interval. `InTime` then bounds every
delay by the timeout, one interval and what was lost, as a handler only begins before the timeout; `Spaced`
says that a pending delay ends in an interval no call was made in yet.

Only model-checked: the liveness properties (`TransitionEnds`, `EditIsNoticed`, `DeletionSettles`,
`VolumeRecordSettles`, `EveryPassEnds`, `TokenComesBack`), as fairness and
`ENABLED` are beyond the prover. The models have no recursive definitions, so there is
nothing to prove by induction over data. The runs that refute something need no proof.

## 5. Where the code does something else than its documents say

* `lost_edit`, two causes. `Next` stores the observed generation on every change of phase
  (`reconciler.go:284`). An edit made during the provisioning is marked as observed when
  the phase becomes Created, and `CheckForUpdates` then finds the resource "up to date".
  And updates leave out fields: a key pair's value (`keypair_controller.go:129`), a volume's type, image and
  bootable (`blockstorage_controller.go:130-143`), the references (all but some of the cloud server's). An edit of one goes through Updating, is
  observed, and is never sent. The test plan asks for a test that edits propagate (`TEST_DESIGN.md:246`).
* `orphan`, two causes. The identifier of a new resource is nowhere but in the status, and the status is read from the
  cache (`reconciler.go:112`, written at `:287`). A pass that comes before the cache shows the operator's own last write
  reads phase Creating again, creates a second resource, and its status write is a conflict; nobody knows that resource
  any more. A deletion or an edit between the creation and the status write, a crash and a lost reply have the same effect. And a
  DELETE answered by 404 or 405 counts as success (`helper.go:136`), also of a resource that was only
  "not ready" (`helper.go:65`): the finalizer goes, the object goes, the resource stays. The test plan says that the
  finalizer blocks the deletion until the cleanup (`TEST_DESIGN.md:309`).
* `failed_is_final`. `HandleToDelete` leaves out phase Failed, so that the finalizer stays and the
  object cannot be deleted. And the comment says that a change of the spec gets a Failed object going,
  but nothing looks. The run does both to one object, so that it refutes either statement: an object
  that stays for ever although it was edited and its deletion requested.
* `cloudserver_update`. `Next` stores the generation as observed on the way into Updating, and
  `Updating` sends the properties only if the observed generation differs
  (`cloudserver_controller.go:207`). So an edit of them is sent only when another edit arrives between the two, and
  the server settles in Created with the properties it had.
* `other_tenant`. `Authenticate` says that the client is authenticated for the given tenant. With
  vault on, another controller's pass for another tenant may set the credentials between
  `SetClientIdAndSecret` and the login (`reconciler.go:547`), so that the wrong token is
  even cached under the tenant's name, or set the client's token before the handler's request.

Seen while modelling, without a run of its own, as no document speaks of it or what it speaks of is not in the models:

* `NewReconciler` defers `Close` (`reconciler.go:82`), which cancels the renewal it has just
  started. When the goroutine runs only after it, the cancelled context is replaced and the renewal goes
  on (`EarlyCloseIsIgnored`); when it has begun to wait before, it stops, and nobody renews the token. Which
  happens is a race.
* Volumes attached by a call whose status write was lost, and taken out of the spec before the
  next pass, stay attached: changes are computed against the recorded list
  (`cloudserver_controller.go:318`, `:375`).
* `elasticIpID` is declared again inside an `if` (`cloudserver_controller.go:244`), so every update
  of the properties empties `status.elasticIpID`.
* A referenced object is ready as soon as it has an identifier, in Provisioning, Failed or
  Deleting too (`reconciler.go:667`). The test plan asks for a wait until it is Created (`TEST_DESIGN.md:267`, but for
  one until it has an identifier at `:286`). `References` has what the code does, and its properties hold without that wait.
* The test plan speaks of an exponential backoff after API errors (`TEST_DESIGN.md:298`); the interval of a retry is fixed
  (`RetryTimer`). It asks for errors to be reported in the status (`:303-306`); the debounce returns before it writes
  anything, so that the error of a retry in the same phase is lost with its message (`reconciler.go:272`).
* Requests are made by a client without a deadline (`helper.go:75`), so that one that is never answered
  holds the only worker of its kind: in `RetryTimer`, time that is lost without bound.

## 6. Not modelled

* HTTP requests and JSON, logging, metrics, certificates, flags, Helm charts and CRDs: I/O or
  data. Deep copies and mocks: generated. `Configuration` is read once, sequentially, and the process
  ends when it is not valid.
* Leader election: `Crash` stands for losing it. Validation of the specs by the API
  server: only valid specs are stored.
* The `List` methods of the API client and the cached branch of `GetAccessToken` (`checkCache`): only
  tests call them. The wrappers around the Vault library and its helpers for tests.
* Vault's limit on the total life of a token (a renewal that fails for it is a `Renew` that fails).
* In `References`, the lookups of one pass are one step, and what a reconciler does between two writes is
  not cut further; `ResourceLifecycle` does that. In `CloudServer`, no volume
  is deleted or replaced.
* Messages, reasons and times of conditions (`UpdateConditions` is a loop over a list of one
  element). In `RetryTimer`, a clock that is set back.

## 7. Plan

Done, in the order of importance: the reconciler's phase machine with its contract, the cloud server's
updates, the tokens, the references between objects, the Vault token, the effect on the account
(`RemoteContract`), the clock of a phase; all of their safety and action properties are proved. What is left:

1. Small algorithms against a reference definition over bounded inputs: `UpdateConditions`, the
   classification of replies, `Validate`.
2. The step from `ResourceLifecycle` to `References` as a refinement of one object, instead of by
   the contract both keep.
3. The volumes' own life (deletion, a new object under the name) in `CloudServer`.
