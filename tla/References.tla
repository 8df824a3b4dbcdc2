------------------------------ MODULE References ----------------------------
(***************************************************************************)
(* Custom resources that refer to each other, under their nine             *)
(* controllers.  A controller creates its resource below the resources the *)
(* referenced objects have recorded, keeps their identifiers in its        *)
(* object's status, and names the resource by them in every later call.    *)
(*                                                                         *)
(* Each object goes through the stages of ResourceContract; how a single   *)
(* object gets through them is the business of ResourceLifecycle.  Here    *)
(* the users edit references, delete objects and create them again, the    *)
(* informer caches lag behind, each for itself, and a pass that creates    *)
(* uses identifiers it has read before.                                    *)
(*                                                                         *)
(* An operator named X_Y is a fault seeded into X, used by nothing else.   *)
(***************************************************************************)
EXTENDS Integers, Sequences

CONSTANTS
    Objects,    \* names of objects
    KindOf,     \* the kind of each
    Choices,    \* Choices[o]: the references a user may give o
    FirstRefs,  \* FirstRefs[o]: the ones it has to begin with
    Begins,     \* the sets of objects that may be Created to begin with
    MaxRemote,  \* bound: resources created on behalf of one object
    Touched,    \* objects the users edit, delete and create again
    MaxDoings   \* bound: how often they do

-----------------------------------------------------------------------------
(* The nine controllers.  Path is the sequence of references whose identifiers
   a request names before the resource's own; the client's methods put them
   into the URL.  A controller is described by

     path      what its requests name,
     resolves  the references its Creating turns into identifiers,
     records   the identifiers it stores in the status with the resource's own,
     tells     whether its creation tells the state of the new resource. *)

ProjectPath       == << >>
VpcPath           == <<"project">>
SubnetPath        == <<"project", "vpc">>
SecurityGroupPath == <<"project", "vpc">>
SecurityRulePath  == <<"project", "vpc", "securityGroup">>
BlockStoragePath  == <<"project">>
ElasticIpPath     == <<"project">>
KeyPairPath       == <<"project">>
CloudServerPath   == <<"project">>

ProjectController ==
    [path |-> ProjectPath, resolves |-> {}, records |-> {}, tells |-> FALSE]

VpcController ==
    [path |-> VpcPath, resolves |-> {"project"}, records |-> {"project"}, tells |-> TRUE]

SubnetController ==
    [path |-> SubnetPath, resolves |-> {"project", "vpc"},
     records |-> {"project", "vpc"}, tells |-> TRUE]

SecurityGroupController ==
    [path |-> SecurityGroupPath, resolves |-> {"project", "vpc"},
     records |-> {"project", "vpc"}, tells |-> TRUE]

SecurityRuleController ==
    [path |-> SecurityRulePath, resolves |-> {"project", "vpc", "securityGroup"},
     records |-> {"project", "vpc", "securityGroup"}, tells |-> TRUE]

BlockStorageController ==
    [path |-> BlockStoragePath, resolves |-> {"project"}, records |-> {"project"},
     tells |-> TRUE]

ElasticIpController ==
    [path |-> ElasticIpPath, resolves |-> {"project"}, records |-> {"project"},
     tells |-> TRUE]

KeyPairController ==
    [path |-> KeyPairPath, resolves |-> {"project"}, records |-> {"project"},
     tells |-> TRUE]

\* Of the security groups, subnets and the elastic address of a server there may
\* be several, or none; its data volumes are the business of CloudServer.
CloudServerController ==
    LET all == { "project", "vpc", "bootVolume", "keyPair", "elasticIp",
                 "subnets", "securityGroups" }
    IN  [path |-> CloudServerPath, resolves |-> all, records |-> all, tells |-> TRUE]

Kinds == { "project", "vpc", "subnet", "securityGroup", "securityRule",
           "blockStorage", "elasticIp", "keyPair", "cloudServer" }

Controller == [k \in Kinds |->
    CASE k = "project"       -> ProjectController
      [] k = "vpc"           -> VpcController
      [] k = "subnet"        -> SubnetController
      [] k = "securityGroup" -> SecurityGroupController
      [] k = "securityRule"  -> SecurityRuleController
      [] k = "blockStorage"  -> BlockStorageController
      [] k = "elasticIp"     -> ElasticIpController
      [] k = "keyPair"       -> KeyPairController
      [] k = "cloudServer"   -> CloudServerController]

\* The kind of object that may stand in a reference.
Referent(f) ==
    CASE f = "project"        -> "project"
      [] f = "vpc"            -> "vpc"
      [] f = "securityGroup"  -> "securityGroup"
      [] f = "bootVolume"     -> "blockStorage"
      [] f = "keyPair"        -> "keyPair"
      [] f = "elasticIp"      -> "elasticIp"
      [] f = "subnets"        -> "subnet"
      [] f = "securityGroups" -> "securityGroup"

\* What the API server accepts as references of an object of kind k: one object
\* for each reference on the path, objects of the right kind everywhere.
AcceptedRefs(k) ==
    { r \in [Controller[k].resolves -> SUBSET Objects] :
        \A f \in DOMAIN r :
            /\ \A p \in r[f] : KindOf[p] = Referent(f)
            /\ \A i \in DOMAIN Controller[k].path :
                 Controller[k].path[i] = f => \E p \in Objects : r[f] = {p} }

ASSUME ReferencesAssumption ==
    /\ KindOf \in [Objects -> Kinds]
    /\ \A o \in Objects : Choices[o] \subseteq AcceptedRefs(KindOf[o])
    /\ \A o \in Objects : FirstRefs[o] \in Choices[o]
    /\ Begins \subseteq SUBSET Objects /\ Touched \subseteq Objects
    /\ MaxRemote \in Nat \ {0}
    /\ MaxDoings \in Nat

VARIABLES
    store,    \* the stored objects
    seen,     \* the objects as the informer caches show them
    held,     \* the creation a worker is about to request, by object
    remote,   \* remote[o]: the resources created on behalf of o, in order
    doings    \* edits, deletions and creations by users so far

vars == <<store, seen, held, remote, doings>>

-----------------------------------------------------------------------------
(* Objects and resources. *)

\* The n-th resource created on behalf of object o.
Ids == Objects \X (1..MaxRemote)

Phases == { "", "Creating", "Provisioning", "Created", "Updating", "Deleting", "Failed" }
Transitioning == {"Creating", "Provisioning", "Updating", "Deleting"}

Resolves(o) == Controller[KindOf[o]].resolves
Records(o) == Controller[KindOf[o]].records

Object(o) == [ live     : BOOLEAN,
               deleting : BOOLEAN,
               phase    : Phases,
               id       : 0..MaxRemote,   \* status.resourceID, 0 when empty
               edited   : BOOLEAN,        \* generation # observedGeneration
               refs     : [Resolves(o) -> SUBSET Objects],  \* references in the spec
               ids      : [Records(o) -> SUBSET Ids] ]      \* identifiers in the status

\* A resource and the identifiers it was created below.  denied remembers a DELETE that
\* was answered by 404 or 405 although the resource is there.
Resource == [at : Seq(Ids), live : BOOLEAN, denied : BOOLEAN]

NewObject(o, refs) ==
    [live |-> TRUE, deleting |-> FALSE, phase |-> "", id |-> 0, edited |-> TRUE,
     refs |-> refs, ids |-> [f \in Records(o) |-> {}]]

\* A creation about to be requested: the copy of the object it is for and the
\* identifiers its references were resolved to.
Pass(o) == [copy : Object(o), got : [Resolves(o) -> SUBSET Ids]]
NoPass == [idle |-> TRUE]

\* The URL prefix that identifiers ids make for a resource of kind k; there is one
\* identifier for each reference on the path.
The(set) == CHOOSE x \in set : TRUE
At(k, ids) ==
    [i \in DOMAIN Controller[k].path |-> The(ids[Controller[k].path[i]])]

\* What a call names on behalf of o, whose copy the worker has read as v: the
\* identifiers in the status, never the references in the spec.
AddressOf_BySpec(o, v) ==
    At(KindOf[o], [f \in Resolves(o) |-> {<<p, store[p].id>> : p \in v.refs[f]}])
AddressOf(o, v) == At(KindOf[o], v.ids)

\* The remote side finds the resource of v only where it was created.
Found(o, v) ==
    /\ v.id # 0
    /\ remote[o][v.id].live
    /\ remote[o][v.id].at = AddressOf(o, v)

\* Every part of a prefix names a resource that exists below the parts before it.
Exists(at, resources) ==
    \A i \in DOMAIN at :
        LET r == resources[at[i][1]][at[i][2]]
        IN  r.live /\ r.at = SubSeq(at, 1, i - 1)

-----------------------------------------------------------------------------
(* Reconciliation. *)

\* Each controller has one worker.
Free(o) == \A p \in Objects : KindOf[p] = KindOf[o] => held[p] = NoPass

\* Requests to delete come before the handler of any phase but these.
Leaves_AlsoWhenFailed(v) == v.deleting /\ v.phase # "Deleting"
Leaves(v) == v.deleting /\ v.phase \notin {"Deleting", "Failed"}

\* The worker takes o up in the phase its cache shows.
Handling(o, p) ==
    seen[o].phase = p /\ seen[o].live /\ ~Leaves(seen[o]) /\ Free(o)

\* A write of o's status, made from copy v: the API server stores it only if v is
\* what it has stored.  Any write may also be refused or fail.
InPhase(v, p) == [v EXCEPT !.phase = p, !.edited = FALSE]
Writes_Always(o, v, w) ==
    \/ store' = [store EXCEPT ![o] = [w EXCEPT !.refs = store[o].refs]]
    \/ UNCHANGED store
Writes(o, v, w) ==
    \/ v = store[o] /\ store' = [store EXCEPT ![o] = w]
    \/ UNCHANGED store
WritesPhase(o, p) == Writes(o, seen[o], InPhase(seen[o], p))

\* GetProjectID, GetVpcID, ...: the referenced object as the cache has it, which
\* needs an identifier and nothing else.  0 stands for the error.
IdOf(p) == IF seen[p].live THEN seen[p].id ELSE 0

Resolvable_Always(o, v) == TRUE
Resolvable(o, v) ==
    \A f \in Resolves(o) : \A p \in v.refs[f] : IdOf(p) # 0

Resolved(o, v) ==
    [f \in Resolves(o) |-> {<<p, IdOf(p)>> : p \in v.refs[f]}]

\* Init: the finalizer and phase Creating.
Initialize(o) ==
    /\ Handling(o, "")
    /\ WritesPhase(o, "Creating")
    /\ UNCHANGED <<seen, held, remote, doings>>

\* The first half of Creating.  A reference without an identifier is an error,
\* which is retried and changes nothing.
Resolve(o) ==
    /\ Handling(o, "Creating")
    /\ Resolvable(o, seen[o])
    /\ held' = [held EXCEPT ![o] = [copy |-> seen[o], got |-> Resolved(o, seen[o])]]
    /\ UNCHANGED <<store, seen, remote, doings>>

\* What the status keeps of the identifiers of a creation, with the resource's own.
Recorded(o, v, got) ==
    [v EXCEPT !.id  = Len(remote[o]) + 1,
              !.ids = [f \in Records(o) |-> got[f]]]

\* The request and the status write that ends the pass.  A write that does not
\* come about leaves a resource nobody knows of, as does a reply that is lost.
CreateSucceeds(o) ==
    /\ held[o] # NoPass
    /\ LET got == held[o].got
           at  == At(KindOf[o], got)
           w   == Recorded(o, held[o].copy, got)
       IN  /\ Exists(at, remote)
           /\ Len(remote[o]) < MaxRemote
           /\ remote' = [remote EXCEPT
                            ![o] = Append(@, [at |-> at, live |-> TRUE, denied |-> FALSE])]
           /\ \E p \in {"Provisioning", "Created"} :
                /\ p = "Provisioning" => Controller[KindOf[o]].tells
                /\ Writes(o, held[o].copy, InPhase(w, p))
    /\ held' = [held EXCEPT ![o] = NoPass]
    /\ UNCHANGED <<seen, doings>>

\* Refused, for good (a client error) or to be tried again.
CreateFails(o) ==
    /\ held[o] # NoPass
    /\ Writes(o, held[o].copy, InPhase(held[o].copy, "Failed"))
    /\ held' = [held EXCEPT ![o] = NoPass]
    /\ UNCHANGED <<seen, remote, doings>>

\* The state of the resource, for those controllers that ask for it.
Provision(o) ==
    /\ Handling(o, "Provisioning") /\ Controller[KindOf[o]].tells
    /\ \/ Found(o, seen[o]) /\ WritesPhase(o, "Created")
       \/ WritesPhase(o, "Failed")
    /\ UNCHANGED <<seen, held, remote, doings>>

NoticeEdit(o) ==
    /\ Handling(o, "Created") /\ seen[o].edited
    /\ WritesPhase(o, "Updating")
    /\ UNCHANGED <<seen, held, remote, doings>>

\* Identifiers in the status stay as they are, whatever the references say now, except
\* for the subnets, security groups and address of a server, which no request names and
\* CloudServer follows.
Update_ResolvesAgain(o) ==
    /\ Handling(o, "Updating") /\ Resolvable(o, seen[o])
    /\ Writes(o, seen[o], [InPhase(seen[o], "Created") EXCEPT
                              !.ids = [f \in Records(o) |-> Resolved(o, seen[o])[f]]])
    /\ UNCHANGED <<seen, held, remote, doings>>
Update(o) ==
    /\ Handling(o, "Updating")
    /\ \/ Found(o, seen[o]) /\ WritesPhase(o, "Created")
       \/ WritesPhase(o, "Failed")
    /\ UNCHANGED <<seen, held, remote, doings>>

StartDeletion(o) ==
    /\ Leaves(seen[o]) /\ seen[o].live /\ Free(o)
    /\ WritesPhase(o, "Deleting")
    /\ UNCHANGED <<seen, held, remote, doings>>

\* A resource goes with all that was created below it.
Below(o, n, r) == \E i \in DOMAIN r.at : r.at[i] = <<o, n>>
Without(o, n) ==
    [p \in Objects |-> [m \in DOMAIN remote[p] |->
        IF <<p, m>> = <<o, n>> \/ Below(o, n, remote[p][m])
        THEN [remote[p][m] EXCEPT !.live = FALSE] ELSE remote[p][m]]]

\* Deletion, and the finalizer.  A 404 or 405 counts as success: of a resource that is
\* not found, and of one that is there but could not be deleted and stays.
Denied(o, n) == [remote EXCEPT ![o][n].denied = TRUE]
Delete(o) ==
    /\ Handling(o, "Deleting")
    /\ \/ remote' = IF Found(o, seen[o]) THEN Without(o, seen[o].id) ELSE remote
       \/ Found(o, seen[o]) /\ remote' = Denied(o, seen[o].id)
    /\ Writes(o, seen[o], [seen[o] EXCEPT !.live = FALSE])
    /\ UNCHANGED <<seen, held, doings>>

\* The remote side may refuse with another status, because of what is below or for any other reason.
DeleteFails(o) ==
    /\ Handling(o, "Deleting")
    /\ WritesPhase(o, "Failed")
    /\ UNCHANGED <<seen, held, remote, doings>>

\* The five minutes of a phase that waits are over.
TimeOut_RollsBack(o) ==
    /\ seen[o].phase \in Transitioning /\ seen[o].live /\ Free(o)
    /\ WritesPhase(o, "Deleting")
    /\ UNCHANGED <<seen, held, remote, doings>>
TimeOut(o) ==
    /\ seen[o].phase \in Transitioning /\ seen[o].live /\ Free(o)
    /\ WritesPhase(o, "Failed")
    /\ UNCHANGED <<seen, held, remote, doings>>

Reconcile(o) ==
    \/ Initialize(o) \/ Resolve(o) \/ CreateSucceeds(o) \/ CreateFails(o)
    \/ Provision(o) \/ NoticeEdit(o) \/ Update(o)
    \/ StartDeletion(o) \/ Delete(o) \/ DeleteFails(o) \/ TimeOut(o)

-----------------------------------------------------------------------------
(* The world around the controllers. *)

Doing(o) == o \in Touched /\ doings < MaxDoings /\ doings' = doings + 1

UserEdit(o) ==
    /\ store[o].live
    /\ \E refs \in Choices[o] \ {store[o].refs} :
         store' = [store EXCEPT ![o].refs = refs, ![o].edited = TRUE]
    /\ Doing(o) /\ UNCHANGED <<seen, held, remote>>

\* An object nobody has taken up yet has no finalizer to keep it, or has just got
\* one.
UserDelete(o) ==
    /\ store[o].live /\ ~store[o].deleting
    /\ \E live \in {TRUE, store[o].phase # ""} :
         store' = [store EXCEPT ![o].deleting = TRUE, ![o].live = live]
    /\ Doing(o) /\ UNCHANGED <<seen, held, remote>>

\* The name is used again.
UserCreate(o) ==
    /\ ~store[o].live
    /\ \E refs \in Choices[o] : store' = [store EXCEPT ![o] = NewObject(o, refs)]
    /\ Doing(o) /\ UNCHANGED <<seen, held, remote>>

\* The cache of o's kind catches up; that it shows the versions in between is left out.
Deliver(o) ==
    /\ seen[o] # store[o]
    /\ seen' = [seen EXCEPT ![o] = store[o]]
    /\ UNCHANGED <<store, held, remote, doings>>

\* A settled object was created below settled ones.
SettledObject(o, refs) ==
    [NewObject(o, refs) EXCEPT
        !.phase = "Created", !.id = 1, !.edited = FALSE,
        !.ids = [f \in Records(o) |-> {<<p, 1>> : p \in refs[f]}]]

\* An operator in use: some objects are Created, the others new.
Init ==
    /\ \E settled \in Begins :
         /\ store = [o \in Objects |->
                       IF o \in settled THEN SettledObject(o, FirstRefs[o])
                                        ELSE NewObject(o, FirstRefs[o])]
         /\ remote = [o \in Objects |->
                        IF o \in settled
                        THEN <<[at |-> AddressOf(o, store[o]), live |-> TRUE, denied |-> FALSE]>>
                        ELSE << >>]
         /\ \A o \in settled : Exists(AddressOf(o, store[o]), remote)
    /\ seen = store
    /\ held = [o \in Objects |-> NoPass]
    /\ doings = 0

Next == \E o \in Objects :
    Reconcile(o) \/ UserEdit(o) \/ UserDelete(o) \/ UserCreate(o) \/ Deliver(o)

Spec == Init /\ [][Next]_vars

-----------------------------------------------------------------------------
(* Properties. *)

TypeOK ==
    /\ DOMAIN store = Objects /\ DOMAIN seen = Objects /\ DOMAIN held = Objects
    /\ \A o \in Objects :
         /\ store[o] \in Object(o) /\ seen[o] \in Object(o)
         /\ held[o] \in Pass(o) \cup {NoPass}
    /\ remote \in [Objects -> Seq(Resource)]
    /\ \A o \in Objects : Len(remote[o]) <= MaxRemote
    /\ doings \in 0..MaxDoings

\* The identifiers in the status always name the recorded resource where it was
\* created, although the references in the spec, and the objects they name, may
\* have been replaced since: the calls of an object's whole life reach one and the
\* same resource (Creating of each controller records what its requests name).
AddressNamesItsResource ==
    \A o \in Objects :
        store[o].id # 0 =>
            /\ store[o].id \in DOMAIN remote[o]
            /\ \A i \in DOMAIN Controller[KindOf[o]].path :
                 LET f == Controller[KindOf[o]].path[i]
                 IN  f \in Records(o) /\ store[o].ids[f] # {}
            /\ remote[o][store[o].id].at = AddressOf(o, store[o])

\* An object that has recorded a resource goes only when it is deleted, or when a DELETE
\* that did reach it was answered by 404 or 405.  No edited reference and no replaced
\* object makes the DELETE name a resource that is not there, whose 404 would pass
\* for success (HandleDeletion calls the controller's delete, which takes it for done).
RemovalReachesRecordedResource ==
    [][ \A o \in Objects :
          store[o].live /\ ~store'[o].live /\ store[o].id # 0
              => LET r == remote'[o][store[o].id] IN ~r.live \/ r.denied ]_vars

\* A resource dies only when the user has requested the deletion of the very object
\* that has it on record, or of one that it lies below: never by a copy of an object
\* that has been replaced under its name, nor by a reference that was edited
\* (HandleDeletion acts on the cache's copy and on identifiers recorded long before).
\* A deletion that was denied once was requested, although its object is gone.
Requested(o, m) ==
    \/ store[o].live /\ store[o].deleting /\ store[o].id = m
    \/ remote[o][m].denied
DeathsAreRequested ==
    [][ remote' # remote =>
          \A p \in Objects : \A n \in DOMAIN remote[p] :
            remote[p][n].live /\ ~remote'[p][n].live =>
              \E o \in Objects : \E m \in DOMAIN remote[o] :
                 /\ Requested(o, m)
                 /\ <<p, n>> = <<o, m>> \/ Below(o, m, remote[p][n]) ]_vars

\* Each object, from its creation by a user to its removal, goes through the stages
\* of ResourceContract, whatever happens to the objects it refers to.
C(o) == INSTANCE ResourceContract
        WITH live <- store[o].live, deleting <- store[o].deleting,
             phase <- store[o].phase, id <- store[o].id
FollowsContract ==
    [][ \A o \in Objects :
          \/ UNCHANGED C(o)!contractVars
          \/ C(o)!ContractNext
          \/ ~store[o].live /\ store'[o].phase = "" /\ store'[o].id = 0 ]_vars

\* When a new resource is recorded, the resources it lies below are the ones that the
\* objects its spec refers to have on record at that moment: not those of a spec
\* that has been edited since the references were read, nor those of an object that
\* has been replaced under the same name (Creating, between its first lookup and the
\* status write of Next).  Excepted is a parent that outlived its object because its
\* deletion was denied.
Outlived(ids) == \E d \in ids : remote[d[1]][d[2]].denied
ChildOfCurrentParents ==
    [][ \A o \in Objects :
          store[o].id = 0 /\ store'[o].id # 0 =>
              \A i \in DOMAIN Controller[KindOf[o]].path :
                LET f == Controller[KindOf[o]].path[i]
                IN  \/ store'[o].ids[f] = {<<p, store[p].id>> : p \in store[o].refs[f]}
                    \/ Outlived(store'[o].ids[f]) ]_vars
=============================================================================
