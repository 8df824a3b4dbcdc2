-------------------------- MODULE References_proofs -------------------------
(***************************************************************************)
(* Whatever users do to references and to the objects they name, the calls *)
(* of an object reach the resource it has recorded.  The inductive         *)
(* invariant says what a worker may conclude from identifiers it has read  *)
(* before: if the resource still lives, its object still has it on record, *)
(* unless a DELETE was answered as if it were gone.                        *)
(***************************************************************************)
EXTENDS References, TLAPS

-----------------------------------------------------------------------------
(* The invariant. *)

\* What every version of an object says by itself.
Version(o, v) ==
    /\ v \in Object(o)
    /\ v.refs \in Choices[o]
    /\ v.id <= Len(remote[o])
    /\ v.phase \in {"", "Creating"} => v.id = 0
    /\ v.phase = "Deleting" => v.deleting

\* What an object still has to delete: a resource that lives and of which no DELETE was
\* answered as if it were gone.
Owed(r) == r.live /\ ~r.denied

\* An identifier somebody has read: while the resource is owed, it is the one on record.
Known(p, n) ==
    /\ n \in 1..Len(remote[p])
    /\ Owed(remote[p][n]) => store[p].id = n

\* The recorded resource lies where the status says, and is owed no longer than its
\* object lives.
Placed(o) ==
    store[o].id # 0 =>
        /\ \A i \in DOMAIN Controller[KindOf[o]].path :
             LET f == Controller[KindOf[o]].path[i]
             IN  f \in Records(o) /\ store[o].ids[f] # {}
        /\ remote[o][store[o].id].at = AddressOf(o, store[o])
        /\ ~store[o].live => ~Owed(remote[o][store[o].id])

RemoteInv ==
    /\ remote \in [Objects -> Seq(Resource)]
    /\ \A o \in Objects : Len(remote[o]) <= MaxRemote

StoreInv ==
    /\ DOMAIN store = Objects
    /\ \A o \in Objects : Version(o, store[o]) /\ Placed(o)

SeenInv ==
    /\ DOMAIN seen = Objects
    /\ \A o \in Objects :
         /\ Version(o, seen[o])
         /\ seen[o].id # 0 => Known(o, seen[o].id)

\* A creation under way knows the identifiers it will name, one for each reference to
\* one object.
Prepared(o) ==
    held[o] # NoPass =>
        /\ Version(o, held[o].copy)
        /\ held[o].copy.phase = "Creating" /\ held[o].copy.live
        /\ \A f \in Resolves(o) :
             /\ \A x \in held[o].got[f] : Known(x[1], x[2])
             /\ \A p \in Objects : held[o].copy.refs[f] = {p} =>
                  \E n \in 1..MaxRemote : held[o].got[f] = {<<p, n>>}

HeldInv ==
    /\ DOMAIN held = Objects
    /\ \A o \in Objects : held[o] \in Pass(o) \cup {NoPass} /\ Prepared(o)

IInv ==
    /\ RemoteInv /\ StoreInv /\ SeenInv /\ HeldInv
    /\ doings \in 0..MaxDoings

-----------------------------------------------------------------------------
(* Controllers and prefixes. *)

USE DEF Owed

\* What a controller's requests name is what it resolves and what it records.
LEMMA PathFacts ==
    \A k \in Kinds :
        /\ \E n \in Nat : DOMAIN Controller[k].path = 1..n
        /\ \A i \in DOMAIN Controller[k].path :
             /\ Controller[k].path[i] \in Controller[k].resolves
             /\ Controller[k].path[i] \in Controller[k].records
        /\ Controller[k].records \subseteq Controller[k].resolves
<1> SUFFICES ASSUME NEW k \in Kinds
             PROVE  /\ \E n \in Nat : DOMAIN Controller[k].path = 1..n
                    /\ \A i \in DOMAIN Controller[k].path :
                         /\ Controller[k].path[i] \in Controller[k].resolves
                         /\ Controller[k].path[i] \in Controller[k].records
                    /\ Controller[k].records \subseteq Controller[k].resolves
  OBVIOUS
<1>1. CASE k = "project"
  <2>1. Controller[k] = ProjectController
    BY <1>1 DEF Controller
  <2> QED
    BY <2>1 DEF ProjectController, ProjectPath
<1>2. CASE k = "vpc"
  <2>1. Controller[k] = VpcController
    BY <1>2 DEF Controller
  <2> QED
    BY <2>1 DEF VpcController, VpcPath
<1>3. CASE k = "subnet"
  <2>1. Controller[k] = SubnetController
    BY <1>3 DEF Controller
  <2> QED
    BY <2>1 DEF SubnetController, SubnetPath
<1>4. CASE k = "securityGroup"
  <2>1. Controller[k] = SecurityGroupController
    BY <1>4 DEF Controller
  <2> QED
    BY <2>1 DEF SecurityGroupController, SecurityGroupPath
<1>5. CASE k = "securityRule"
  <2>1. Controller[k] = SecurityRuleController
    BY <1>5 DEF Controller
  <2> QED
    BY <2>1 DEF SecurityRuleController, SecurityRulePath
<1>6. CASE k = "blockStorage"
  <2>1. Controller[k] = BlockStorageController
    BY <1>6 DEF Controller
  <2> QED
    BY <2>1 DEF BlockStorageController, BlockStoragePath
<1>7. CASE k = "elasticIp"
  <2>1. Controller[k] = ElasticIpController
    BY <1>7 DEF Controller
  <2> QED
    BY <2>1 DEF ElasticIpController, ElasticIpPath
<1>8. CASE k = "keyPair"
  <2>1. Controller[k] = KeyPairController
    BY <1>8 DEF Controller
  <2> QED
    BY <2>1 DEF KeyPairController, KeyPairPath
<1>9. CASE k = "cloudServer"
  <2>1. Controller[k] = CloudServerController
    BY <1>9 DEF Controller
  <2> QED
    BY <2>1 DEF CloudServerController, CloudServerPath
<1> QED
  BY <1>1, <1>2, <1>3, <1>4, <1>5, <1>6, <1>7, <1>8, <1>9 DEF Kinds

\* A kind's controller, said of an object.
LEMMA ObjectPath ==
    ASSUME NEW o \in Objects
    PROVE  /\ KindOf[o] \in Kinds
           /\ \A i \in DOMAIN Controller[KindOf[o]].path :
                /\ Controller[KindOf[o]].path[i] \in Resolves(o)
                /\ Controller[KindOf[o]].path[i] \in Records(o)
           /\ Records(o) \subseteq Resolves(o)
<1>1. KindOf[o] \in Kinds
  BY ReferencesAssumption
<1> QED
  BY <1>1, PathFacts DEF Resolves, Records

\* The references a user may give have the type of references,
LEMMA ChoiceFacts ==
    ASSUME NEW o \in Objects, NEW r \in Choices[o]
    PROVE  r \in [Resolves(o) -> SUBSET Objects]
<1>1. r \in AcceptedRefs(KindOf[o])
  BY ReferencesAssumption
<1> QED
  BY <1>1 DEF AcceptedRefs, Resolves

\* and name one object for each part of the path.
LEMMA OneOnPath ==
    ASSUME NEW o \in Objects, NEW r \in Choices[o],
           NEW i \in DOMAIN Controller[KindOf[o]].path
    PROVE  \E p \in Objects : r[Controller[KindOf[o]].path[i]] = {p}
<1>1. r \in AcceptedRefs(KindOf[o])
  BY ReferencesAssumption, Zenon
<1>2. Controller[KindOf[o]].path[i] \in DOMAIN r
  BY <1>1, ObjectPath DEF AcceptedRefs, Resolves
<1> QED
  BY <1>1, <1>2, Zenon DEF AcceptedRefs

\* A prefix depends on nothing but the identifiers on the path.
LEMMA AtCongruence ==
    ASSUME NEW k, NEW x, NEW y,
           \A i \in DOMAIN Controller[k].path :
             x[Controller[k].path[i]] = y[Controller[k].path[i]]
    PROVE  At(k, x) = At(k, y)
BY DEF At

\* The one element of a set of one element.
LEMMA TheOne ==
    ASSUME NEW x
    PROVE  The({x}) = x
BY DEF The

\* Identifiers of the right type make a prefix of the right type.
LEMMA AtType ==
    ASSUME NEW o \in Objects, NEW x,
           \A i \in DOMAIN Controller[KindOf[o]].path :
             \E y \in Ids : x[Controller[KindOf[o]].path[i]] = {y}
    PROVE  At(KindOf[o], x) \in Seq(Ids)
<1> DEFINE path == Controller[KindOf[o]].path
<1>1. PICK n \in Nat : DOMAIN path = 1..n
  BY ObjectPath, PathFacts
<1>2. \A i \in 1..n : The(x[path[i]]) \in Ids
  <2> SUFFICES ASSUME NEW i \in DOMAIN path
               PROVE  The(x[path[i]]) \in Ids
    BY <1>1
  <2>1. PICK y \in Ids : x[path[i]] = {y}
    BY Zenon
  <2> QED
    BY <2>1, TheOne, Zenon
<1>3. At(KindOf[o], x) = [i \in 1..n |-> The(x[path[i]])]
  BY <1>1 DEF At
<1>4. [i \in 1..n |-> The(x[path[i]])] \in [1..n -> Ids]
  BY <1>2
<1> QED
  BY <1>3, <1>4

-----------------------------------------------------------------------------
(* Steps that keep what somebody knows. *)

\* Resources are added, and stay where they are, and cease to be owed for good.
RemoteGrows ==
    \A p \in Objects :
        /\ Len(remote[p]) <= Len(remote'[p])
        /\ \A n \in 1..Len(remote[p]) :
             /\ remote'[p][n].at = remote[p][n].at
             /\ Owed(remote'[p][n]) => Owed(remote[p][n])

\* A record is given up only for a resource that is owed no more.
IdsStay ==
    \A p \in Objects :
        \/ store'[p].id = store[p].id
        \/ store[p].id = 0
        \/ ~Owed(remote'[p][store[p].id])

\* What is known of a resource stays true while records stay.
LEMMA KnownKept ==
    ASSUME RemoteInv, RemoteInv', RemoteGrows, IdsStay,
           NEW p \in Objects, NEW n, Known(p, n)
    PROVE  n \in 1..Len(remote'[p]) /\ (Owed(remote'[p][n]) => store'[p].id = n)
<1>1. n \in 1..Len(remote[p]) /\ Len(remote[p]) \in Nat /\ Len(remote'[p]) \in Nat
  BY DEF Known, RemoteInv
<1>2. n \in 1..Len(remote'[p])
  BY <1>1 DEF RemoteGrows
<1>3. ASSUME Owed(remote'[p][n])
      PROVE  store'[p].id = n
  <2>1. Owed(remote[p][n])
    BY <1>1, <1>3 DEF RemoteGrows
  <2>2. store[p].id = n
    BY <2>1 DEF Known
  <2> QED
    BY <1>1, <1>3, <2>2 DEF IdsStay
<1> QED
  BY <1>2, <1>3

\* A version stays sound while resources are only added.
LEMMA VersionKept ==
    ASSUME RemoteInv, RemoteInv', RemoteGrows,
           NEW o \in Objects, NEW v, Version(o, v)
    PROVE  /\ v \in Object(o)
           /\ v.refs \in Choices[o]
           /\ v.id <= Len(remote'[o])
           /\ v.phase \in {"", "Creating"} => v.id = 0
           /\ v.phase = "Deleting" => v.deleting
<1>1. Len(remote[o]) \in Nat /\ Len(remote'[o]) \in Nat /\ v.id \in Nat
  <2>1. v.id \in 0..MaxRemote
    BY DEF Version, Object
  <2> QED
    BY <2>1, ReferencesAssumption DEF RemoteInv
<1>2. Len(remote[o]) <= Len(remote'[o])
  BY DEF RemoteGrows
<1>3. /\ v \in Object(o) /\ v.refs \in Choices[o] /\ v.id <= Len(remote[o])
      /\ v.phase \in {"", "Creating"} => v.id = 0
      /\ v.phase = "Deleting" => v.deleting
  BY DEF Version
<1>4. v.id <= Len(remote'[o])
  <2>1. \A a, b, c \in Nat : a <= b /\ b <= c => a <= c
    OBVIOUS
  <2> QED
    BY <1>1, <1>2, <1>3, <2>1, Zenon
<1> QED
  BY <1>3, <1>4

\* So the caches may stay as they are.
LEMMA SeenKept ==
    ASSUME IInv, RemoteInv', RemoteGrows, IdsStay, seen' = seen
    PROVE  SeenInv'
<1> SUFFICES ASSUME NEW o \in Objects
             PROVE  (Version(o, seen[o]) /\ (seen[o].id # 0 => Known(o, seen[o].id)))'
  BY DEF SeenInv, IInv
<1>1. Version(o, seen[o]) /\ (seen[o].id # 0 => Known(o, seen[o].id))
  BY DEF SeenInv, IInv
<1>2. Version(o, seen[o])'
  BY <1>1, VersionKept DEF IInv, Version
<1>3. (seen[o].id # 0 => Known(o, seen[o].id))'
  <2> SUFFICES ASSUME seen[o].id # 0
               PROVE  Known(o, seen[o].id)'
    OBVIOUS
  <2>1. Known(o, seen[o].id)
    BY <1>1
  <2>2. seen[o].id \in 1..Len(remote'[o]) /\ (Owed(remote'[o][seen[o].id]) => store'[o].id = seen[o].id)
    BY <2>1, KnownKept DEF IInv
  <2> QED
    BY <2>2 DEF Known
<1> QED
  BY <1>2, <1>3

\* A worker keeps its creation, or gives it up.
LEMMA PassKept ==
    ASSUME IInv, RemoteInv', RemoteGrows, IdsStay, NEW o \in Objects,
           held'[o] \in {held[o], NoPass}
    PROVE  (held[o] \in Pass(o) \cup {NoPass} /\ Prepared(o))'
<1>1. held[o] \in Pass(o) \cup {NoPass} /\ Prepared(o)
  BY DEF IInv, HeldInv
<1>2. held'[o] \in Pass(o) \cup {NoPass}
  BY <1>1
<1>3. Prepared(o)'
  <2> SUFFICES ASSUME held'[o] # NoPass
               PROVE  (/\ Version(o, held[o].copy)
                       /\ held[o].copy.phase = "Creating" /\ held[o].copy.live
                       /\ \A f \in Resolves(o) :
                            /\ \A x \in held[o].got[f] : Known(x[1], x[2])
                            /\ \A p \in Objects : held[o].copy.refs[f] = {p} =>
                                 \E n \in 1..MaxRemote : held[o].got[f] = {<<p, n>>})'
    BY DEF Prepared
  <2>1. held'[o] = held[o] /\ held[o] # NoPass
    OBVIOUS
  <2>2. /\ Version(o, held[o].copy)
        /\ held[o].copy.phase = "Creating" /\ held[o].copy.live
        /\ \A f \in Resolves(o) :
             /\ \A x \in held[o].got[f] : Known(x[1], x[2])
             /\ \A p \in Objects : held[o].copy.refs[f] = {p} =>
                  \E n \in 1..MaxRemote : held[o].got[f] = {<<p, n>>}
    BY <1>1, <2>1 DEF Prepared
  <2>3. Version(o, held[o].copy)'
    BY <2>1, <2>2, VersionKept DEF IInv, Version
  <2>4. ASSUME NEW f \in Resolves(o), NEW x \in held[o].got[f]
        PROVE  Known(x[1], x[2])'
    <3>1. Known(x[1], x[2]) /\ x \in Ids
      BY <1>1, <2>1, <2>2, <2>4 DEF Pass
    <3>2. x[1] \in Objects
      BY <3>1 DEF Ids
    <3>3. x[2] \in 1..Len(remote'[x[1]]) /\ (Owed(remote'[x[1]][x[2]]) => store'[x[1]].id = x[2])
      BY <3>1, <3>2, KnownKept DEF IInv
    <3> QED
      BY <3>3 DEF Known
  <2> QED
    BY <2>1, <2>2, <2>3, <2>4
<1> QED
  BY <1>2, <1>3

\* The same for all workers at once.
LEMMA HeldKept ==
    ASSUME IInv, RemoteInv', RemoteGrows, IdsStay, DOMAIN held' = Objects,
           \A o \in Objects : held'[o] \in {held[o], NoPass}
    PROVE  HeldInv'
BY PassKept DEF HeldInv

-----------------------------------------------------------------------------
(* Writes of the status that leave the record alone. *)

SameRecord(o, w) ==
    /\ w \in Object(o) /\ w.refs \in Choices[o]
    /\ w.id = store[o].id /\ w.ids = store[o].ids
    /\ w.phase \in {"", "Creating"} => w.id = 0
    /\ w.phase = "Deleting" => w.deleting
    /\ ~w.live /\ w.id # 0 => ~Owed(remote'[o][w.id])

\* At most the version of one object is replaced by one with the same record.
Rewrites(o, w) ==
    \/ store' = store
    \/ SameRecord(o, w) /\ store' = [store EXCEPT ![o] = w]

\* The same identifiers make the same address.
LEMMA AddressStays ==
    ASSUME NEW o \in Objects, NEW v, NEW w, v.ids = w.ids
    PROVE  AddressOf(o, v) = AddressOf(o, w)
BY DEF AddressOf

\* A version with the same record keeps all stored objects sound.
LEMMA StoreKept ==
    ASSUME IInv, RemoteInv', RemoteGrows, NEW o \in Objects, NEW w, Rewrites(o, w)
    PROVE  StoreInv' /\ IdsStay
<1>1. DOMAIN store = Objects /\ \A p \in Objects : Version(p, store[p]) /\ Placed(p)
  BY DEF IInv, StoreInv
<1>2. DOMAIN store' = Objects
  BY <1>1 DEF Rewrites
<1>3. ASSUME NEW p \in Objects
      PROVE  /\ store'[p] \in Object(p) /\ store'[p].refs \in Choices[p]
             /\ store'[p].id = store[p].id /\ store'[p].ids = store[p].ids
             /\ store'[p].phase \in {"", "Creating"} => store'[p].id = 0
             /\ store'[p].phase = "Deleting" => store'[p].deleting
  <2>1. CASE store'[p] = store[p]
    BY <1>1, <2>1 DEF Version
  <2>2. CASE p = o /\ store'[p] = w /\ SameRecord(o, w)
    BY <2>2 DEF SameRecord
  <2> QED
    BY <1>1, <2>1, <2>2 DEF Rewrites
<1>4. IdsStay
  BY <1>3 DEF IdsStay
<1>5. ASSUME NEW p \in Objects
      PROVE  Version(p, store[p])'
  <2>1. store'[p].id <= Len(remote'[p])
    <3>1. store[p].id <= Len(remote'[p])
      BY <1>1, VersionKept DEF IInv
    <3> QED
      BY <1>3, <3>1
  <2> QED
    BY <1>3, <2>1 DEF Version
<1>6. ASSUME NEW p \in Objects
      PROVE  Placed(p)'
  <2> SUFFICES ASSUME store'[p].id # 0
               PROVE  (/\ \A i \in DOMAIN Controller[KindOf[p]].path :
                            LET f == Controller[KindOf[p]].path[i]
                            IN  f \in Records(p) /\ store[p].ids[f] # {}
                       /\ remote[p][store[p].id].at = AddressOf(p, store[p])
                       /\ ~store[p].live => ~Owed(remote[p][store[p].id]))'
    BY DEF Placed
  <2>1. /\ \A i \in DOMAIN Controller[KindOf[p]].path :
             LET f == Controller[KindOf[p]].path[i]
             IN  f \in Records(p) /\ store[p].ids[f] # {}
        /\ remote[p][store[p].id].at = AddressOf(p, store[p])
        /\ ~store[p].live => ~Owed(remote[p][store[p].id])
    BY <1>1, <1>3 DEF Placed
  <2>2. store[p].id \in 1..Len(remote[p])
    <3>1. store[p].id \in 0..MaxRemote /\ store[p].id <= Len(remote[p])
      BY <1>1 DEF Version, Object
    <3>2. Len(remote[p]) \in Nat
      BY DEF IInv, RemoteInv
    <3>3. store[p].id # 0
      BY <1>3
    <3>4. \A a \in 0..MaxRemote : \A b \in Nat : a # 0 /\ a <= b => a \in 1..b
      BY ReferencesAssumption
    <3> QED
      BY <3>1, <3>2, <3>3, <3>4, Zenon
  <2>3. /\ remote'[p][store[p].id].at = remote[p][store[p].id].at
        /\ Owed(remote'[p][store[p].id]) => Owed(remote[p][store[p].id])
    BY <2>2 DEF RemoteGrows
  <2>4. AddressOf(p, store'[p]) = AddressOf(p, store[p])
    BY <1>3, AddressStays
  <2>5. remote'[p][store'[p].id].at = AddressOf(p, store'[p])
    BY <1>3, <2>1, <2>3, <2>4
  <2>6. ~store'[p].live => ~Owed(remote'[p][store'[p].id])
    <3>1. CASE store'[p] = store[p]
      BY <2>1, <2>3, <3>1
    <3>2. CASE p = o /\ store'[p] = w /\ SameRecord(o, w)
      BY <3>2 DEF SameRecord
    <3> QED
      BY <1>1, <3>1, <3>2 DEF Rewrites
  <2> QED
    BY <1>3, <2>1, <2>5, <2>6
<1> QED
  BY <1>2, <1>4, <1>5, <1>6 DEF StoreInv

\* Nothing happens on the remote side.
LEMMA SameRemote ==
    ASSUME IInv, remote' = remote
    PROVE  RemoteInv' /\ RemoteGrows
<1>1. RemoteInv
  BY DEF IInv
<1>2. \A o \in Objects : Len(remote[o]) \in Nat
  BY <1>1 DEF RemoteInv
<1> QED
  BY <1>1, <1>2 DEF RemoteInv, RemoteGrows

\* A step that rewrites one object and at most gives up creations keeps the invariant.
LEMMA RewriteKeeps ==
    ASSUME IInv, remote' = remote, seen' = seen, doings' \in 0..MaxDoings,
           DOMAIN held' = Objects,
           \A p \in Objects : held'[p] \in {held[p], NoPass},
           NEW o \in Objects, NEW w, Rewrites(o, w)
    PROVE  IInv'
<1>1. RemoteInv' /\ RemoteGrows
  BY SameRemote
<1>2. StoreInv' /\ IdsStay
  BY <1>1, StoreKept
<1>3. SeenInv'
  BY <1>1, <1>2, SeenKept
<1>4. HeldInv'
  BY <1>1, <1>2, HeldKept
<1> QED
  BY <1>1, <1>2, <1>3, <1>4 DEF IInv

\* A write of another phase to a version that is still the stored one.
LEMMA PhaseWrite ==
    ASSUME IInv, remote' = remote, NEW o \in Objects, NEW v, Version(o, v), NEW p \in Phases,
           p \in {"", "Creating"} => v.id = 0, p = "Deleting" => v.deleting,
           Writes(o, v, InPhase(v, p))
    PROVE  Rewrites(o, InPhase(v, p))
<1> DEFINE w == InPhase(v, p)
<1>1. /\ w \in Object(o) /\ w.refs = v.refs /\ w.phase = p
      /\ w.id = v.id /\ w.ids = v.ids /\ w.live = v.live /\ w.deleting = v.deleting
  BY DEF InPhase, Version, Object
<1>2. CASE store' = store
  BY <1>2 DEF Rewrites
<1>3. CASE v = store[o] /\ store' = [store EXCEPT ![o] = w]
  <2>1. v.refs \in Choices[o]
    BY DEF Version
  <2>2. Placed(o)
    BY DEF IInv, StoreInv
  <2>3. ~w.live /\ w.id # 0 => ~Owed(remote'[o][w.id])
    BY <1>1, <1>3, <2>2 DEF Placed
  <2>4. SameRecord(o, w)
    BY <1>1, <1>3, <2>1, <2>3 DEF SameRecord
  <2> QED
    BY <1>3, <2>4 DEF Rewrites
<1> QED
  BY <1>2, <1>3 DEF Writes

-----------------------------------------------------------------------------
(* The steps, one by one. *)

\* The handlers that do nothing but write another phase.
LEMMA PhaseStep ==
    ASSUME IInv, NEW o \in Objects, NEW p \in Phases,
           p \in {"", "Creating"} => seen[o].id = 0, p = "Deleting" => seen[o].deleting,
           WritesPhase(o, p), UNCHANGED <<seen, held, remote, doings>>
    PROVE  IInv'
<1>1. Version(o, seen[o])
  BY DEF IInv, SeenInv
<1>2. Rewrites(o, InPhase(seen[o], p))
  BY <1>1, PhaseWrite DEF WritesPhase
<1>3. DOMAIN held' = Objects /\ doings' \in 0..MaxDoings
  BY DEF IInv, HeldInv
<1> QED
  BY <1>2, <1>3, RewriteKeeps

\* Init records nothing.
LEMMA InitializeStep ==
    ASSUME IInv, NEW o \in Objects, Initialize(o)
    PROVE  IInv'
<1>1. seen[o].id = 0
  BY DEF Initialize, Handling, IInv, SeenInv, Version
<1> QED
  BY <1>1, PhaseStep DEF Initialize, Phases

\* A refused creation gives up what the worker had read.
LEMMA CreateFailsStep ==
    ASSUME IInv, NEW o \in Objects, CreateFails(o)
    PROVE  IInv'
<1>1. Version(o, held[o].copy) /\ DOMAIN held = Objects
  BY DEF IInv, HeldInv, Prepared, CreateFails
<1>2. Rewrites(o, InPhase(held[o].copy, "Failed"))
  BY <1>1, PhaseWrite DEF CreateFails, Phases
<1>3. /\ DOMAIN held' = Objects
      /\ \A p \in Objects : held'[p] \in {held[p], NoPass}
      /\ doings' \in 0..MaxDoings /\ seen' = seen /\ remote' = remote
  BY <1>1 DEF CreateFails, IInv
<1> QED
  BY <1>2, <1>3, RewriteKeeps

\* Provisioning writes nothing but a phase,
LEMMA ProvisionStep ==
    ASSUME IInv, NEW o \in Objects, Provision(o)
    PROVE  IInv'
BY PhaseStep DEF Provision, Phases

\* and so does the handler of Created,
LEMMA NoticeEditStep ==
    ASSUME IInv, NEW o \in Objects, NoticeEdit(o)
    PROVE  IInv'
BY PhaseStep DEF NoticeEdit, Phases

\* that of Updating,
LEMMA UpdateStep ==
    ASSUME IInv, NEW o \in Objects, Update(o)
    PROVE  IInv'
BY PhaseStep DEF Update, Phases

\* the check for a requested deletion,
LEMMA StartDeletionStep ==
    ASSUME IInv, NEW o \in Objects, StartDeletion(o)
    PROVE  IInv'
BY PhaseStep DEF StartDeletion, Leaves, Phases

\* a deletion that fails,
LEMMA DeleteFailsStep ==
    ASSUME IInv, NEW o \in Objects, DeleteFails(o)
    PROVE  IInv'
BY PhaseStep DEF DeleteFails, Phases

\* and the timeout.
LEMMA TimeOutStep ==
    ASSUME IInv, NEW o \in Objects, TimeOut(o)
    PROVE  IInv'
BY PhaseStep DEF TimeOut, Phases

\* The identifiers a worker reads are those of the caches.
LEMMA ResolveStep ==
    ASSUME IInv, NEW o \in Objects, Resolve(o)
    PROVE  IInv'
<1> DEFINE v   == seen[o]
           got == Resolved(o, v)
<1>1. /\ UNCHANGED <<store, seen, remote, doings>>
      /\ held' = [held EXCEPT ![o] = [copy |-> v, got |-> got]]
      /\ v.phase = "Creating" /\ v.live
      /\ \A f \in Resolves(o) : \A p \in v.refs[f] : IdOf(p) # 0
  BY DEF Resolve, Handling, Resolvable
<1>2. Version(o, v)
  BY DEF IInv, SeenInv
<1>3. v.refs \in [Resolves(o) -> SUBSET Objects]
  BY <1>2, ChoiceFacts DEF Version
<1>4. ASSUME NEW p \in Objects, IdOf(p) # 0
      PROVE  IdOf(p) \in 1..MaxRemote /\ Known(p, IdOf(p))
  <2>1. IdOf(p) = seen[p].id
    BY <1>4 DEF IdOf
  <2>2. seen[p].id \in 0..MaxRemote /\ Known(p, seen[p].id)
    BY <1>4, <2>1 DEF IInv, SeenInv, Version, Object
  <2> QED
    BY <1>4, <2>1, <2>2, ReferencesAssumption
<1>5. \A f \in Resolves(o) : got[f] = {<<p, IdOf(p)>> : p \in v.refs[f]}
  BY DEF Resolved
<1>6. ASSUME NEW f \in Resolves(o), NEW x \in got[f]
      PROVE  x \in Ids /\ Known(x[1], x[2])
  <2>1. PICK p \in v.refs[f] : x = <<p, IdOf(p)>>
    BY <1>5
  <2>2. p \in Objects /\ IdOf(p) # 0
    BY <1>1, <1>3
  <2> QED
    BY <1>4, <2>1, <2>2 DEF Ids
<1>7. ASSUME NEW f \in Resolves(o), NEW p \in Objects, v.refs[f] = {p}
      PROVE  \E n \in 1..MaxRemote : got[f] = {<<p, n>>}
  <2>1. IdOf(p) # 0
    BY <1>1, <1>7
  <2>2. got[f] = {<<p, IdOf(p)>>}
    BY <1>5, <1>7
  <2> QED
    BY <1>4, <2>1, <2>2
<1>8. got \in [Resolves(o) -> SUBSET Ids]
  <2>1. got = [f \in Resolves(o) |-> {<<p, IdOf(p)>> : p \in v.refs[f]}]
    BY DEF Resolved
  <2> QED
    BY <1>5, <1>6, <2>1
<1>9. Rewrites(o, v)
  BY <1>1 DEF Rewrites
<1>10. StoreInv' /\ IdsStay /\ RemoteInv' /\ RemoteGrows
  BY <1>1, <1>9, SameRemote, StoreKept
<1>11. SeenInv'
  BY <1>1, <1>10, SeenKept
<1>12. DOMAIN held = Objects /\ DOMAIN held' = Objects
  BY <1>1 DEF IInv, HeldInv
<1>13. ASSUME NEW p \in Objects
       PROVE  (held[p] \in Pass(p) \cup {NoPass} /\ Prepared(p))'
  <2>1. CASE p = o
    <3>1. held'[o] = [copy |-> v, got |-> got]
      BY <1>1, <1>12
    <3> HIDE DEF v, got
    <3>2. held'[o] \in Pass(o)
      <4>1. v \in Object(o)
        BY <1>2 DEF Version
      <4> QED
        BY <1>8, <3>1, <4>1 DEF Pass
    <3>3. held'[o].copy = v /\ held'[o].got = got
      BY <3>1
    <3>4. Prepared(o)'
      <4>1. Version(o, held'[o].copy)
        BY <1>2, <3>3
      <4>2. Version(o, held[o].copy)'
        BY <1>1, <4>1 DEF Version
      <4>3. \A f \in Resolves(o) :
              /\ \A x \in held'[o].got[f] : Known(x[1], x[2])
              /\ \A q \in Objects : held'[o].copy.refs[f] = {q} =>
                   \E n \in 1..MaxRemote : held'[o].got[f] = {<<q, n>>}
        BY <1>6, <1>7, <3>3
      <4>4. (\A f \in Resolves(o) :
               /\ \A x \in held[o].got[f] : Known(x[1], x[2])
               /\ \A q \in Objects : held[o].copy.refs[f] = {q} =>
                    \E n \in 1..MaxRemote : held[o].got[f] = {<<q, n>>})'
        BY <1>1, <4>3 DEF Known
      <4> QED
        BY <1>1, <3>3, <4>2, <4>4 DEF Prepared
    <3> QED
      BY <2>1, <3>2, <3>4
  <2>2. CASE p # o
    <3>1. held'[p] = held[p]
      BY <1>1, <1>12, <2>2
    <3> QED
      BY <1>10, <3>1, PassKept
  <2> QED
    BY <2>1, <2>2
<1>14. HeldInv'
  BY <1>12, <1>13 DEF HeldInv
<1> QED
  BY <1>1, <1>10, <1>11, <1>14 DEF IInv

\* An object whose version is not written is where it was.
LEMMA ObjectKept ==
    ASSUME IInv, RemoteInv', RemoteGrows, NEW p \in Objects, store'[p] = store[p]
    PROVE  Version(p, store[p])' /\ Placed(p)'
<1>1. Version(p, store[p]) /\ Placed(p)
  BY DEF IInv, StoreInv
<1>2. Version(p, store[p])'
  BY <1>1, VersionKept DEF IInv, Version
<1>3. Placed(p)'
  <2>1. CASE store[p].id = 0
    BY <2>1 DEF Placed
  <2>2. CASE store[p].id # 0
    <3>1. store[p].id \in 1..Len(remote[p])
      <4>1. store[p].id \in 0..MaxRemote /\ store[p].id <= Len(remote[p])
        BY <1>1 DEF Version, Object
      <4>2. Len(remote[p]) \in Nat
        BY DEF IInv, RemoteInv
      <4>3. \A a \in 0..MaxRemote : \A b \in Nat : a # 0 /\ a <= b => a \in 1..b
        BY ReferencesAssumption
      <4> QED
        BY <2>2, <4>1, <4>2, <4>3, Zenon
    <3>2. /\ remote'[p][store[p].id].at = remote[p][store[p].id].at
          /\ Owed(remote'[p][store[p].id]) => Owed(remote[p][store[p].id])
      BY <3>1 DEF RemoteGrows
    <3>3. AddressOf(p, store'[p]) = AddressOf(p, store[p])
      OBVIOUS
    <3> QED
      BY <1>1, <2>2, <3>2, <3>3 DEF Placed, AddressOf
  <2> QED
    BY <2>1, <2>2
<1> QED
  BY <1>2, <1>3

\* A creation adds a resource below those it has read, and records it or does not.
LEMMA CreateSucceedsStep ==
    ASSUME IInv, NEW o \in Objects, CreateSucceeds(o)
    PROVE  IInv'
<1> DEFINE v   == held[o].copy
           got == held[o].got
           at  == At(KindOf[o], got)
           n   == Len(remote[o]) + 1
<1>1. PICK p \in {"Provisioning", "Created"} :
        Writes(o, v, InPhase(Recorded(o, v, got), p))
  BY DEF CreateSucceeds
<1>2. /\ held[o] # NoPass /\ Len(remote[o]) < MaxRemote
      /\ remote' = [remote EXCEPT ![o] = Append(@, [at |-> at, live |-> TRUE, denied |-> FALSE])]
      /\ held' = [held EXCEPT ![o] = NoPass]
      /\ UNCHANGED <<seen, doings>>
  BY DEF CreateSucceeds
<1>3. /\ Version(o, v) /\ v.phase = "Creating" /\ v.live
      /\ \A f \in Resolves(o) : \A q \in Objects :
           v.refs[f] = {q} => \E m \in 1..MaxRemote : got[f] = {<<q, m>>}
      /\ got \in [Resolves(o) -> SUBSET Ids]
      /\ DOMAIN held = Objects
  BY <1>2 DEF IInv, HeldInv, Prepared, Pass
<1>4. /\ remote \in [Objects -> Seq(Resource)] /\ Len(remote[o]) \in Nat
      /\ \A q \in Objects : Len(remote[q]) <= MaxRemote
  BY DEF IInv, RemoteInv
<1>5. \A i \in DOMAIN Controller[KindOf[o]].path :
        \E y \in Ids : got[Controller[KindOf[o]].path[i]] = {y}
  <2> SUFFICES ASSUME NEW i \in DOMAIN Controller[KindOf[o]].path
               PROVE  \E y \in Ids : got[Controller[KindOf[o]].path[i]] = {y}
    OBVIOUS
  <2> DEFINE f == Controller[KindOf[o]].path[i]
  <2>1. f \in Resolves(o)
    BY ObjectPath
  <2>2. PICK q \in Objects : v.refs[f] = {q}
    <3>1. v.refs \in Choices[o]
      BY <1>3 DEF Version
    <3> QED
      BY <3>1, OneOnPath, Zenon
  <2>3. PICK m \in 1..MaxRemote : got[f] = {<<q, m>>}
    BY <1>3, <2>1, <2>2
  <2> QED
    BY <2>3 DEF Ids
<1>6. at \in Seq(Ids)
  BY <1>5, AtType
<1> HIDE DEF at
<1>7. /\ remote' \in [Objects -> Seq(Resource)]
      /\ Len(remote'[o]) = n /\ remote'[o][n] = [at |-> at, live |-> TRUE, denied |-> FALSE]
      /\ \A m \in 1..Len(remote[o]) : remote'[o][m] = remote[o][m]
      /\ \A q \in Objects \ {o} : remote'[q] = remote[q]
  <2>1. [at |-> at, live |-> TRUE, denied |-> FALSE] \in Resource
    BY <1>6 DEF Resource
  <2> QED
    BY <1>2, <1>4, <2>1
<1>8. RemoteInv'
  BY <1>2, <1>4, <1>7, ReferencesAssumption DEF RemoteInv
<1>9. RemoteGrows
  <2> SUFFICES ASSUME NEW q \in Objects
               PROVE  /\ Len(remote[q]) <= Len(remote'[q])
                      /\ \A m \in 1..Len(remote[q]) :
                           /\ remote'[q][m].at = remote[q][m].at
                           /\ Owed(remote'[q][m]) => Owed(remote[q][m])
    BY DEF RemoteGrows
  <2>1. Len(remote[q]) \in Nat
    BY <1>4
  <2>2. \A m \in 1..Len(remote[q]) : remote'[q][m] = remote[q][m]
    BY <1>7
  <2>3. Len(remote[q]) <= Len(remote'[q])
    BY <1>7, <2>1
  <2> QED
    BY <2>2, <2>3, Zenon
<1> DEFINE u == InPhase(Recorded(o, v, got), p)
<1>10. /\ u \in Object(o) /\ u.refs = v.refs /\ u.phase = p /\ u.live
       /\ u.id = n /\ n \in 1..MaxRemote
       /\ u.ids = [f \in Records(o) |-> got[f]]
  <2>1. [f \in Records(o) |-> got[f]] \in [Records(o) -> SUBSET Ids]
    BY <1>3, ObjectPath
  <2>2. n \in 1..MaxRemote
    BY <1>2, <1>4, ReferencesAssumption
  <2>3. p \in Phases
    BY DEF Phases
  <2>4. v \in Object(o)
    BY <1>3 DEF Version
  <2> HIDE DEF v, got, n
  <2>5. Recorded(o, v, got) = [v EXCEPT !.id = n, !.ids = [f \in Records(o) |-> got[f]]]
    BY DEF Recorded, n
  <2> DEFINE r == Recorded(o, v, got)
  <2>6. /\ r \in Object(o) /\ r.refs = v.refs /\ r.live = v.live
        /\ r.id = n /\ r.ids = [f \in Records(o) |-> got[f]]
    <3> DEFINE x == [f \in Records(o) |-> got[f]]
    <3> HIDE DEF x
    <3>1. x \in [Records(o) -> SUBSET Ids]
      BY <2>1 DEF x
    <3>2. r = [v EXCEPT !.id = n, !.ids = x]
      BY <2>5 DEF x
    <3>3. n \in 0..MaxRemote
      BY <2>2, ReferencesAssumption
    <3> HIDE DEF r
    <3>4. r \in Object(o)
      BY <2>4, <3>1, <3>2, <3>3 DEF Object
    <3>5. r.refs = v.refs /\ r.live = v.live /\ r.id = n /\ r.ids = x
      BY <2>4, <3>2 DEF Object
    <3> QED
      BY <3>4, <3>5 DEF x
  <2> HIDE DEF r
  <2>7. InPhase(r, p) \in Object(o)
    BY <2>3, <2>6 DEF InPhase, Object
  <2>8. /\ InPhase(r, p).refs = r.refs /\ InPhase(r, p).phase = p /\ InPhase(r, p).live = r.live
        /\ InPhase(r, p).id = r.id /\ InPhase(r, p).ids = r.ids
    BY <2>6 DEF InPhase, Object
  <2> QED
    BY <1>3, <2>2, <2>6, <2>7, <2>8 DEF r, v
<1> HIDE DEF u
<1>11. store' = store \/ (v = store[o] /\ store' = [store EXCEPT ![o] = u])
  BY <1>1 DEF Writes, u
<1>12. DOMAIN store = Objects /\ DOMAIN store' = Objects
  BY <1>11 DEF IInv, StoreInv
<1>13. ASSUME store' # store
       PROVE  v = store[o] /\ store'[o] = u /\ store[o].id = 0
  BY <1>3, <1>11, <1>12, <1>13 DEF Version
<1>14. IdsStay
  BY <1>11, <1>12, <1>13 DEF IdsStay
<1>15. ASSUME NEW q \in Objects
       PROVE  Version(q, store[q])' /\ Placed(q)'
  <2>1. CASE store'[q] = store[q]
    BY <1>8, <1>9, <2>1, ObjectKept
  <2>2. CASE q = o /\ store' # store
    <3>1. store'[o] = u /\ v = store[o]
      BY <1>13, <2>2
    <3>2. Version(o, store[o])'
      <4>1. u.refs \in Choices[o]
        BY <1>3, <1>10 DEF Version
      <4>2. u.id <= Len(remote'[o])
        BY <1>4, <1>7, <1>10
      <4>3. u.phase \notin {"", "Creating"}
        BY <1>10
      <4> QED
        BY <1>10, <3>1, <4>1, <4>2, <4>3 DEF Version
    <3>3. AddressOf(o, u) = at
      <4>1. \A i \in DOMAIN Controller[KindOf[o]].path :
              u.ids[Controller[KindOf[o]].path[i]] = got[Controller[KindOf[o]].path[i]]
        BY <1>10, ObjectPath
      <4> QED
        BY <4>1, AtCongruence DEF AddressOf, at
    <3>4. \A i \in DOMAIN Controller[KindOf[o]].path :
            LET f == Controller[KindOf[o]].path[i]
            IN  f \in Records(o) /\ u.ids[f] # {}
      <4> SUFFICES ASSUME NEW i \in DOMAIN Controller[KindOf[o]].path
                   PROVE  /\ Controller[KindOf[o]].path[i] \in Records(o)
                          /\ u.ids[Controller[KindOf[o]].path[i]] # {}
        OBVIOUS
      <4>1. Controller[KindOf[o]].path[i] \in Records(o)
        BY ObjectPath
      <4> QED
        BY <1>5, <1>10, <4>1
    <3>5. Placed(o)'
      <4>1. store'[o].live /\ store'[o].id = n
        BY <1>10, <3>1
      <4>2. remote'[o][n].at = at
        BY <1>7
      <4>3. remote'[o][store'[o].id].at = AddressOf(o, store'[o])
        BY <3>1, <3>3, <4>1, <4>2
      <4>4. \A i \in DOMAIN Controller[KindOf[o]].path :
              LET f == Controller[KindOf[o]].path[i]
              IN  f \in Records(o) /\ store'[o].ids[f] # {}
        BY <3>1, <3>4
      <4> QED
        BY <4>1, <4>3, <4>4 DEF Placed, AddressOf
    <3> QED
      BY <2>2, <3>2, <3>5
  <2> QED
    BY <1>11, <1>12, <2>1, <2>2
<1>16. StoreInv'
  BY <1>12, <1>15 DEF StoreInv
<1>17. SeenInv'
  BY <1>2, <1>8, <1>9, <1>14, SeenKept
<1>18. HeldInv'
  <2>1. /\ DOMAIN held' = Objects
        /\ \A q \in Objects : held'[q] \in {held[q], NoPass}
    BY <1>2, <1>3
  <2> QED
    BY <1>8, <1>9, <1>14, <2>1, HeldKept
<1> QED
  BY <1>2, <1>8, <1>16, <1>17, <1>18 DEF IInv

\* Of the resources below a deleted one, and of that one, nothing but the life ends.
LEMMA WithoutFacts ==
    ASSUME RemoteInv, NEW o \in Objects, NEW n
    PROVE  /\ Without(o, n) \in [Objects -> Seq(Resource)]
           /\ \A p \in Objects :
                /\ Len(Without(o, n)[p]) = Len(remote[p])
                /\ \A m \in 1..Len(remote[p]) :
                     /\ Without(o, n)[p][m].at = remote[p][m].at
                     /\ Owed(Without(o, n)[p][m]) => Owed(remote[p][m])
           /\ n \in 1..Len(remote[o]) => ~Without(o, n)[o][n].live
<1> DEFINE gone(p, m) == <<p, m>> = <<o, n>> \/ Below(o, n, remote[p][m])
           new(p, m)  == IF gone(p, m) THEN [remote[p][m] EXCEPT !.live = FALSE] ELSE remote[p][m]
<1>1. \A p \in Objects : remote[p] \in Seq(Resource)
  BY DEF RemoteInv
<1>2. ASSUME NEW p \in Objects
      PROVE  /\ Without(o, n)[p] \in Seq(Resource) /\ Len(Without(o, n)[p]) = Len(remote[p])
             /\ \A m \in 1..Len(remote[p]) : Without(o, n)[p][m] = new(p, m)
             /\ \A m \in 1..Len(remote[p]) : new(p, m).at = remote[p][m].at
             /\ \A m \in 1..Len(remote[p]) : Owed(new(p, m)) => Owed(remote[p][m])
  <2>1. DOMAIN remote[p] = 1..Len(remote[p]) /\ Len(remote[p]) \in Nat
    BY <1>1
  <2>2. \A m \in 1..Len(remote[p]) : remote[p][m] \in Resource
    BY <1>1
  <2>3. \A m \in 1..Len(remote[p]) :
          /\ new(p, m) \in Resource
          /\ new(p, m).at = remote[p][m].at
          /\ Owed(new(p, m)) => Owed(remote[p][m])
    BY <2>2 DEF Resource
  <2>4. Without(o, n)[p] = [m \in 1..Len(remote[p]) |-> new(p, m)]
    BY <2>1 DEF Without
  <2> HIDE DEF new
  <2>5. [m \in 1..Len(remote[p]) |-> new(p, m)] \in [1..Len(remote[p]) -> Resource]
    BY <2>3
  <2> QED
    BY <2>1, <2>3, <2>4, <2>5
<1>3. \A p \in Objects : \A m \in 1..Len(remote[p]) :
        gone(p, m) /\ remote[p][m] \in Resource => ~new(p, m).live
  BY DEF Resource
<1>4. ASSUME n \in 1..Len(remote[o])
      PROVE  ~Without(o, n)[o][n].live
  <2>1. remote[o][n] \in Resource
    BY <1>1, <1>4
  <2>2. ~new(o, n).live
    BY <1>3, <1>4, <2>1
  <2> HIDE DEF new
  <2> QED
    BY <1>2, <1>4, <2>2
<1>5. Without(o, n) \in [Objects -> Seq(Resource)]
  <2>1. DOMAIN Without(o, n) = Objects /\ Without(o, n) = [p \in Objects |-> Without(o, n)[p]]
    BY DEF Without
  <2> QED
    BY <1>2, <2>1
<1> HIDE DEF new
<1> QED
  BY <1>2, <1>4, <1>5

\* A resource that a denied DELETE has reached is owed no more; nothing else changes.
LEMMA DeniedFacts ==
    ASSUME RemoteInv, NEW o \in Objects, NEW n \in 1..Len(remote[o])
    PROVE  /\ Denied(o, n) \in [Objects -> Seq(Resource)]
           /\ \A p \in Objects :
                /\ Len(Denied(o, n)[p]) = Len(remote[p])
                /\ \A m \in 1..Len(remote[p]) :
                     /\ Denied(o, n)[p][m].at = remote[p][m].at
                     /\ Denied(o, n)[p][m].live = remote[p][m].live
                     /\ Owed(Denied(o, n)[p][m]) => Owed(remote[p][m])
           /\ ~Owed(Denied(o, n)[o][n])
<1> DEFINE r == [remote[o][n] EXCEPT !.denied = TRUE]
           s == [remote[o] EXCEPT ![n] = r]
<1>1. /\ remote \in [Objects -> Seq(Resource)]
      /\ remote[o] \in Seq(Resource) /\ remote[o][n] \in Resource
  BY DEF RemoteInv
<1>2. /\ r \in Resource /\ r.at = remote[o][n].at /\ r.live = remote[o][n].live
      /\ ~Owed(r)
  BY <1>1 DEF Resource
<1>3. Denied(o, n) = [remote EXCEPT ![o] = s]
  BY DEF Denied
<1> HIDE DEF r
<1>4. /\ s \in Seq(Resource) /\ Len(s) = Len(remote[o])
      /\ s[n] = r /\ \A m \in 1..Len(remote[o]) : m # n => s[m] = remote[o][m]
  BY <1>1, <1>2
<1> HIDE DEF s
<1>5. Denied(o, n)[o] = s /\ \A p \in Objects \ {o} : Denied(o, n)[p] = remote[p]
  BY <1>1, <1>3
<1>6. Denied(o, n) \in [Objects -> Seq(Resource)]
  BY <1>1, <1>3, <1>4
<1>7. ASSUME NEW p \in Objects
      PROVE  /\ Len(Denied(o, n)[p]) = Len(remote[p])
             /\ \A m \in 1..Len(remote[p]) :
                  /\ Denied(o, n)[p][m].at = remote[p][m].at
                  /\ Denied(o, n)[p][m].live = remote[p][m].live
                  /\ Owed(Denied(o, n)[p][m]) => Owed(remote[p][m])
  <2>1. CASE p # o
    BY <1>5, <2>1
  <2>2. CASE p = o
    BY <1>2, <1>4, <1>5, <2>2
  <2> QED
    BY <2>1, <2>2
<1> QED
  BY <1>2, <1>4, <1>5, <1>6, <1>7

\* A resource that is not found where its object says is dead, and one that is found dies
\* or is denied.
LEMMA DeleteStep ==
    ASSUME IInv, NEW o \in Objects, Delete(o)
    PROVE  /\ IInv'
           /\ store[o].live /\ ~store'[o].live /\ store[o].id # 0
                => ~Owed(remote'[o][store[o].id])
<1> DEFINE v == seen[o]
           w == [v EXCEPT !.live = FALSE]
<1>1. /\ \/ remote' = IF Found(o, v) THEN Without(o, v.id) ELSE remote
         \/ Found(o, v) /\ remote' = Denied(o, v.id)
      /\ Writes(o, v, w) /\ UNCHANGED <<seen, held, doings>>
      /\ v.phase = "Deleting" /\ v.live
  BY DEF Delete, Handling
<1>2. Version(o, v) /\ (v.id # 0 => Known(o, v.id)) /\ Placed(o) /\ RemoteInv
  BY DEF IInv, SeenInv, StoreInv
<1>3. RemoteInv' /\ RemoteGrows
  <2>1. CASE remote' = remote
    BY <2>1, SameRemote
  <2>2. CASE remote' = Without(o, v.id)
    <3>1. \A p \in Objects : Len(remote[p]) \in Nat /\ Len(remote[p]) <= MaxRemote
      BY <1>2 DEF RemoteInv
    <3>2. RemoteGrows
      BY <1>2, <2>2, <3>1, WithoutFacts DEF RemoteGrows
    <3>3. RemoteInv'
      BY <1>2, <2>2, <3>1, WithoutFacts DEF RemoteInv
    <3> QED
      BY <3>2, <3>3
  <2>3. CASE Found(o, v) /\ remote' = Denied(o, v.id)
    <3>1. v.id \in 1..Len(remote[o])
      BY <1>2, <2>3 DEF Found, Known
    <3>2. \A p \in Objects : Len(remote[p]) \in Nat /\ Len(remote[p]) <= MaxRemote
      BY <1>2 DEF RemoteInv
    <3> QED
      BY <1>2, <2>3, <3>1, <3>2, DeniedFacts DEF RemoteInv, RemoteGrows
  <2> QED
    BY <1>1, <2>1, <2>2, <2>3
<1>4. ASSUME v = store[o], v.id # 0
      PROVE  ~Owed(remote'[o][v.id])
  <2>1. CASE Found(o, v)
    <3>1. v.id \in 1..Len(remote[o])
      BY <1>2, <1>4 DEF Known
    <3>2. CASE remote' = Without(o, v.id)
      BY <1>2, <3>1, <3>2, WithoutFacts
    <3>3. CASE remote' = Denied(o, v.id)
      BY <1>2, <3>1, <3>3, DeniedFacts
    <3> QED
      BY <1>1, <2>1, <3>2, <3>3
  <2>2. CASE ~Found(o, v)
    <3>1. remote[o][v.id].at = AddressOf(o, v)
      BY <1>2, <1>4 DEF Placed
    <3> QED
      BY <1>1, <1>4, <2>2, <3>1 DEF Found
  <2> QED
    BY <2>1, <2>2
<1>5. /\ w \in Object(o) /\ w.refs = v.refs /\ w.phase = v.phase
      /\ w.deleting = v.deleting /\ w.id = v.id /\ w.ids = v.ids
  BY <1>2 DEF Version, Object
<1>6. Rewrites(o, w)
  <2>1. CASE store' = store
    BY <2>1 DEF Rewrites
  <2>2. CASE v = store[o] /\ store' = [store EXCEPT ![o] = w]
    <3>1. v.refs \in Choices[o]
      BY <1>2 DEF Version
    <3>2. v.deleting
      BY <1>1, <1>2 DEF Version
    <3>3. SameRecord(o, w)
      BY <1>1, <1>4, <1>5, <2>2, <3>1, <3>2 DEF SameRecord
    <3> QED
      BY <2>2, <3>3 DEF Rewrites
  <2> QED
    BY <1>1, <2>1, <2>2 DEF Writes
<1>7. StoreInv' /\ IdsStay
  BY <1>3, <1>6, StoreKept
<1>8. SeenInv'
  BY <1>1, <1>3, <1>7, SeenKept
<1>9. HeldInv'
  <2>1. DOMAIN held' = Objects /\ \A p \in Objects : held'[p] \in {held[p], NoPass}
    BY <1>1 DEF IInv, HeldInv
  <2> QED
    BY <1>3, <1>7, <2>1, HeldKept
<1>10. IInv'
  BY <1>1, <1>3, <1>7, <1>8, <1>9 DEF IInv
<1>11. ASSUME store[o].live, ~store'[o].live, store[o].id # 0
       PROVE  ~Owed(remote'[o][store[o].id])
  <2>1. v = store[o]
    BY <1>1, <1>11 DEF Writes
  <2> QED
    BY <1>4, <1>11, <2>1
<1> QED
  BY <1>10, <1>11

\* An edit leaves the status alone.
LEMMA UserEditStep ==
    ASSUME IInv, NEW o \in Objects, UserEdit(o)
    PROVE  IInv'
<1>1. PICK refs \in Choices[o] :
        store' = [store EXCEPT ![o] = [store[o] EXCEPT !.refs = refs, !.edited = TRUE]]
  BY DEF UserEdit, IInv, StoreInv
<1> DEFINE w == [store[o] EXCEPT !.refs = refs, !.edited = TRUE]
<1>2. Version(o, store[o]) /\ Placed(o) /\ store[o].live
  BY DEF IInv, StoreInv, UserEdit
<1>3. refs \in [Resolves(o) -> SUBSET Objects]
  BY ChoiceFacts
<1>4. /\ w \in Object(o) /\ w.refs = refs /\ w.phase = store[o].phase /\ w.live
      /\ w.deleting = store[o].deleting
      /\ w.id = store[o].id /\ w.ids = store[o].ids
  BY <1>2, <1>3 DEF Version, Object
<1> HIDE DEF w
<1>5. SameRecord(o, w)
  BY <1>2, <1>4 DEF SameRecord, Version
<1>6. Rewrites(o, w)
  BY <1>1, <1>5 DEF Rewrites, w
<1>7. /\ DOMAIN held' = Objects /\ doings' \in 0..MaxDoings
      /\ held' = held /\ seen' = seen /\ remote' = remote
  BY ReferencesAssumption DEF IInv, HeldInv, UserEdit, Doing
<1> QED
  BY <1>6, <1>7, RewriteKeeps

\* The bound on what users do holds after one more doing.
LEMMA DoingsBounded ==
    ASSUME doings \in 0..MaxDoings, NEW o, Doing(o)
    PROVE  doings' \in 0..MaxDoings
BY ReferencesAssumption DEF Doing

\* A request for deletion removes at once only what has no record.
LEMMA UserDeleteStep ==
    ASSUME IInv, NEW o \in Objects, UserDelete(o)
    PROVE  /\ IInv'
           /\ ~store'[o].live => store[o].id = 0
<1>1. PICK live \in {TRUE, store[o].phase # ""} :
        store' = [store EXCEPT ![o] = [store[o] EXCEPT !.deleting = TRUE, !.live = live]]
  BY DEF UserDelete, IInv, StoreInv
<1> DEFINE w == [store[o] EXCEPT !.deleting = TRUE, !.live = live]
<1>2. Version(o, store[o]) /\ DOMAIN store = Objects
  BY DEF IInv, StoreInv
<1>3. /\ w \in Object(o) /\ w.refs = store[o].refs /\ w.phase = store[o].phase
      /\ w.live = live /\ w.deleting /\ w.id = store[o].id /\ w.ids = store[o].ids
  BY <1>2 DEF Version, Object
<1>4. ~w.live => store[o].id = 0
  BY <1>2, <1>3 DEF Version
<1> HIDE DEF w
<1>5. SameRecord(o, w)
  BY <1>2, <1>3, <1>4 DEF SameRecord, Version
<1>6. Rewrites(o, w)
  BY <1>1, <1>5 DEF Rewrites, w
<1>7. /\ DOMAIN held' = Objects /\ doings' \in 0..MaxDoings
      /\ held' = held /\ seen' = seen /\ remote' = remote
  <2>1. Doing(o) /\ held' = held /\ seen' = seen /\ remote' = remote
    BY DEF UserDelete
  <2>2. doings' \in 0..MaxDoings
    BY <2>1, DoingsBounded DEF IInv
  <2> QED
    BY <2>1, <2>2 DEF IInv, HeldInv
<1>8. IInv'
  BY <1>6, <1>7, RewriteKeeps
<1>9. store'[o] = w
  BY <1>1, <1>2 DEF w
<1> QED
  BY <1>4, <1>8, <1>9

\* An object that has gone owed nothing any more, so nothing known of it is owed.
LEMMA UserCreateStep ==
    ASSUME IInv, NEW o \in Objects, UserCreate(o)
    PROVE  IInv'
<1>1. PICK refs \in Choices[o] : store' = [store EXCEPT ![o] = NewObject(o, refs)]
  BY DEF UserCreate
<1>2. ~store[o].live /\ UNCHANGED <<seen, held, remote>> /\ doings' \in 0..MaxDoings
  BY ReferencesAssumption DEF UserCreate, Doing, IInv
<1>3. DOMAIN store = Objects /\ Placed(o)
  BY DEF IInv, StoreInv
<1>4. refs \in [Resolves(o) -> SUBSET Objects]
  BY ChoiceFacts
<1>5. NewObject(o, refs) \in Object(o)
  BY <1>4, ReferencesAssumption DEF NewObject, Object, Phases
<1>6. /\ NewObject(o, refs).id = 0 /\ NewObject(o, refs).refs = refs
      /\ NewObject(o, refs).phase = ""
  BY DEF NewObject
<1>7. RemoteInv' /\ RemoteGrows
  BY <1>2, SameRemote
<1>8. \A p \in Objects \ {o} : store'[p] = store[p]
  BY <1>1, <1>3
<1>9. store'[o] = NewObject(o, refs) /\ DOMAIN store' = Objects
  BY <1>1, <1>3
<1>10. IdsStay
  <2>1. store[o].id = 0 \/ ~Owed(remote'[o][store[o].id])
    BY <1>2, <1>3 DEF Placed
  <2> QED
    BY <1>8, <2>1 DEF IdsStay
<1>11. ASSUME NEW p \in Objects
       PROVE  Version(p, store[p])' /\ Placed(p)'
  <2>1. CASE p # o
    BY <1>7, <1>8, <2>1, ObjectKept
  <2>2. CASE p = o
    <3>1. 0 <= Len(remote'[o])
      BY <1>7 DEF RemoteInv
    <3>2. Version(o, store[o])'
      BY <1>5, <1>6, <1>9, <3>1 DEF Version
    <3>3. Placed(o)'
      BY <1>6, <1>9 DEF Placed
    <3> QED
      BY <2>2, <3>2, <3>3
  <2> QED
    BY <2>1, <2>2
<1>12. StoreInv'
  BY <1>9, <1>11 DEF StoreInv
<1>13. SeenInv'
  BY <1>2, <1>7, <1>10, SeenKept
<1>14. HeldInv'
  <2>1. DOMAIN held' = Objects /\ \A p \in Objects : held'[p] \in {held[p], NoPass}
    BY <1>2 DEF IInv, HeldInv
  <2> QED
    BY <1>7, <1>10, <2>1, HeldKept
<1> QED
  BY <1>2, <1>7, <1>12, <1>13, <1>14 DEF IInv

\* A cache that catches up knows what the object has on record.
LEMMA DeliverStep ==
    ASSUME IInv, NEW o \in Objects, Deliver(o)
    PROVE  IInv'
<1>1. seen' = [seen EXCEPT ![o] = store[o]] /\ UNCHANGED <<store, held, remote, doings>>
  BY DEF Deliver
<1>2. DOMAIN seen = Objects /\ DOMAIN seen' = Objects
  BY <1>1 DEF IInv, SeenInv
<1>3. RemoteInv' /\ RemoteGrows
  BY <1>1, SameRemote
<1>4. StoreInv' /\ IdsStay
  BY <1>1, <1>3, StoreKept DEF Rewrites
<1>5. HeldInv'
  <2>1. DOMAIN held' = Objects /\ \A p \in Objects : held'[p] \in {held[p], NoPass}
    BY <1>1 DEF IInv, HeldInv
  <2> QED
    BY <1>3, <1>4, <2>1, HeldKept
<1>6. ASSUME NEW p \in Objects
      PROVE  (Version(p, seen[p]) /\ (seen[p].id # 0 => Known(p, seen[p].id)))'
  <2>1. Version(p, seen'[p]) /\ (seen'[p].id # 0 => Known(p, seen'[p].id))
    <3>1. CASE p # o
      <4>1. seen'[p] = seen[p]
        BY <1>1, <1>2, <3>1
      <4> QED
        BY <4>1 DEF IInv, SeenInv
    <3>2. CASE p = o
      <4>1. seen'[o] = store[o]
        BY <1>1, <1>2
      <4>2. Version(o, store[o])
        BY DEF IInv, StoreInv
      <4>3. store[o].id # 0 => store[o].id \in 1..Len(remote[o])
        <5>1. store[o].id \in 0..MaxRemote /\ store[o].id <= Len(remote[o])
          BY <4>2 DEF Version, Object
        <5>2. Len(remote[o]) \in Nat
          BY DEF IInv, RemoteInv
        <5>3. \A a \in 0..MaxRemote : \A b \in Nat : a # 0 /\ a <= b => a \in 1..b
          BY ReferencesAssumption
        <5> QED
          BY <5>1, <5>2, <5>3, Zenon
      <4> QED
        BY <3>2, <4>1, <4>2, <4>3 DEF Known
    <3> QED
      BY <3>1, <3>2
  <2> QED
    BY <1>1, <2>1 DEF Version, Known
<1>7. SeenInv'
  BY <1>2, <1>6 DEF SeenInv
<1> QED
  BY <1>1, <1>3, <1>4, <1>5, <1>7 DEF IInv

\* Every step keeps the invariant.
LEMMA NextKeeps ==
    ASSUME IInv, [Next]_vars
    PROVE  IInv'
<1>1. CASE UNCHANGED vars
  <2>1. /\ store' = store /\ seen' = seen /\ held' = held
        /\ remote' = remote /\ doings' = doings
    BY <1>1 DEF vars
  <2>2. RemoteInv' /\ RemoteGrows /\ IdsStay
    BY <2>1, SameRemote DEF IdsStay
  <2>3. StoreInv'
    BY <2>1, <2>2, ObjectKept DEF IInv, StoreInv
  <2>4. SeenInv'
    BY <2>1, <2>2, SeenKept
  <2>5. HeldInv'
    <3>1. DOMAIN held' = Objects
      BY <2>1 DEF IInv, HeldInv
    <3> QED
      BY <2>1, <2>2, <3>1, HeldKept
  <2> QED
    BY <2>1, <2>2, <2>3, <2>4, <2>5 DEF IInv
<1>2. ASSUME NEW o \in Objects, Reconcile(o)
      PROVE  IInv'
  BY <1>2, InitializeStep, ResolveStep, CreateSucceedsStep, CreateFailsStep, ProvisionStep,
     NoticeEditStep, UpdateStep, StartDeletionStep, DeleteStep, DeleteFailsStep, TimeOutStep
     DEF Reconcile
<1>3. ASSUME NEW o \in Objects, UserEdit(o) \/ UserDelete(o) \/ UserCreate(o) \/ Deliver(o)
      PROVE  IInv'
  BY <1>3, UserEditStep, UserDeleteStep, UserCreateStep, DeliverStep
<1> QED
  BY <1>1, <1>2, <1>3 DEF Next

-----------------------------------------------------------------------------
(* To begin with. *)

\* The first states satisfy the invariant.
LEMMA InitKeeps ==
    ASSUME Init
    PROVE  IInv
<1>1. PICK settled \in Begins :
        /\ store = [o \in Objects |->
                      IF o \in settled THEN SettledObject(o, FirstRefs[o])
                                       ELSE NewObject(o, FirstRefs[o])]
        /\ remote = [o \in Objects |->
                       IF o \in settled
                       THEN <<[at |-> AddressOf(o, store[o]), live |-> TRUE, denied |-> FALSE]>>
                       ELSE << >>]
        /\ \A o \in settled : Exists(AddressOf(o, store[o]), remote)
  BY DEF Init
<1>2. /\ seen = store /\ held = [o \in Objects |-> NoPass] /\ doings = 0
  BY DEF Init
<1>3. ASSUME NEW o \in Objects, o \in settled
      PROVE  /\ Version(o, store[o]) /\ Placed(o) /\ store[o].id = 1
             /\ remote[o] \in Seq(Resource) /\ Len(remote[o]) = 1
  <2> DEFINE ids == [f \in Records(o) |-> {<<p, 1>> : p \in FirstRefs[o][f]}]
             at  == AddressOf(o, store[o])
  <2>1. /\ store[o] = SettledObject(o, FirstRefs[o])
        /\ remote[o] = <<[at |-> at, live |-> TRUE, denied |-> FALSE]>>
    BY <1>1, <1>3
  <2>2. FirstRefs[o] \in Choices[o]
    BY ReferencesAssumption
  <2>3. FirstRefs[o] \in [Resolves(o) -> SUBSET Objects]
    BY <2>2, ChoiceFacts
  <2>4. ids \in [Records(o) -> SUBSET Ids]
    BY <2>3, ObjectPath, ReferencesAssumption DEF Ids
  <2>5. store[o] = [live |-> TRUE, deleting |-> FALSE, phase |-> "Created", id |-> 1,
                    edited |-> FALSE, refs |-> FirstRefs[o], ids |-> ids]
    BY <2>1 DEF SettledObject, NewObject
  <2>6. ASSUME NEW i \in DOMAIN Controller[KindOf[o]].path
        PROVE  LET f == Controller[KindOf[o]].path[i]
               IN  f \in Records(o) /\ \E y \in Ids : ids[f] = {y}
    <3> DEFINE f == Controller[KindOf[o]].path[i]
    <3>1. f \in Records(o)
      BY ObjectPath
    <3>2. PICK p \in Objects : FirstRefs[o][f] = {p}
      BY <2>2, OneOnPath, Zenon
    <3>3. ids[f] = {<<p, 1>>}
      BY <3>1, <3>2
    <3>4. <<p, 1>> \in Ids
      BY ReferencesAssumption DEF Ids
    <3> QED
      BY <3>1, <3>3, <3>4
  <2> HIDE DEF ids
  <2>7. at \in Seq(Ids)
    <3>1. store[o].ids = ids
      BY <2>5
    <3>2. At(KindOf[o], ids) \in Seq(Ids)
      BY <2>6, AtType
    <3> QED
      BY <3>1, <3>2 DEF AddressOf
  <2> HIDE DEF at
  <2>8. /\ remote[o] \in Seq(Resource) /\ Len(remote[o]) = 1
        /\ remote[o][1] = [at |-> at, live |-> TRUE, denied |-> FALSE]
    BY <2>1, <2>7 DEF Resource
  <2>9. store[o] \in Object(o)
    BY <2>3, <2>4, <2>5, ReferencesAssumption DEF Object, Phases
  <2>10. Version(o, store[o])
    BY <2>2, <2>5, <2>8, <2>9 DEF Version
  <2>11. Placed(o)
    <3>1. store[o].live /\ store[o].id = 1 /\ store[o].ids = ids
      BY <2>5
    <3>2. remote[o][1].at = at
      BY <2>8
    <3> QED
      BY <2>6, <3>1, <3>2 DEF Placed, at
  <2> QED
    BY <2>5, <2>8, <2>10, <2>11
<1>4. ASSUME NEW o \in Objects, o \notin settled
      PROVE  /\ Version(o, store[o]) /\ Placed(o) /\ store[o].id = 0
             /\ remote[o] \in Seq(Resource) /\ Len(remote[o]) = 0
  <2>1. store[o] = NewObject(o, FirstRefs[o]) /\ remote[o] = << >>
    BY <1>1, <1>4
  <2>2. FirstRefs[o] \in Choices[o]
    BY ReferencesAssumption
  <2>3. FirstRefs[o] \in [Resolves(o) -> SUBSET Objects]
    BY <2>2, ChoiceFacts
  <2>4. NewObject(o, FirstRefs[o]) \in Object(o)
    BY <2>3, ReferencesAssumption DEF NewObject, Object, Phases
  <2>5. store[o].id = 0 /\ store[o].refs = FirstRefs[o] /\ store[o].phase = ""
    <3>1. \A r : /\ NewObject(o, r).id = 0 /\ NewObject(o, r).refs = r
                /\ NewObject(o, r).phase = ""
      BY DEF NewObject
    <3> QED
      BY <2>1, <3>1
  <2>6. remote[o] \in Seq(Resource) /\ Len(remote[o]) = 0
    BY <2>1
  <2>7. FirstRefs[o] = store[o].refs /\ store[o] \in Object(o)
    BY <2>1, <2>4, <2>5
  <2>8. Version(o, store[o])
    <3>1. store[o].id <= Len(remote[o])
      <4>1. 0 <= 0
        OBVIOUS
      <4> QED
        BY <2>5, <2>6, <4>1, Zenon
    <3>2. store[o].refs \in Choices[o]
      BY <2>2, <2>7
    <3>3. store[o].phase # "Deleting"
      BY <2>5
    <3> QED
      BY <2>5, <2>7, <3>1, <3>2, <3>3 DEF Version
  <2> QED
    BY <2>5, <2>6, <2>8 DEF Placed
<1>5. RemoteInv
  <2>1. DOMAIN remote = Objects /\ remote = [o \in Objects |-> remote[o]]
    BY <1>1
  <2>2. \A o \in Objects : remote[o] \in Seq(Resource) /\ Len(remote[o]) <= MaxRemote
    <3> SUFFICES ASSUME NEW o \in Objects
                 PROVE  remote[o] \in Seq(Resource) /\ Len(remote[o]) <= MaxRemote
      OBVIOUS
    <3>1. remote[o] \in Seq(Resource) /\ Len(remote[o]) \in {0, 1}
      BY <1>3, <1>4
    <3>2. \A n \in {0, 1} : n <= MaxRemote
      BY ReferencesAssumption
    <3> QED
      BY <3>1, <3>2
  <2> QED
    BY <2>1, <2>2 DEF RemoteInv
<1>6. StoreInv
  BY <1>1, <1>3, <1>4 DEF StoreInv
<1>7. SeenInv
  <2> SUFFICES ASSUME NEW o \in Objects
               PROVE  Version(o, seen[o]) /\ (seen[o].id # 0 => Known(o, seen[o].id))
    BY <1>1, <1>2 DEF SeenInv
  <2> QED
    <3>1. CASE o \in settled
      <4>1. Version(o, store[o]) /\ store[o].id = 1 /\ Len(remote[o]) = 1
        BY <1>3, <3>1
      <4>2. Known(o, 1)
        BY <4>1 DEF Known
      <4> QED
        BY <1>2, <4>1, <4>2
    <3>2. CASE o \notin settled
      <4>1. Version(o, store[o]) /\ store[o].id = 0
        BY <1>4, <3>2
      <4> QED
        BY <1>2, <4>1
    <3> QED
      BY <3>1, <3>2
<1>8. HeldInv
  BY <1>2 DEF HeldInv, Prepared
<1>9. doings \in 0..MaxDoings
  BY <1>2, ReferencesAssumption
<1> QED
  BY <1>5, <1>6, <1>7, <1>8, <1>9 DEF IInv

-----------------------------------------------------------------------------
(* The theorems. *)

\* The strengthened invariant holds in every behaviour.
THEOREM Invariant == Spec => []IInv
<1>1. Init => IInv
  BY InitKeeps
<1>2. IInv /\ [Next]_vars => IInv'
  BY NextKeeps
<1> QED
  BY <1>1, <1>2, PTL DEF Spec

\* Objects, caches, workers and resources keep their types (TypeOK).
THEOREM TypeCorrect == Spec => []TypeOK
<1>1. IInv => TypeOK
  BY DEF IInv, RemoteInv, StoreInv, SeenInv, HeldInv, Version, TypeOK
<1> QED
  BY <1>1, Invariant, PTL

\* The identifiers in a status name the recorded resource where it was created, so
\* every call an object makes in its life reaches the same resource.
THEOREM AddressNames == Spec => []AddressNamesItsResource
<1>1. ASSUME IInv
      PROVE  AddressNamesItsResource
  <2> SUFFICES ASSUME NEW o \in Objects, store[o].id # 0
               PROVE  /\ store[o].id \in DOMAIN remote[o]
                      /\ \A i \in DOMAIN Controller[KindOf[o]].path :
                           LET f == Controller[KindOf[o]].path[i]
                           IN  f \in Records(o) /\ store[o].ids[f] # {}
                      /\ remote[o][store[o].id].at = AddressOf(o, store[o])
    BY DEF AddressNamesItsResource
  <2>1. Version(o, store[o]) /\ Placed(o)
    BY <1>1 DEF IInv, StoreInv
  <2>2. store[o].id \in 0..MaxRemote /\ store[o].id <= Len(remote[o])
    BY <2>1 DEF Version, Object
  <2>3. Len(remote[o]) \in Nat /\ DOMAIN remote[o] = 1..Len(remote[o])
    BY <1>1 DEF IInv, RemoteInv
  <2>4. \A a \in 0..MaxRemote : \A b \in Nat : a # 0 /\ a <= b => a \in 1..b
    BY ReferencesAssumption
  <2>5. store[o].id \in DOMAIN remote[o]
    BY <2>2, <2>3, <2>4, Zenon
  <2> QED
    BY <2>1, <2>5 DEF Placed
<1> QED
  BY <1>1, Invariant, PTL



-----------------------------------------------------------------------------
(* What a step does to the record of one object. *)

Quiet(o) == store'[o].live = store[o].live /\ store'[o].id = store[o].id

\* Another phase changes neither the life nor the record of any object.
LEMMA PhaseWriteQuiet ==
    ASSUME IInv, NEW q \in Objects, NEW v, Version(q, v), NEW p,
           Writes(q, v, InPhase(v, p)), NEW o \in Objects
    PROVE  Quiet(o)
<1>1. DOMAIN store = Objects
  BY DEF IInv, StoreInv
<1>2. InPhase(v, p).live = v.live /\ InPhase(v, p).id = v.id
  BY DEF InPhase, Version, Object
<1> QED
  BY <1>1, <1>2 DEF Writes, Quiet

\* Only four actions can touch the record or the life of an object.
LEMMA QuietSteps ==
    ASSUME IInv, NEW q \in Objects, NEW o \in Objects,
           \/ Initialize(q) \/ Resolve(q) \/ CreateFails(q) \/ Provision(q) \/ NoticeEdit(q)
           \/ Update(q) \/ StartDeletion(q) \/ DeleteFails(q) \/ TimeOut(q)
           \/ UserEdit(q) \/ Deliver(q)
    PROVE  Quiet(o)
<1>1. Version(q, seen[q]) /\ DOMAIN store = Objects /\ Version(q, store[q])
  BY DEF IInv, SeenInv, StoreInv
<1>2. ASSUME NEW p, WritesPhase(q, p)
      PROVE  Quiet(o)
  BY <1>1, <1>2, PhaseWriteQuiet DEF WritesPhase
<1>3. CASE CreateFails(q)
  <2>1. Version(q, held[q].copy)
    BY <1>3 DEF IInv, HeldInv, Prepared, CreateFails
  <2> QED
    BY <1>3, <2>1, PhaseWriteQuiet DEF CreateFails
<1>4. CASE Resolve(q) \/ Deliver(q)
  BY <1>4 DEF Resolve, Deliver, Quiet
<1>5. CASE UserEdit(q)
  <2>1. PICK refs : store' = [store EXCEPT ![q] = [store[q] EXCEPT !.refs = refs, !.edited = TRUE]]
    BY <1>1, <1>5 DEF UserEdit
  <2>2. \A r : LET w == [store[q] EXCEPT !.refs = r, !.edited = TRUE]
               IN  w.live = store[q].live /\ w.id = store[q].id
    BY <1>1 DEF Version, Object
  <2> QED
    BY <1>1, <2>1, <2>2 DEF Quiet
<1>6. CASE \/ Initialize(q) \/ Provision(q) \/ NoticeEdit(q) \/ Update(q)
           \/ StartDeletion(q) \/ DeleteFails(q) \/ TimeOut(q)
  BY <1>2, <1>6 DEF Initialize, Provision, NoticeEdit, Update, StartDeletion, DeleteFails, TimeOut
<1> QED
  BY <1>3, <1>4, <1>5, <1>6

\* A creation keeps the object alive; what it records was made below the resources its
\* references have on record, or below one whose deletion was denied.
LEMMA CreationQuiet ==
    ASSUME IInv, NEW q \in Objects, CreateSucceeds(q), NEW o \in Objects
    PROVE  /\ store'[o].live = store[o].live
           /\ store[o].id = 0 /\ store'[o].id # 0 =>
                \A i \in DOMAIN Controller[KindOf[o]].path :
                  LET f == Controller[KindOf[o]].path[i]
                  IN  \/ store'[o].ids[f] = {<<p, store[p].id>> : p \in store[o].refs[f]}
                      \/ Outlived(store'[o].ids[f])
<1> DEFINE v   == held[q].copy
           got == held[q].got
           at  == At(KindOf[q], got)
<1>1. PICK ph \in {"Provisioning", "Created"} :
        Writes(q, v, InPhase(Recorded(q, v, got), ph))
  BY DEF CreateSucceeds
<1>2. held[q] # NoPass /\ Exists(at, remote)
  BY DEF CreateSucceeds
<1>3. /\ Version(q, v) /\ v.live
      /\ \A f \in Resolves(q) :
           /\ \A x \in got[f] : Known(x[1], x[2])
           /\ \A p \in Objects : v.refs[f] = {p} => \E m \in 1..MaxRemote : got[f] = {<<p, m>>}
  BY <1>2 DEF IInv, HeldInv, Prepared
<1> DEFINE u == InPhase(Recorded(q, v, got), ph)
<1>4. u.live = v.live /\ u.ids = [f \in Records(q) |-> got[f]]
  <2> DEFINE r == Recorded(q, v, got)
  <2>1. v \in Object(q)
    BY <1>3 DEF Version
  <2> HIDE DEF v, got
  <2>2. r.live = v.live /\ r.ids = [f \in Records(q) |-> got[f]] /\ DOMAIN r = DOMAIN v
    BY <2>1 DEF Recorded, Object
  <2>3. {"live", "ids"} \subseteq DOMAIN v
    BY <2>1 DEF Object
  <2> HIDE DEF r
  <2>4. InPhase(r, ph).live = r.live /\ InPhase(r, ph).ids = r.ids
    BY <2>2, <2>3 DEF InPhase
  <2> QED
    BY <2>2, <2>4 DEF r
<1> HIDE DEF u
<1>5. DOMAIN store = Objects
  BY DEF IInv, StoreInv
<1>6. store' = store \/ (v = store[q] /\ store' = [store EXCEPT ![q] = u])
  BY <1>1 DEF Writes, u
<1>7. CASE store'[o] = store[o]
  BY <1>7
<1>8. CASE o = q /\ v = store[o] /\ store'[o] = u
  <2>1. store'[o].live = store[o].live
    BY <1>4, <1>8
  <2>2. ASSUME NEW i \in DOMAIN Controller[KindOf[o]].path
        PROVE  LET f == Controller[KindOf[o]].path[i]
               IN  \/ store'[o].ids[f] = {<<p, store[p].id>> : p \in store[o].refs[f]}
                   \/ Outlived(store'[o].ids[f])
    <3> DEFINE f == Controller[KindOf[o]].path[i]
    <3>1. f \in Resolves(o) /\ f \in Records(o)
      BY ObjectPath
    <3>2. v.refs \in Choices[o]
      BY <1>3, <1>8 DEF Version
    <3>3. PICK p \in Objects : v.refs[f] = {p}
      <4>1. \A r \in Choices[o] : \A j \in DOMAIN Controller[KindOf[o]].path :
              \E p \in Objects : r[Controller[KindOf[o]].path[j]] = {p}
        BY OneOnPath, Zenon
      <4>2. i \in DOMAIN Controller[KindOf[o]].path
        OBVIOUS
      <4> QED
        BY <3>2, <4>1, <4>2, Zenon
    <3>4. PICK m \in 1..MaxRemote : got[f] = {<<p, m>>}
      BY <1>3, <1>8, <3>1, <3>3
    <3>5. at[i] = <<p, m>> /\ i \in DOMAIN at
      <4>1. at[i] = The(got[f]) /\ i \in DOMAIN at
        BY <1>8 DEF At
      <4> QED
        BY <3>4, <4>1, TheOne
    <3>6. remote[p][m].live
      <4>1. \A k \in DOMAIN at : remote[at[k][1]][at[k][2]].live
        BY <1>2, Zenon DEF Exists
      <4>2. at[i][1] = p /\ at[i][2] = m
        BY <3>5
      <4>3. remote[at[i][1]][at[i][2]].live
        BY <3>5, <4>1, Zenon
      <4> QED
        BY <4>2, <4>3, Zenon
    <3>7. Known(p, m)
      <4>1. \A x \in got[f] : Known(x[1], x[2])
        BY <1>3, <1>8, <3>1
      <4>2. <<p, m>> \in got[f] /\ <<p, m>>[1] = p /\ <<p, m>>[2] = m
        BY <3>4
      <4> QED
        BY <4>1, <4>2, Zenon
    <3>8. store[p].id = m \/ remote[p][m].denied
      BY <3>6, <3>7 DEF Known
    <3>9. store'[o].ids[f] = {<<p, m>>}
      BY <1>4, <1>8, <3>1, <3>4
    <3>10. store[o].refs[f] = {p}
      BY <1>8, <3>3
    <3>11. {<<r, store[r].id>> : r \in {p}} = {<<p, store[p].id>>}
      OBVIOUS
    <3>12. CASE store[p].id = m
      BY <3>9, <3>10, <3>11, <3>12
    <3>13. CASE remote[p][m].denied
      BY <3>9, <3>13 DEF Outlived
    <3> QED
      BY <3>8, <3>12, <3>13
  <2> QED
    BY <2>1, <2>2
<1> QED
  BY <1>5, <1>6, <1>7, <1>8

\* A deletion leaves every record as it is, a user's deletion too; a new object has none.
LEMMA RecordsKept ==
    ASSUME IInv, NEW q \in Objects, NEW o \in Objects,
           Delete(q) \/ UserDelete(q) \/ UserCreate(q)
    PROVE  store'[o].id \in {store[o].id, 0}
<1>1. Version(q, seen[q]) /\ DOMAIN store = Objects /\ Version(q, store[q])
  BY DEF IInv, SeenInv, StoreInv
<1>2. CASE Delete(q)
  <2>1. [seen[q] EXCEPT !.live = FALSE].id = seen[q].id
    BY <1>1 DEF Version, Object
  <2> QED
    BY <1>1, <1>2, <2>1 DEF Delete, Writes
<1>3. CASE UserDelete(q)
  <2>1. PICK live : store' = [store EXCEPT ![q] = [store[q] EXCEPT !.deleting = TRUE, !.live = live]]
    BY <1>1, <1>3 DEF UserDelete
  <2>2. \A l : [store[q] EXCEPT !.deleting = TRUE, !.live = l].id = store[q].id
    BY <1>1 DEF Version, Object
  <2> QED
    BY <1>1, <2>1, <2>2
<1>4. CASE UserCreate(q)
  <2>1. PICK refs : store' = [store EXCEPT ![q] = NewObject(q, refs)]
    BY <1>4 DEF UserCreate
  <2>2. \A r : NewObject(q, r).id = 0
    BY DEF NewObject
  <2> QED
    BY <1>1, <2>1, <2>2
<1> QED
  BY <1>2, <1>3, <1>4

-----------------------------------------------------------------------------

\* An object that goes has had its recorded resource deleted, or denied, by a DELETE that
\* reached it, whatever became of the objects it refers to (RemovalReachesRecordedResource).
THEOREM Removal == Spec => RemovalReachesRecordedResource
<1>1. ASSUME IInv, [Next]_vars, NEW o \in Objects,
             store[o].live, ~store'[o].live, store[o].id # 0
      PROVE  ~Owed(remote'[o][store[o].id])
  <2>1. Next
    BY <1>1 DEF vars
  <2>2. PICK q \in Objects :
          Reconcile(q) \/ UserEdit(q) \/ UserDelete(q) \/ UserCreate(q) \/ Deliver(q)
    BY <2>1 DEF Next
  <2>3. ~Quiet(o)
    BY <1>1 DEF Quiet
  <2>4. Delete(q) \/ UserDelete(q) \/ UserCreate(q)
    BY <1>1, <2>2, <2>3, QuietSteps, CreationQuiet DEF Reconcile
  <2>5. q = o
    <3>1. \A p \in Objects \ {q} : store'[p] = store[p]
      BY <1>1, <2>4 DEF Delete, Writes, UserDelete, UserCreate, IInv, StoreInv
    <3> QED
      BY <1>1, <3>1
  <2>6. CASE Delete(o)
    BY <1>1, <2>6, DeleteStep
  <2>7. CASE UserDelete(o)
    BY <1>1, <2>7, UserDeleteStep
  <2>8. CASE UserCreate(o)
    BY <1>1, <2>8 DEF UserCreate
  <2> QED
    BY <2>4, <2>5, <2>6, <2>7, <2>8
<1>2. IInv /\ [Next]_vars =>
        [ \A o \in Objects :
            store[o].live /\ ~store'[o].live /\ store[o].id # 0
                => LET r == remote'[o][store[o].id] IN ~r.live \/ r.denied ]_vars
  BY <1>1
<1> QED
  BY <1>2, Invariant, PTL DEF Spec, RemovalReachesRecordedResource

\* A resource is recorded below the resources that the references of its spec have on
\* record at that moment, or below one that outlived its object because its deletion was
\* denied (ChildOfCurrentParents).
THEOREM CurrentParents == Spec => ChildOfCurrentParents
<1>1. ASSUME IInv, [Next]_vars, NEW o \in Objects, store[o].id = 0, store'[o].id # 0
      PROVE  \A i \in DOMAIN Controller[KindOf[o]].path :
               LET f == Controller[KindOf[o]].path[i]
               IN  \/ store'[o].ids[f] = {<<p, store[p].id>> : p \in store[o].refs[f]}
                   \/ Outlived(store'[o].ids[f])
  <2>1. Next
    BY <1>1 DEF vars
  <2>2. PICK q \in Objects :
          Reconcile(q) \/ UserEdit(q) \/ UserDelete(q) \/ UserCreate(q) \/ Deliver(q)
    BY <2>1 DEF Next
  <2>3. ~Quiet(o) /\ store'[o].id \notin {store[o].id, 0}
    BY <1>1 DEF Quiet
  <2>4. CreateSucceeds(q)
    BY <1>1, <2>2, <2>3, QuietSteps, RecordsKept DEF Reconcile
  <2> QED
    BY <1>1, <2>4, CreationQuiet
<1>2. IInv /\ [Next]_vars =>
        [ \A o \in Objects :
            store[o].id = 0 /\ store'[o].id # 0 =>
                \A i \in DOMAIN Controller[KindOf[o]].path :
                  LET f == Controller[KindOf[o]].path[i]
                  IN  \/ store'[o].ids[f] = {<<p, store[p].id>> : p \in store[o].refs[f]}
                      \/ Outlived(store'[o].ids[f]) ]_vars
  BY <1>1
<1> QED
  BY <1>2, Invariant, PTL DEF Spec, ChildOfCurrentParents

-----------------------------------------------------------------------------
(* The stages of one object. *)

Stage(o) == C(o)!ContractNext \/ UNCHANGED C(o)!contractVars

\* A handler that writes another phase to an object it has read alive.
LEMMA PhaseStage ==
    ASSUME IInv, NEW o \in Objects, NEW v, Version(o, v), v.live,
           NEW p, Writes(o, v, InPhase(v, p)),
           \/ v.phase = "" /\ p = "Creating"
           \/ v.phase = "Provisioning" /\ p = "Created"
           \/ v.phase = "Created" /\ p = "Updating"
           \/ v.phase = "Updating" /\ p = "Created"
           \/ v.phase \in Transitioning /\ p = "Failed"
           \/ Leaves(v) /\ p = "Deleting"
    PROVE  Stage(o)
<1>1. DOMAIN store = Objects
  BY DEF IInv, StoreInv
<1>2. CASE store' = store
  BY <1>2 DEF Stage, C!contractVars
<1>3. CASE v = store[o] /\ store' = [store EXCEPT ![o] = InPhase(v, p)]
  <2>1. /\ InPhase(v, p).live = v.live /\ InPhase(v, p).deleting = v.deleting
        /\ InPhase(v, p).phase = p /\ InPhase(v, p).id = v.id
    BY DEF InPhase, Version, Object
  <2>2. /\ store'[o].live = store[o].live /\ store'[o].deleting = store[o].deleting
        /\ store'[o].phase = p /\ store'[o].id = store[o].id
        /\ store[o].live /\ store[o].phase = v.phase
    BY <1>1, <1>3, <2>1
  <2>3. CASE v.phase = "" /\ p = "Creating"
    BY <2>2, <2>3 DEF Stage, C!ContractNext, C!Begin
  <2>4. CASE \/ v.phase = "Provisioning" /\ p = "Created"
             \/ v.phase = "Created" /\ p = "Updating"
             \/ v.phase = "Updating" /\ p = "Created"
    BY <2>2, <2>4 DEF Stage, C!ContractNext, C!Advance
  <2>5. CASE v.phase \in Transitioning /\ p = "Failed"
    BY <2>2, <2>5 DEF Transitioning, Stage, C!ContractNext, C!Fail
  <2>6. CASE Leaves(v) /\ p = "Deleting"
    BY <1>3, <2>2, <2>6 DEF Leaves, Stage, C!ContractNext, C!BeginDeletion
  <2> QED
    BY <2>3, <2>4, <2>5, <2>6
<1> QED
  BY <1>2, <1>3 DEF Writes

\* A creation that succeeds is RecordRemote, or is not written.
LEMMA CreateSucceedsStage ==
    ASSUME IInv, NEW o \in Objects, CreateSucceeds(o)
    PROVE  Stage(o)
<1> DEFINE v   == held[o].copy
           got == held[o].got
           n   == Len(remote[o]) + 1
<1>1. PICK p \in {"Provisioning", "Created"} :
        Writes(o, v, InPhase(Recorded(o, v, got), p))
  BY DEF CreateSucceeds
<1>2. Version(o, v) /\ v.live /\ v.phase = "Creating" /\ v.id = 0
  BY DEF CreateSucceeds, IInv, HeldInv, Prepared, Version
<1>3. DOMAIN store = Objects /\ n \in Nat \ {0}
  BY DEF IInv, StoreInv, RemoteInv
<1> DEFINE u == InPhase(Recorded(o, v, got), p)
<1>4. u.live = v.live /\ u.deleting = v.deleting /\ u.phase = p /\ u.id = n
  <2> DEFINE r == Recorded(o, v, got)
  <2>1. v \in Object(o)
    BY <1>2 DEF Version
  <2>2. {"live", "deleting", "phase", "id"} \subseteq DOMAIN v
    BY <2>1 DEF Object
  <2> HIDE DEF v, got, n
  <2>3. r.live = v.live /\ r.deleting = v.deleting /\ r.id = n /\ DOMAIN r = DOMAIN v
    BY <2>2 DEF Recorded, n
  <2> HIDE DEF r
  <2>4. /\ InPhase(r, p).live = r.live /\ InPhase(r, p).deleting = r.deleting
        /\ InPhase(r, p).phase = p /\ InPhase(r, p).id = r.id
    BY <2>2, <2>3 DEF InPhase
  <2> QED
    BY <2>3, <2>4 DEF r
<1> HIDE DEF u
<1>5. CASE store' = store
  BY <1>5 DEF Stage, C!contractVars
<1>6. CASE v = store[o] /\ store' = [store EXCEPT ![o] = u]
  <2>1. /\ store'[o].live = store[o].live /\ store'[o].deleting = store[o].deleting
        /\ store'[o].phase = p /\ store'[o].id = n
        /\ store[o].live /\ store[o].phase = "Creating" /\ store[o].id = 0
    BY <1>2, <1>3, <1>4, <1>6
  <2> HIDE DEF n
  <2> QED
    BY <1>3, <2>1 DEF Stage, C!ContractNext, C!RecordRemote
<1> QED
  BY <1>1, <1>5, <1>6 DEF Writes, u

\* A deletion that succeeds is Vanish, or is not written.
LEMMA DeleteStage ==
    ASSUME IInv, NEW o \in Objects, Delete(o)
    PROVE  Stage(o)
<1> DEFINE v == seen[o]
           w == [v EXCEPT !.live = FALSE]
<1>1. Writes(o, v, w) /\ v.live /\ v.phase = "Deleting"
  BY DEF Delete, Handling
<1>2. Version(o, v) /\ DOMAIN store = Objects
  BY DEF IInv, SeenInv, StoreInv
<1>3. w.live = FALSE /\ w.deleting = v.deleting /\ w.phase = v.phase /\ w.id = v.id
  BY <1>2 DEF Version, Object
<1>4. v.deleting
  BY <1>1, <1>2 DEF Version
<1> HIDE DEF w
<1>5. CASE store' = store
  BY <1>5 DEF Stage, C!contractVars
<1>6. CASE v = store[o] /\ store' = [store EXCEPT ![o] = w]
  <2>1. /\ store'[o].live = FALSE /\ store'[o].deleting = store[o].deleting
        /\ store'[o].phase = store[o].phase /\ store'[o].id = store[o].id
        /\ store[o].live /\ store[o].phase = "Deleting" /\ store[o].deleting
    BY <1>1, <1>2, <1>3, <1>4, <1>6
  <2> QED
    BY <2>1 DEF Stage, C!ContractNext, C!Vanish
<1> QED
  BY <1>1, <1>5, <1>6 DEF Writes

\* What users do to an existing object is RequestDeletion, or is not seen in its stage.
LEMMA UserStage ==
    ASSUME IInv, NEW o \in Objects, UserEdit(o) \/ UserDelete(o)
    PROVE  Stage(o)
<1>1. Version(o, store[o]) /\ DOMAIN store = Objects
  BY DEF IInv, StoreInv
<1>2. CASE UserEdit(o)
  <2>1. PICK refs : store' = [store EXCEPT ![o] = [store[o] EXCEPT !.refs = refs, !.edited = TRUE]]
    BY <1>1, <1>2 DEF UserEdit
  <2>2. \A r : LET w == [store[o] EXCEPT !.refs = r, !.edited = TRUE]
               IN  /\ w.live = store[o].live /\ w.deleting = store[o].deleting
                   /\ w.phase = store[o].phase /\ w.id = store[o].id
    BY <1>1 DEF Version, Object
  <2> QED
    BY <1>1, <2>1, <2>2 DEF Stage, C!contractVars
<1>3. CASE UserDelete(o)
  <2>1. PICK live \in {TRUE, store[o].phase # ""} :
          store' = [store EXCEPT ![o] = [store[o] EXCEPT !.deleting = TRUE, !.live = live]]
    BY <1>1, <1>3 DEF UserDelete
  <2>2. \A l : LET w == [store[o] EXCEPT !.deleting = TRUE, !.live = l]
               IN  /\ w.live = l /\ w.deleting = TRUE
                   /\ w.phase = store[o].phase /\ w.id = store[o].id
    BY <1>1 DEF Version, Object
  <2>3. /\ store'[o].live = live /\ store'[o].deleting = TRUE
        /\ store'[o].phase = store[o].phase /\ store'[o].id = store[o].id
    BY <1>1, <2>1, <2>2
  <2>4. store[o].live /\ ~store[o].deleting
    BY <1>3 DEF UserDelete
  <2>5. live \in BOOLEAN /\ (live = FALSE => store[o].phase = "")
    OBVIOUS
  <2> QED
    BY <2>3, <2>4, <2>5 DEF Stage, C!ContractNext, C!RequestDeletion
<1> QED
  BY <1>2, <1>3

\* Every step of the worker is a step of the contract.
LEMMA ReconcileStage ==
    ASSUME IInv, NEW o \in Objects, Reconcile(o)
    PROVE  Stage(o)
<1>1. Version(o, seen[o])
  BY DEF IInv, SeenInv
<1>2. CASE Initialize(o)
  BY <1>1, <1>2, PhaseStage DEF Initialize, Handling, WritesPhase
<1>3. CASE Resolve(o)
  BY <1>3 DEF Resolve, Stage, C!contractVars
<1>4. CASE CreateFails(o)
  <2>1. /\ Version(o, held[o].copy) /\ held[o].copy.live
        /\ held[o].copy.phase \in Transitioning
    BY <1>4 DEF CreateFails, IInv, HeldInv, Prepared, Transitioning
  <2> QED
    BY <1>4, <2>1, PhaseStage DEF CreateFails
<1>5. CASE Provision(o)
  BY <1>1, <1>5, PhaseStage DEF Provision, Handling, WritesPhase, Transitioning
<1>6. CASE NoticeEdit(o)
  BY <1>1, <1>6, PhaseStage DEF NoticeEdit, Handling, WritesPhase
<1>7. CASE Update(o)
  BY <1>1, <1>7, PhaseStage DEF Update, Handling, WritesPhase, Transitioning
<1>8. CASE StartDeletion(o)
  BY <1>1, <1>8, PhaseStage DEF StartDeletion, WritesPhase
<1>9. CASE DeleteFails(o)
  BY <1>1, <1>9, PhaseStage DEF DeleteFails, Handling, WritesPhase, Transitioning
<1>10. CASE TimeOut(o)
  BY <1>1, <1>10, PhaseStage DEF TimeOut, WritesPhase
<1> QED
  BY <1>2, <1>3, <1>4, <1>5, <1>6, <1>7, <1>8, <1>9, <1>10, CreateSucceedsStage, DeleteStage
     DEF Reconcile

\* A step is about one object.
LEMMA OthersStage ==
    ASSUME IInv, NEW q \in Objects, NEW o \in Objects, o # q,
           Reconcile(q) \/ UserEdit(q) \/ UserDelete(q) \/ UserCreate(q) \/ Deliver(q)
    PROVE  Stage(o)
<1>1. DOMAIN store = Objects
  BY DEF IInv, StoreInv
<1>2. store' = store \/ \E w : store' = [store EXCEPT ![q] = w]
  <2>1. ASSUME NEW v, NEW w, Writes(q, v, w)
        PROVE  store' = store \/ \E u : store' = [store EXCEPT ![q] = u]
    BY <2>1 DEF Writes
  <2>2. ASSUME UserEdit(q) \/ UserDelete(q) \/ UserCreate(q)
        PROVE  \E u : store' = [store EXCEPT ![q] = u]
    BY <1>1, <2>2 DEF UserEdit, UserDelete, UserCreate
  <2> QED
    BY <2>1, <2>2 DEF Reconcile, Initialize, Resolve, CreateSucceeds, CreateFails, Provision,
       NoticeEdit, Update, StartDeletion, Delete, DeleteFails, TimeOut, WritesPhase, Deliver
<1>3. store'[o] = store[o]
  BY <1>1, <1>2
<1> QED
  BY <1>3 DEF Stage, C!contractVars

\* Each object, from its creation to its removal, goes through the stages of
\* ResourceContract, whatever happens to the objects it refers to (FollowsContract).
THEOREM Contracts == Spec => FollowsContract
<1>1. ASSUME IInv, [Next]_vars, NEW o \in Objects
      PROVE  \/ UNCHANGED C(o)!contractVars
             \/ C(o)!ContractNext
             \/ ~store[o].live /\ store'[o].phase = "" /\ store'[o].id = 0
  <2>1. CASE UNCHANGED vars
    BY <2>1 DEF vars, C!contractVars
  <2>2. CASE Next
    <3>1. PICK q \in Objects :
            Reconcile(q) \/ UserEdit(q) \/ UserDelete(q) \/ UserCreate(q) \/ Deliver(q)
      BY <2>2 DEF Next
    <3>2. CASE q # o
      BY <1>1, <3>1, <3>2, OthersStage DEF Stage
    <3>3. CASE q = o /\ (Reconcile(o) \/ UserEdit(o) \/ UserDelete(o))
      BY <1>1, <3>3, ReconcileStage, UserStage DEF Stage
    <3>4. CASE q = o /\ Deliver(o)
      BY <3>4 DEF Deliver, C!contractVars
    <3>5. CASE q = o /\ UserCreate(o)
      <4>1. PICK refs : store' = [store EXCEPT ![o] = NewObject(o, refs)]
        BY <3>5 DEF UserCreate
      <4>2. \A r : NewObject(o, r).phase = "" /\ NewObject(o, r).id = 0
        BY DEF NewObject
      <4>3. DOMAIN store = Objects /\ ~store[o].live
        BY <1>1, <3>5 DEF IInv, StoreInv, UserCreate
      <4> QED
        BY <4>1, <4>2, <4>3
    <3> QED
      BY <3>1, <3>2, <3>3, <3>4, <3>5
  <2> QED
    BY <1>1, <2>1, <2>2
<1>2. IInv /\ [Next]_vars =>
        [ \A o \in Objects :
            \/ UNCHANGED C(o)!contractVars
            \/ C(o)!ContractNext
            \/ ~store[o].live /\ store'[o].phase = "" /\ store'[o].id = 0 ]_vars
  BY <1>1
<1> QED
  BY <1>2, Invariant, PTL DEF Spec, FollowsContract

-----------------------------------------------------------------------------
(* Who may kill a resource. *)

\* A cache that shows a request for deletion, and a resource on record that is owed, shows
\* the object that is stored: the request is still there.
RequestSeen ==
    \A o \in Objects :
        seen[o].deleting /\ seen[o].id # 0 /\ Owed(remote[o][seen[o].id])
            => store[o].deleting

\* Every step adds resources, ends their lives or denies their deletion, and does
\* nothing else to them.
LEMMA RemoteStep ==
    ASSUME IInv, [Next]_vars
    PROVE  RemoteGrows
<1>1. RemoteInv
  BY DEF IInv
<1>2. \A p \in Objects : remote[p] \in Seq(Resource) /\ Len(remote[p]) \in Nat
  BY <1>1 DEF RemoteInv
<1>3. CASE remote' = remote
  BY <1>3, SameRemote
<1>4. ASSUME NEW o \in Objects, CreateSucceeds(o)
      PROVE  RemoteGrows
  <2>1. PICK x : remote' = [remote EXCEPT ![o] = Append(remote[o], x)]
    BY <1>1, <1>4 DEF CreateSucceeds, RemoteInv
  <2>2. /\ Len(remote'[o]) = Len(remote[o]) + 1
        /\ \A m \in 1..Len(remote[o]) : remote'[o][m] = remote[o][m]
        /\ \A p \in Objects \ {o} : remote'[p] = remote[p]
    BY <1>1, <1>2, <2>1 DEF RemoteInv
  <2>3. \A p \in Objects : Len(remote[p]) <= Len(remote'[p])
    BY <1>2, <2>2
  <2> QED
    BY <2>2, <2>3 DEF RemoteGrows
<1>5. ASSUME NEW o \in Objects, remote' = Without(o, seen[o].id)
      PROVE  RemoteGrows
  BY <1>1, <1>2, <1>5, WithoutFacts DEF RemoteGrows
<1>6. ASSUME NEW o \in Objects, Found(o, seen[o]), remote' = Denied(o, seen[o].id)
      PROVE  RemoteGrows
  <2>1. seen[o].id \in 1..Len(remote[o])
    BY <1>6 DEF Found, IInv, SeenInv, Known
  <2> QED
    BY <1>1, <1>2, <1>6, <2>1, DeniedFacts DEF RemoteGrows
<1>7. \/ remote' = remote
      \/ \E o \in Objects :
           \/ CreateSucceeds(o)
           \/ remote' = Without(o, seen[o].id)
           \/ Found(o, seen[o]) /\ remote' = Denied(o, seen[o].id)
  BY DEF Next, Reconcile, Initialize, Resolve, CreateFails, Provision, NoticeEdit, Update,
         StartDeletion, Delete, DeleteFails, TimeOut, UserEdit, UserDelete, UserCreate,
         Deliver, vars
<1> QED
  BY <1>3, <1>4, <1>5, <1>6, <1>7

\* A request for deletion is never taken back; it goes with its object.
LEMMA RequestStays ==
    ASSUME IInv, [Next]_vars, NEW o \in Objects, store[o].deleting
    PROVE  store'[o].deleting \/ store'[o].id = 0
<1>1. /\ DOMAIN store = Objects
      /\ \A q \in Objects : Version(q, store[q]) /\ Version(q, seen[q])
  BY DEF IInv, StoreInv, SeenInv
<1>2. CASE store'[o] = store[o]
  BY <1>2
<1>3. ASSUME NEW q \in Objects, NEW v, Version(q, v), NEW w, w.deleting = v.deleting,
             Writes(q, v, w)
      PROVE  store'[o].deleting
  BY <1>1, <1>3 DEF Writes
<1>4. ASSUME NEW q \in Objects, NEW v, Version(q, v), NEW p, Writes(q, v, InPhase(v, p))
      PROVE  store'[o].deleting
  <2>1. InPhase(v, p).deleting = v.deleting
    BY <1>4 DEF InPhase, Version, Object
  <2> QED
    BY <1>3, <1>4, <2>1
<1>5. ASSUME NEW q \in Objects,
             \/ Initialize(q) \/ Provision(q) \/ NoticeEdit(q) \/ Update(q)
             \/ StartDeletion(q) \/ DeleteFails(q) \/ TimeOut(q)
      PROVE  store'[o].deleting
  <2>1. \E p : Writes(q, seen[q], InPhase(seen[q], p))
    BY <1>5
       DEF Initialize, Provision, NoticeEdit, Update, StartDeletion, DeleteFails, TimeOut,
           WritesPhase
  <2> QED
    BY <1>1, <1>4, <2>1
<1>6. ASSUME NEW q \in Objects, CreateFails(q) \/ CreateSucceeds(q)
      PROVE  store'[o].deleting
  <2> DEFINE v == held[q].copy
             r == Recorded(q, v, held[q].got)
  <2>1. Version(q, v)
    BY <1>6 DEF CreateFails, CreateSucceeds, IInv, HeldInv, Prepared
  <2>2. CASE CreateFails(q)
    BY <1>4, <2>1, <2>2 DEF CreateFails
  <2>3. CASE CreateSucceeds(q)
    <3>1. PICK p : Writes(q, v, InPhase(r, p))
      BY <2>3 DEF CreateSucceeds
    <3>2. r.deleting = v.deleting /\ "deleting" \in DOMAIN r
      BY <2>1 DEF Recorded, Version, Object
    <3> HIDE DEF v, r
    <3>3. InPhase(r, p).deleting = v.deleting
      BY <3>2 DEF InPhase
    <3> QED
      BY <1>3, <2>1, <3>1, <3>3
  <2> QED
    BY <1>6, <2>2, <2>3
<1>7. ASSUME NEW q \in Objects, Delete(q)
      PROVE  store'[o].deleting
  <2>1. [seen[q] EXCEPT !.live = FALSE].deleting = seen[q].deleting
    BY <1>1 DEF Version, Object
  <2> QED
    BY <1>1, <1>3, <1>7, <2>1 DEF Delete
<1>8. ASSUME NEW q \in Objects, UserEdit(q) \/ UserDelete(q)
      PROVE  store'[o].deleting
  <2>1. \A refs, live :
          /\ [store[q] EXCEPT !.refs = refs, !.edited = TRUE].deleting = store[q].deleting
          /\ [store[q] EXCEPT !.deleting = TRUE, !.live = live].deleting
    BY <1>1 DEF Version, Object
  <2>2. \/ \E refs : store' = [store EXCEPT ![q] = [store[q] EXCEPT !.refs = refs, !.edited = TRUE]]
        \/ \E live : store' = [store EXCEPT ![q] = [store[q] EXCEPT !.deleting = TRUE, !.live = live]]
    BY <1>1, <1>8 DEF UserEdit, UserDelete
  <2> QED
    BY <1>1, <2>1, <2>2
<1>9. ASSUME NEW q \in Objects, UserCreate(q)
      PROVE  store'[o].deleting \/ store'[o].id = 0
  <2>1. PICK refs : store' = [store EXCEPT ![q] = NewObject(q, refs)]
    BY <1>9 DEF UserCreate
  <2>2. \A r : NewObject(q, r).id = 0
    BY DEF NewObject
  <2> QED
    BY <1>1, <2>1, <2>2
<1>10. ASSUME NEW q \in Objects, Resolve(q) \/ Deliver(q)
       PROVE  store'[o] = store[o]
  BY <1>10 DEF Resolve, Deliver
<1>11. CASE UNCHANGED vars
  BY <1>11 DEF vars
<1> QED
  BY <1>2, <1>5, <1>6, <1>7, <1>8, <1>9, <1>10, <1>11 DEF Next, Reconcile

\* Every step keeps RequestSeen.
LEMMA RequestSeenStep ==
    ASSUME IInv, IInv', RequestSeen, [Next]_vars
    PROVE  RequestSeen'
<1> SUFFICES ASSUME NEW o \in Objects, seen'[o].deleting, seen'[o].id # 0,
                    Owed(remote'[o][seen'[o].id])
             PROVE  store'[o].deleting
  BY DEF RequestSeen
<1>1. CASE seen'[o] = seen[o]
  <2>1. Known(o, seen[o].id)
    BY <1>1 DEF IInv, SeenInv
  <2>2. Owed(remote[o][seen[o].id])
    BY <1>1, <2>1, RemoteStep DEF RemoteGrows, Known
  <2>3. store[o].deleting
    BY <1>1, <2>2 DEF RequestSeen
  <2>4. store'[o].id = seen'[o].id
    BY DEF IInv, SeenInv, Known
  <2> QED
    BY <2>3, <2>4, RequestStays
<1>2. CASE seen'[o] # seen[o]
  <2>1. PICK q \in Objects : Deliver(q)
    BY <1>2
       DEF Next, Reconcile, Initialize, Resolve, CreateSucceeds, CreateFails, Provision,
           NoticeEdit, Update, StartDeletion, Delete, DeleteFails, TimeOut, UserEdit,
           UserDelete, UserCreate, vars
  <2>2. seen'[o] = store[o] /\ store' = store
    BY <1>2, <2>1 DEF Deliver, IInv, SeenInv
  <2> QED
    BY <2>2
<1> QED
  BY <1>1, <1>2

\* A resource that dies was deleted for an object that is to be deleted and has it, or
\* one that it lies below, on record, or whose deletion of it was denied before.
LEMMA DeathStep ==
    ASSUME IInv, RequestSeen, [Next]_vars, NEW p \in Objects, NEW n \in DOMAIN remote[p],
           remote[p][n].live, ~remote'[p][n].live
    PROVE  \E o \in Objects : \E m \in DOMAIN remote[o] :
             /\ Requested(o, m)
             /\ <<p, n>> = <<o, m>> \/ Below(o, m, remote[p][n])
<1>1. RemoteInv
  BY DEF IInv
<1>2. \A q \in Objects : remote[q] \in Seq(Resource) /\ DOMAIN remote[q] = 1..Len(remote[q])
  BY <1>1 DEF RemoteInv
<1>3. PICK o \in Objects :
        \/ CreateSucceeds(o)
        \/ Found(o, seen[o]) /\ remote' = Denied(o, seen[o].id)
        \/ Delete(o) /\ Found(o, seen[o]) /\ remote' = Without(o, seen[o].id)
  <2>1. remote' # remote
    OBVIOUS
  <2> QED
    BY <2>1
       DEF Next, Reconcile, Initialize, Resolve, CreateFails, Provision, NoticeEdit, Update,
           StartDeletion, Delete, DeleteFails, TimeOut, UserEdit, UserDelete, UserCreate,
           Deliver, vars
<1>4. CASE CreateSucceeds(o)
  <2>1. PICK x : remote' = [remote EXCEPT ![o] = Append(remote[o], x)]
    BY <1>1, <1>4 DEF CreateSucceeds, RemoteInv
  <2>2. remote'[p][n] = remote[p][n]
    BY <1>1, <1>2, <2>1 DEF RemoteInv
  <2> QED
    BY <2>2
<1>5. CASE Found(o, seen[o]) /\ remote' = Denied(o, seen[o].id)
  <2>1. seen[o].id \in 1..Len(remote[o])
    BY <1>5 DEF Found, IInv, SeenInv, Known
  <2>2. remote'[p][n].live = remote[p][n].live
    BY <1>1, <1>2, <1>5, <2>1, DeniedFacts
  <2> QED
    BY <2>2
<1>6. CASE Delete(o) /\ Found(o, seen[o]) /\ remote' = Without(o, seen[o].id)
  <2> DEFINE k == seen[o].id
  <2>1. k # 0 /\ remote[o][k].live
    BY <1>6 DEF Found
  <2>2. Known(o, k) /\ k \in DOMAIN remote[o]
    BY <1>2, <2>1 DEF IInv, SeenInv, Known
  <2>3. Requested(o, k)
    <3>1. CASE remote[o][k].denied
      BY <3>1 DEF Requested
    <3>2. CASE ~remote[o][k].denied
      <4>1. store[o].id = k
        BY <2>1, <2>2, <3>2 DEF Known
      <4>2. store[o].deleting
        <5>1. seen[o].deleting
          BY <1>6 DEF Delete, Handling, IInv, SeenInv, Version
        <5> QED
          BY <2>1, <3>2, <5>1 DEF RequestSeen
      <4>3. store[o].live
        BY <2>1, <3>2, <4>1 DEF IInv, StoreInv, Placed
      <4> QED
        BY <4>1, <4>2, <4>3 DEF Requested
    <3> QED
      BY <3>1, <3>2
  <2>4. <<p, n>> = <<o, k>> \/ Below(o, k, remote[p][n])
    BY <1>2, <1>6 DEF Without
  <2> QED
    BY <2>2, <2>3, <2>4
<1> QED
  BY <1>3, <1>4, <1>5, <1>6

\* No resource dies but by the deletion of the object that has it, or one that it lies
\* below, on record at that very moment, or that had its deletion denied before: a copy
\* of an object that has been replaced under its name kills nothing else
\* (DeathsAreRequested).
THEOREM Deaths == Spec => DeathsAreRequested
<1>1. Init => RequestSeen
  BY DEF Init, RequestSeen
<1>2. IInv /\ IInv' /\ RequestSeen /\ [Next]_vars => RequestSeen'
  BY RequestSeenStep
<1>3. Spec => []RequestSeen
  BY <1>1, <1>2, Invariant, PTL DEF Spec
<1>4. IInv /\ RequestSeen /\ [Next]_vars =>
        [ remote' # remote =>
            \A p \in Objects : \A n \in DOMAIN remote[p] :
              remote[p][n].live /\ ~remote'[p][n].live =>
                \E o \in Objects : \E m \in DOMAIN remote[o] :
                   /\ Requested(o, m)
                   /\ <<p, n>> = <<o, m>> \/ Below(o, m, remote[p][n]) ]_vars
  BY DeathStep
<1> QED
  BY <1>3, <1>4, Invariant, PTL DEF Spec, DeathsAreRequested
=============================================================================
