-------------------------- MODULE CloudServer_proofs ------------------------
(***************************************************************************)
(* TypeOK and StatusTellsServer hold in every behaviour of CloudServer,    *)
(* what is recorded is of the stored spec, and the phases keep to the      *)
(* stages of ResourceContract.                                             *)
(***************************************************************************)
EXTENDS CloudServer, TLAPS

\* A copy differs from the one that was read only in the parts that were touched, and
\* there it says what the server is like.
Agrees(read, copy, touched, r) ==
    /\ \A v \in Volumes :
         /\ v \in touched => (v \in copy.attached <=> v \in r.volumes)
         /\ v \notin touched => (v \in copy.attached <=> v \in read.attached)
    /\ "props" \in touched => copy.nets = r.props
    /\ "props" \notin touched => copy.nets = read.nets

WorkInv ==
    ~Idle => /\ work.touched \subseteq unsure
             /\ Agrees(work.read, work.copy, work.touched, remote)
             /\ work.at = "volumes" => work.touched = AllProps

IInv == TypeOK /\ WorkInv /\ StatusTellsServer

\* The status write of a pass.
WritePass(read, copy, touched, phase) ==
    [at |-> "write", read |-> read, copy |-> Entering(copy, phase), touched |-> touched]

\* A pass that has only its status write left.
LEMMA GoToInv ==
    ASSUME NEW read \in Object, NEW copy \in Object, NEW touched \in SUBSET Parts,
           NEW phase \in {"Created", "Updating", "Failed"},
           GoTo(read, copy, touched, phase),
           touched \subseteq unsure', Agrees(read, copy, touched, remote')
    PROVE  work' \in Pass /\ WorkInv'
<1>1. Entering(copy, phase) \in Object
  BY DEF Entering, Object
<1>2. Entering(copy, phase).attached = copy.attached /\ Entering(copy, phase).nets = copy.nets
  BY DEF Entering, Object
<1>3. work' = WritePass(read, copy, touched, phase)
  BY DEF GoTo, WritePass
<1>4. WritePass(read, copy, touched, phase) \in Pass
  BY <1>1 DEF WritePass, Pass
<1>5. /\ work'.touched = touched /\ work'.read = read /\ work'.at = "write"
      /\ work'.copy = Entering(copy, phase)
  BY <1>3 DEF WritePass
<1>6. Agrees(read, Entering(copy, phase), touched, remote')
  BY <1>2 DEF Agrees
<1> QED
  BY <1>3, <1>4, <1>5, <1>6 DEF WorkInv

\* One that is given up, or goes to its status write.
LEMMA RetryInv ==
    ASSUME NEW read \in Object, NEW copy \in Object, NEW touched \in SUBSET Parts,
           Retry(read, copy, touched),
           touched \subseteq unsure', Agrees(read, copy, touched, remote')
    PROVE  work' \in Pass \cup {NoPass} /\ WorkInv'
<1>1. CASE work' = NoPass
  BY <1>1 DEF WorkInv, Idle
<1>2. CASE GoTo(read, copy, touched, read.phase)
  <2>1. read.phase \in {"Created", "Updating", "Failed"}
    BY DEF Object
  <2> QED
    BY <1>2, <2>1, GoToInv
<1> QED
  BY <1>1, <1>2 DEF Retry

\* A failed pass retries, or goes to its status write as Failed.
LEMMA FailInv ==
    ASSUME NEW read \in Object, NEW copy \in Object, NEW touched \in SUBSET Parts,
           Fail(read, copy, touched),
           touched \subseteq unsure', Agrees(read, copy, touched, remote')
    PROVE  work' \in Pass \cup {NoPass} /\ WorkInv'
  BY RetryInv, GoToInv DEF Fail

\* What was read agrees with itself, whatever the server.
LEMMA AgreesWithItself ==
    ASSUME NEW read, NEW r
    PROVE  Agrees(read, read, {}, r)
  BY DEF Agrees

\* The second half of Updating, after a first half that touched at most the
\* properties.
LEMMA ManageVolumesInv ==
    ASSUME IInv, NEW read \in Object, NEW copy \in Object, NEW touched \in SUBSET AllProps,
           touched \subseteq unsure, Agrees(read, copy, touched, remote),
           ManageVolumes(read, copy, touched), UNCHANGED <<server, seen, named>>
    PROVE  IInv'
<1> DEFINE toAttach == copy.want \ copy.attached
           toDetach == copy.attached \ copy.want
           moved == toAttach \cup toDetach
<1>1. Changes(copy) = [toAttach |-> toAttach, toDetach |-> toDetach]
  BY DEF Changes, CalculateVolumeChanges
<1>2. /\ copy.want \subseteq Volumes /\ copy.attached \subseteq Volumes
      /\ moved \subseteq Volumes /\ touched \subseteq Parts /\ Parts = Volumes \cup AllProps
      /\ remote \in Server /\ unsure \subseteq Parts /\ faults \in 0..MaxFaults
  BY DEF Object, Parts, IInv, TypeOK
<1>3. Attached(Changes(copy)) =
        [remote EXCEPT !.volumes = (remote.volumes \cup toAttach) \ toDetach]
  BY <1>1 DEF Attached
<1>4. /\ [remote EXCEPT !.volumes = (remote.volumes \cup toAttach) \ toDetach] \in Server
      /\ [remote EXCEPT !.volumes = (remote.volumes \cup toAttach) \ toDetach].volumes =
           (remote.volumes \cup toAttach) \ toDetach
      /\ [remote EXCEPT !.volumes = (remote.volumes \cup toAttach) \ toDetach].props = remote.props
  BY <1>2 DEF Server
<1>5. faults' \in 0..MaxFaults
  BY <1>2, CloudServerAssumption DEF ManageVolumes, Fault, NoFault
<1>6. ASSUME NEW r, r.volumes = (remote.volumes \cup toAttach) \ toDetach, r.props = remote.props
      PROVE  /\ Agrees(read, copy, touched, r)
             /\ \A v \in Volumes \ (unsure \cup moved) : v \in server.attached <=> v \in r.volumes
             /\ "props" \notin unsure \cup moved => server.nets = r.props
  BY <1>2, <1>6, CloudServerAssumption DEF Agrees, IInv, StatusTellsServer, AllProps
<1>7. CASE UNCHANGED <<remote, unsure>>
  <2>1. work' \in Pass \cup {NoPass} /\ WorkInv'
    <3>1. touched \in SUBSET Parts /\ touched \subseteq unsure' /\ Agrees(read, copy, touched, remote')
      BY <1>2, <1>7
    <3>2. CASE Retry(read, copy, touched)
      BY <3>1, <3>2, RetryInv
    <3>3. CASE GoTo(read, copy, touched, "Created")
      BY <3>1, <3>3, GoToInv
    <3>4. CASE Fail(read, copy, touched)
      BY <3>1, <3>4, FailInv
    <3>5. CASE /\ moved # {}
               /\ remote' = Attached(Changes(copy))
               /\ GoTo(read, Recorded(copy), touched \cup moved, "Created")
               /\ unsure' = unsure \cup moved
      <4>1. Recorded(copy) \in Object /\ Recorded(copy).attached = copy.want
            /\ Recorded(copy).nets = copy.nets
        BY DEF Recorded, Object
      <4>2. Agrees(read, Recorded(copy), touched \cup moved, remote')
        BY <1>2, <1>3, <1>4, <3>5, <4>1, CloudServerAssumption DEF Agrees, AllProps
      <4> QED
        BY <1>2, <3>5, <4>1, <4>2, GoToInv
    <3> QED
      BY <1>1, <3>2, <3>3, <3>4, <3>5 DEF ManageVolumes
  <2> QED
    BY <1>5, <1>7, <2>1 DEF IInv, TypeOK, StatusTellsServer
<1>8. CASE remote' = Attached(Changes(copy)) /\ unsure' = unsure \cup moved
  <2>1. /\ remote' \in Server /\ remote'.volumes = (remote.volumes \cup toAttach) \ toDetach
        /\ remote'.props = remote.props
    BY <1>3, <1>4, <1>8
  <2>2. StatusTellsServer'
    BY <1>6, <1>8, <2>1 DEF StatusTellsServer
  <2>3. CASE Retry(read, copy, touched)
    <3>1. Agrees(read, copy, touched, remote')
      BY <1>6, <2>1
    <3>2. work' \in Pass \cup {NoPass} /\ WorkInv'
      BY <1>2, <1>8, <2>3, <3>1, RetryInv
    <3> QED
      BY <1>2, <1>5, <1>8, <2>1, <2>2, <3>2 DEF IInv, TypeOK
  <2>4. CASE GoTo(read, Recorded(copy), touched \cup moved, "Created")
    <3>1. /\ Recorded(copy) \in Object /\ Recorded(copy).attached = copy.want
          /\ Recorded(copy).nets = copy.nets
      BY DEF Recorded, Object
    <3>2. Agrees(read, Recorded(copy), touched \cup moved, remote')
      BY <1>2, <2>1, <3>1, CloudServerAssumption DEF Agrees, AllProps
    <3>3. work' \in Pass /\ WorkInv'
      BY <1>2, <1>8, <2>4, <3>1, <3>2, GoToInv
    <3> QED
      BY <1>2, <1>5, <1>8, <2>1, <2>2, <3>3 DEF IInv, TypeOK
  <2>5. CASE UNCHANGED <<remote, unsure>>
    BY <1>7, <2>5
  <2> QED
    BY <1>1, <2>3, <2>4, <2>5 DEF ManageVolumes
<1> QED
  BY <1>1, <1>7, <1>8 DEF ManageVolumes

\* A server just created agrees with its status.
LEMMA InitIInv == Init => IInv
<1> SUFFICES ASSUME Init PROVE IInv
  OBVIOUS
<1>1. PICK want \in SUBSET Volumes, props \in Props :
         /\ server = [phase |-> "Created", gen |-> 1, obs |-> 1, want |-> want,
                      props |-> props, attached |-> {}, nets |-> props,
                      address |-> props \in Addressed]
         /\ remote = [volumes |-> {}, props |-> props]
  BY DEF Init
<1>2. (props \in Addressed) \in BOOLEAN /\ 1 \in 1..MaxGen
  BY CloudServerAssumption
<1>3. server \in Object
  BY <1>1, <1>2 DEF Object
<1>4. remote \in Server
  BY <1>1 DEF Server
<1>5. work \in Pass \cup {NoPass} /\ unsure \subseteq Parts /\ faults \in 0..MaxFaults
      /\ named \subseteq Volumes /\ seen \in Object
  BY <1>3, CloudServerAssumption DEF Init
<1>6. StatusTellsServer
  BY <1>1 DEF StatusTellsServer
<1> QED
  BY <1>3, <1>4, <1>5, <1>6 DEF Init, IInv, TypeOK, WorkInv, Idle

\* A bounded number of faults stays bounded.
LEMMA FaultsBounded ==
    ASSUME TypeOK, Fault \/ NoFault
    PROVE  faults' \in 0..MaxFaults
  BY CloudServerAssumption DEF Fault, NoFault, TypeOK

\* What the world around the worker does, and what leaves the server alone.
LEMMA WorldInv ==
    ASSUME IInv, UNCHANGED <<work, remote, unsure>>, Fault \/ NoFault,
           server' \in Object, server'.attached = server.attached, server'.nets = server.nets,
           seen' \in Object, named' \subseteq Volumes
    PROVE  IInv'
<1>1. TypeOK'
  BY FaultsBounded DEF IInv, TypeOK
<1>2. WorkInv' /\ StatusTellsServer'
  BY DEF IInv, WorkInv, Idle, StatusTellsServer
<1> QED
  BY <1>1, <1>2 DEF IInv

\* A pass that ends, or goes to its status write, without a call.
LEMMA NoCallInv ==
    ASSUME IInv, Retry(seen, seen, {}) \/ Fail(seen, seen, {})
                 \/ \E phase \in {"Updating", "Failed"} : GoTo(seen, seen, {}, phase),
           UNCHANGED <<server, seen, remote, named, unsure>>, Fault \/ NoFault
    PROVE  IInv'
<1>1. seen \in Object /\ {} \in SUBSET Parts /\ {} \subseteq unsure' /\ Agrees(seen, seen, {}, remote')
  BY AgreesWithItself DEF IInv, TypeOK
<1>2. work' \in Pass \cup {NoPass} /\ WorkInv'
  BY <1>1, RetryInv, FailInv, GoToInv
<1>3. TypeOK'
  BY <1>2, FaultsBounded DEF IInv, TypeOK
<1> QED
  BY <1>2, <1>3 DEF IInv, StatusTellsServer

\* Every step of the worker and of the world preserves the invariant.
LEMMA NextIInv == IInv /\ [Next]_vars => IInv'
<1> SUFFICES ASSUME IInv, [Next]_vars PROVE IInv'
  OBVIOUS
<1> USE DEF AllProps
<1>1. CASE Created
  BY <1>1, NoCallInv DEF Created
<1>2. CASE UpdateProperties
  <2>1. seen \in Object /\ remote \in Server /\ unsure \subseteq Parts
    BY DEF IInv, TypeOK
  <2>2. CASE Fail(seen, seen, {}) /\ NoFault /\ UNCHANGED <<remote, unsure>>
    BY <1>2, <2>2, NoCallInv DEF UpdateProperties
  <2>3. CASE remote' = [remote EXCEPT !.props = seen.props] /\ unsure' = unsure \cup AllProps
    <3>1. remote' \in Server /\ remote'.volumes = remote.volumes /\ remote'.props = seen.props
      BY <2>1, <2>3 DEF Server, Object
    <3>2. unsure' \subseteq Parts
      BY <2>1, <2>3 DEF Parts
    <3>3. StatusTellsServer'
      BY <1>2, <2>3, <3>1 DEF UpdateProperties, IInv, StatusTellsServer
    <3>4. CASE Retry(seen, seen, {})
      <4>1. work' \in Pass \cup {NoPass} /\ WorkInv'
        BY <2>1, <3>4, RetryInv, AgreesWithItself
      <4> QED
        BY <1>2, <3>1, <3>2, <3>3, <4>1, FaultsBounded DEF UpdateProperties, IInv, TypeOK
    <3>5. CASE work' = [at |-> "volumes", read |-> seen, copy |-> WithProperties(seen),
                        touched |-> AllProps]
      <4>1. /\ WithProperties(seen) \in Object
            /\ WithProperties(seen).attached = seen.attached
            /\ WithProperties(seen).nets = seen.props
        BY <2>1 DEF WithProperties, Object
      <4>2. work' \in Pass
        BY <2>1, <3>5, <4>1 DEF Pass, Parts
      <4>3. Agrees(seen, WithProperties(seen), AllProps, remote')
        BY <2>1, <3>1, <4>1, CloudServerAssumption DEF Agrees
      <4>4. WorkInv'
        BY <2>3, <3>5, <4>3 DEF WorkInv
      <4> QED
        BY <1>2, <3>1, <3>2, <3>3, <4>2, <4>4, FaultsBounded DEF UpdateProperties, IInv, TypeOK
    <3>6. CASE Fail(seen, seen, {}) /\ NoFault /\ UNCHANGED <<remote, unsure>>
      BY <2>2, <3>6
    <3> QED
      BY <1>2, <3>4, <3>5, <3>6 DEF UpdateProperties
  <2> QED
    BY <1>2, <2>2, <2>3 DEF UpdateProperties
<1>3. CASE UpdateVolumes
  <2>1. CASE ManageVolumes(seen, seen, {})
    BY <1>3, <2>1, ManageVolumesInv, AgreesWithItself DEF UpdateVolumes, IInv, TypeOK
  <2>2. CASE work.at = "volumes" /\ ManageVolumes(work.read, work.copy, work.touched)
    <3>1. ~Idle
      BY <2>2 DEF Idle, NoPass
    <3>2. work \in Pass /\ work.touched = AllProps /\ work.touched \subseteq unsure
          /\ Agrees(work.read, work.copy, work.touched, remote)
      BY <2>2, <3>1 DEF IInv, WorkInv, TypeOK, Idle
    <3> QED
      BY <1>3, <2>2, <3>2, ManageVolumesInv DEF UpdateVolumes, Pass
  <2> QED
    BY <1>3, <2>1, <2>2 DEF UpdateVolumes
<1>4. CASE StatusUpdate
  <2>1. work' = NoPass /\ WorkInv'
    BY <1>4 DEF StatusUpdate, WorkInv, Idle
  <2>2. CASE UNCHANGED <<server, unsure>>
    BY <1>4, <2>1, <2>2, FaultsBounded DEF StatusUpdate, IInv, TypeOK, StatusTellsServer
  <2>3. CASE work.read = server /\ server' = work.copy /\ unsure' = unsure \ work.touched
    <3>1. ~Idle
      BY <1>4 DEF StatusUpdate, Idle, NoPass
    <3>2. work \in Pass /\ Agrees(server, server', work.touched, remote)
      BY <2>3, <3>1 DEF IInv, WorkInv, TypeOK, Idle
    <3>3. StatusTellsServer'
      BY <1>4, <2>3, <3>2 DEF StatusUpdate, IInv, StatusTellsServer, Agrees
    <3>4. TypeOK'
      BY <1>4, <2>1, <2>3, <3>2, FaultsBounded DEF StatusUpdate, IInv, TypeOK, Pass
    <3> QED
      BY <2>1, <3>3, <3>4 DEF IInv
  <2> QED
    BY <1>4, <2>2, <2>3 DEF StatusUpdate
<1>5. CASE TimeOut
  BY <1>5, NoCallInv DEF TimeOut
<1>6. CASE UserEdit
  <2>1. PICK want \in SUBSET Volumes, props \in Props :
          server' = [server EXCEPT !.gen = @ + 1, !.want = want, !.props = props]
    BY <1>6 DEF UserEdit
  <2>2. server \in Object /\ server.gen < MaxGen /\ MaxGen \in Nat
    BY <1>6, CloudServerAssumption DEF UserEdit, IInv, TypeOK
  <2>3. server.gen + 1 \in 1..MaxGen
    BY <2>2 DEF Object
  <2>4. /\ server' \in Object /\ server'.attached = server.attached
        /\ server'.nets = server.nets
    BY <2>1, <2>2, <2>3 DEF Object
  <2> QED
    BY <1>6, <2>4, WorldInv DEF UserEdit, IInv, TypeOK
<1>7. CASE Deliver
  BY <1>7, WorldInv DEF Deliver, IInv, TypeOK
<1>8. CASE \E v \in Volumes : VolumeCreated(v)
  BY <1>8, WorldInv DEF VolumeCreated, IInv, TypeOK
<1>9. CASE UNCHANGED vars
  BY <1>9, WorldInv DEF vars, NoFault, IInv, TypeOK
<1> QED
  BY <1>1, <1>2, <1>3, <1>4, <1>5, <1>6, <1>7, <1>8, <1>9 DEF Next, Worker

\* The variables keep their types.
THEOREM TypeCorrect == Spec => []TypeOK
<1>1. IInv => TypeOK
  BY DEF IInv
<1> QED
  BY InitIInv, NextIInv, <1>1, PTL DEF Spec

\* For any volumes and properties and any number of edits and faults, the status differs
\* from the server only in what a call has changed and no stored status has recorded.
THEOREM StatusIsTrue == Spec => []StatusTellsServer
<1>1. IInv => StatusTellsServer
  BY DEF IInv
<1> QED
  BY InitIInv, NextIInv, <1>1, PTL DEF Spec

-----------------------------------------------------------------------------
(* What a pass leads to. *)

\* A copy lists the subnets and groups that were read, or those of its own spec.
NetsKept(read, copy) == copy.nets = read.nets \/ copy.nets = copy.props

\* The phases that a pass leads from and to.
Moves(from, to) ==
    \/ from = to
    \/ <<from, to>> \in { <<"Created", "Updating">>, <<"Updating", "Created">>,
                          <<"Updating", "Failed">> }

\* What a status that waits to be written makes of the object that was read.
Leads(read, copy) ==
    /\ Moves(read.phase, copy.phase)
    /\ read.phase = "Updating" /\ copy.phase = "Created" => copy.attached = copy.want
    /\ NetsKept(read, copy)

PassInv ==
    /\ work.at = "volumes" => work.read.phase = "Updating" /\ NetsKept(work.read, work.copy)
    /\ work.at = "write" => Leads(work.read, work.copy)

\* A pass that goes to its status write ...
LEMMA GoToLeads ==
    ASSUME NEW read \in Object, NEW copy \in Object, NEW touched, NEW phase,
           GoTo(read, copy, touched, phase), NetsKept(read, copy),
           Moves(read.phase, phase),
           read.phase = "Updating" /\ phase = "Created" => copy.attached = copy.want
    PROVE  PassInv'
<1> DEFINE new == Entering(copy, phase)
<1>1. /\ new.phase = phase /\ new.attached = copy.attached /\ new.want = copy.want
      /\ new.nets = copy.nets /\ new.props = copy.props
  BY DEF Entering, Object
<1>2. work' = [at |-> "write", read |-> read, copy |-> new, touched |-> touched]
  BY DEF GoTo
<1> HIDE DEF new
<1>3. work'.at = "write" /\ work'.read = read /\ work'.copy = new
  BY <1>2
<1>4. Leads(read, new)
  BY <1>1 DEF Leads, NetsKept
<1> QED
  BY <1>3, <1>4 DEF PassInv

\* ... is given up or tried again ...
LEMMA RetryLeads ==
    ASSUME NEW read \in Object, NEW copy \in Object, NEW touched,
           Retry(read, copy, touched), NetsKept(read, copy)
    PROVE  PassInv'
<1>1. CASE work' = NoPass
  BY <1>1 DEF PassInv, NoPass
<1>2. CASE GoTo(read, copy, touched, read.phase)
  BY <1>2, GoToLeads DEF Moves
<1> QED
  BY <1>1, <1>2 DEF Retry

\* ... or fails.
LEMMA FailLeads ==
    ASSUME NEW read \in Object, NEW copy \in Object, NEW touched,
           Fail(read, copy, touched), NetsKept(read, copy), read.phase = "Updating"
    PROVE  PassInv'
<1>1. CASE Retry(read, copy, touched)
  BY <1>1, RetryLeads
<1>2. CASE GoTo(read, copy, touched, "Failed")
  BY <1>2, GoToLeads DEF Moves
<1> QED
  BY <1>1, <1>2 DEF Fail

\* The second half of Updating ends with the volumes of the copy's spec on record.
LEMMA ManageVolumesLeads ==
    ASSUME NEW read \in Object, NEW copy \in Object, NEW touched,
           ManageVolumes(read, copy, touched), NetsKept(read, copy), read.phase = "Updating"
    PROVE  PassInv'
<1>1. Changes(copy) = [toAttach |-> copy.want \ copy.attached,
                       toDetach |-> copy.attached \ copy.want]
  BY DEF Changes, CalculateVolumeChanges
<1>2. (copy.want \ copy.attached) \cup (copy.attached \ copy.want) = {}
        => copy.attached = copy.want
  BY DEF Object
<1>3. CASE Retry(read, copy, touched) \/ Fail(read, copy, touched)
  BY <1>3, RetryLeads, FailLeads
<1>4. CASE /\ (copy.want \ copy.attached) \cup (copy.attached \ copy.want) = {}
           /\ GoTo(read, copy, touched, "Created")
  BY <1>2, <1>4, GoToLeads DEF Moves
<1>5. CASE \E t : GoTo(read, Recorded(copy), t, "Created")
  <2>1. /\ Recorded(copy) \in Object
        /\ Recorded(copy).attached = Recorded(copy).want
        /\ Recorded(copy).nets = copy.nets /\ Recorded(copy).props = copy.props
    BY DEF Recorded, Object
  <2> QED
    BY <1>5, <2>1, GoToLeads DEF Moves, NetsKept
<1> QED
  BY <1>1, <1>3, <1>4, <1>5 DEF ManageVolumes

\* Every step keeps PassInv.
LEMMA PassStep ==
    ASSUME TypeOK, PassInv, [Next]_vars
    PROVE  PassInv'
<1>1. /\ seen \in Object /\ NetsKept(seen, seen)
      /\ work # NoPass => work.read \in Object /\ work.copy \in Object
  BY DEF TypeOK, NetsKept, Pass
<1>2. CASE UNCHANGED work
  BY <1>2 DEF PassInv
<1>3. CASE Created
  <2>1. Retry(seen, seen, {}) \/ GoTo(seen, seen, {}, "Updating")
    BY <1>3 DEF Created
  <2>2. seen.phase = "Created"
    BY <1>3 DEF Created
  <2> QED
    BY <1>1, <2>1, <2>2, RetryLeads, GoToLeads DEF Moves
<1>4. CASE UpdateProperties
  <2>1. seen.phase = "Updating"
    BY <1>4 DEF UpdateProperties
  <2>2. CASE Retry(seen, seen, {}) \/ Fail(seen, seen, {})
    BY <1>1, <2>1, <2>2, RetryLeads, FailLeads
  <2>3. CASE work' = [at |-> "volumes", read |-> seen, copy |-> WithProperties(seen),
                      touched |-> AllProps]
    <3>1. WithProperties(seen).nets = WithProperties(seen).props
      BY <1>1 DEF WithProperties, Object
    <3>2. work'.at = "volumes" /\ work'.read = seen /\ work'.copy = WithProperties(seen)
      BY <2>3
    <3> QED
      BY <2>1, <3>1, <3>2 DEF PassInv, NetsKept
  <2> QED
    BY <1>4, <2>2, <2>3 DEF UpdateProperties
<1>5. CASE UpdateVolumes
  <2>1. CASE seen.phase = "Updating" /\ ManageVolumes(seen, seen, {})
    BY <1>1, <2>1, ManageVolumesLeads
  <2>2. CASE work.at = "volumes" /\ ManageVolumes(work.read, work.copy, work.touched)
    <3>1. work # NoPass
      BY <2>2 DEF NoPass
    <3> QED
      BY <1>1, <2>2, <3>1, ManageVolumesLeads DEF PassInv
  <2> QED
    BY <1>5, <2>1, <2>2 DEF UpdateVolumes
<1>6. CASE StatusUpdate
  BY <1>6 DEF StatusUpdate, PassInv, NoPass
<1>7. CASE TimeOut
  BY <1>1, <1>7, GoToLeads DEF TimeOut, Moves
<1> QED
  BY <1>2, <1>3, <1>4, <1>5, <1>6, <1>7
     DEF Next, Worker, UserEdit, Deliver, VolumeCreated, vars

\* The status of the stored object changes only as a pass leads it.
LEMMA StatusStep ==
    ASSUME TypeOK, PassInv, [Next]_vars
    PROVE  Leads(server, server')
<1>1. CASE server' = server
  BY <1>1 DEF Leads, Moves, NetsKept
<1>2. CASE UserEdit
  <2>1. PICK want, props :
          server' = [server EXCEPT !.gen = server.gen + 1, !.want = want, !.props = props]
    BY <1>2 DEF UserEdit
  <2>2. server'.phase = server.phase /\ server'.nets = server.nets
    BY <2>1 DEF TypeOK, Object
  <2> QED
    BY <2>2 DEF Leads, Moves, NetsKept
<1>3. CASE work.at = "write" /\ work.read = server /\ server' = work.copy
  BY <1>3 DEF PassInv
<1> QED
  BY <1>1, <1>2, <1>3
     DEF Next, Worker, Created, UpdateProperties, UpdateVolumes, StatusUpdate, TimeOut,
         Deliver, VolumeCreated, vars

\* The types and PassInv.
LEMMA PassInvariant == Spec => [](TypeOK /\ PassInv)
<1>1. Init => PassInv
  BY DEF Init, PassInv, NoPass
<1>2. TypeOK /\ PassInv /\ [Next]_vars => PassInv'
  BY PassStep
<1> QED
  BY <1>1, <1>2, TypeCorrect, PTL DEF Spec

\* For any volumes, properties, edits and faults: an update that is reported as done has
\* recorded the volumes of the spec that is stored, and subnets and groups are recorded of
\* no other spec.
THEOREM RecordIsOfStoredSpec == Spec => RecordsWhatIsWanted
<1>1. TypeOK /\ PassInv /\ [Next]_vars
      => [ /\ server.phase = "Updating" /\ server'.phase = "Created"
                => server'.attached = server'.want
           /\ server'.nets # server.nets => server'.nets = server'.props ]_vars
  BY StatusStep DEF Leads, NetsKept
<1> QED
  BY <1>1, PassInvariant, PTL DEF Spec, RecordsWhatIsWanted

\* For any volumes, properties, edits and faults: the cloud server's own handlers keep to
\* the stages of ResourceContract.
THEOREM ServerFollowsContract == Spec => FollowsContract
<1>1. TypeOK /\ PassInv /\ [Next]_vars => [C!ContractNext]_(server.phase)
  <2> SUFFICES ASSUME TypeOK, PassInv, [Next]_vars, server'.phase # server.phase
               PROVE  C!ContractNext
    OBVIOUS
  <2>1. <<server.phase, server'.phase>> \in
          { <<"Created", "Updating">>, <<"Updating", "Created">>, <<"Updating", "Failed">> }
    BY StatusStep DEF Leads, Moves
  <2>2. CASE server'.phase = "Failed"
    <3>1. C!Fail
      BY <2>1, <2>2 DEF C!Fail
    <3> QED
      BY <3>1 DEF C!ContractNext
  <2>3. CASE server'.phase # "Failed"
    <3>1. C!Advance
      BY <2>1, <2>3 DEF C!Advance
    <3> QED
      BY <3>1 DEF C!ContractNext
  <2> QED
    BY <2>2, <2>3
<1> QED
  BY <1>1, PassInvariant, PTL DEF Spec, FollowsContract
=============================================================================
