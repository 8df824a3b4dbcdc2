-------------------------- MODULE VaultClient_proofs ------------------------
(***************************************************************************)
(* TypeOK, RenewedInTime and EarlyCloseIsIgnored hold in every behaviour   *)
(* of VaultClient.                                                         *)
(***************************************************************************)
EXTENDS VaultClient, TLAPS

\* The margin of a running goroutine is LeastBefore at least, and a token whose last
\* renewal succeeded has been waiting for as long as its timer has.
Margins ==
    /\ renewer = "waiting" => before >= LeastBefore
    /\ renewer = "waiting" /\ ~missed /\ ttl > before => life = wait + before
    /\ renewer = "waiting" /\ ~missed /\ ttl <= before => life + 1 = ttl + wait
    /\ renewer = "starting" => life = ttl /\ ~missed

IInv == TypeOK /\ Margins /\ RenewedInTime

\* The timer of a lease is at least one tick and at most the lease.
LEMMA WaitBounds ==
    ASSUME NEW l \in Nat \ {0}, NEW b \in Nat \ {0}
    PROVE  /\ Wait(l, b) \in Nat \ {0} /\ Wait(l, b) <= l
           /\ l > b => Wait(l, b) + b = l
           /\ l <= b => Wait(l, b) = 1
  BY DEF Wait

\* The margin is a number and never less than LeastBefore.
LEMMA RenewBeforeBounds ==
    ASSUME NEW l \in Nat
    PROVE  RenewBefore(l) \in Nat /\ RenewBefore(l) >= LeastBefore
<1>1. l \div 5 \in Nat
  OBVIOUS
<1> QED
  BY <1>1, VaultAssumption DEF RenewBefore

\* A token just granted satisfies everything.
LEMMA GrantedKeepsInv ==
    ASSUME IInv, Granted, renewer = "waiting",
           UNCHANGED <<renewer, ctx, closed, before>>, faults' \in 0..MaxFaults
    PROVE  IInv'
<1>1. PICK l \in Leases : life' = l /\ ttl' = l /\ wait' = Wait(l, before)
  BY DEF Granted
<1>2. l \in Nat \ {0} /\ before \in Nat \ {0}
  BY VaultAssumption DEF IInv, TypeOK, Margins
<1>3. /\ Wait(l, before) \in Nat \ {0} /\ Wait(l, before) <= l
      /\ l > before => Wait(l, before) + before = l
      /\ l <= before => Wait(l, before) = 1
  BY <1>2, WaitBounds
<1>4. TypeOK'
  <2>1. renewable' \in BOOLEAN /\ missed' \in BOOLEAN
    BY DEF Granted
  <2>2. life' \in Nat /\ ttl' \in Leases /\ life' <= ttl' /\ wait' \in Nat /\ wait' <= ttl'
    BY <1>1, <1>2, <1>3
  <2> QED
    BY <2>1, <2>2 DEF IInv, TypeOK
<1>5. Margins'
  BY <1>1, <1>2, <1>3 DEF Granted, IInv, TypeOK, Margins
<1>6. RenewedInTime'
  BY <1>1, <1>2, <1>3 DEF RenewedInTime
<1> QED
  BY <1>4, <1>5, <1>6 DEF IInv

\* So does a client that has to make do with the token it has.
LEMMA NotGrantedKeepsInv ==
    ASSUME IInv, NotGranted, renewer = "waiting",
           UNCHANGED <<renewer, ctx, closed, before>>, faults' \in 0..MaxFaults
    PROVE  IInv'
<1>1. ttl \in Nat \ {0} /\ before \in Nat \ {0}
  BY VaultAssumption DEF IInv, TypeOK, Margins
<1>2. Wait(ttl, before) \in Nat /\ Wait(ttl, before) <= ttl
  BY <1>1, WaitBounds
<1> QED
  BY <1>1, <1>2 DEF NotGranted, IInv, TypeOK, Margins, RenewedInTime

\* A process that has just logged in has its whole lease before it.
LEMMA InitIInv == Init => IInv
<1> SUFFICES ASSUME Init PROVE IInv
  OBVIOUS
<1>1. ttl \in Leases /\ ttl \in Nat \ {0} /\ life = ttl
  BY VaultAssumption DEF Init
<1>2. closed \in BOOLEAN /\ missed \in BOOLEAN /\ renewable \in BOOLEAN
  BY DEF Init
<1>3. faults \in 0..MaxFaults
  BY VaultAssumption DEF Init
<1>4. TypeOK
  BY <1>1, <1>2, <1>3 DEF Init, TypeOK
<1> QED
  BY <1>1, <1>4 DEF Init, IInv, Margins, RenewedInTime

\* Each action keeps the invariant.
LEMMA NextIInv == IInv /\ [Next]_vars => IInv'
<1> SUFFICES ASSUME IInv, [Next]_vars PROVE IInv'
  OBVIOUS
<1>1. CASE Start
  <2>1. ttl \in Nat \ {0}
    BY VaultAssumption DEF IInv, TypeOK
  <2>2. before' \in Nat \ {0} /\ before' >= LeastBefore
    BY <1>1, <2>1, RenewBeforeBounds, VaultAssumption DEF Start
  <2>3. /\ wait' \in Nat \ {0} /\ wait' <= ttl
        /\ ttl > before' => wait' + before' = ttl
        /\ ttl <= before' => wait' = 1
    BY <1>1, <2>1, <2>2, WaitBounds DEF Start
  <2>4. TypeOK'
    BY <1>1, <2>1, <2>2, <2>3 DEF Start, Context, IInv, TypeOK
  <2>5. Margins' /\ RenewedInTime'
    BY <1>1, <2>1, <2>2, <2>3 DEF Start, IInv, TypeOK, Margins, RenewedInTime
  <2> QED
    BY <2>4, <2>5 DEF IInv
<1>2. CASE Close
  BY <1>2 DEF Close, IInv, TypeOK, Margins, RenewedInTime
<1>3. CASE Stop
  BY <1>3 DEF Stop, IInv, TypeOK, Margins, RenewedInTime
<1>4. CASE Renew
  <2>1. faults' \in 0..MaxFaults
    BY <1>4, VaultAssumption DEF Renew, Fault, NoFault, IInv, TypeOK
  <2>2. Granted \/ NotGranted
    BY <1>4 DEF Renew, LogIn
  <2> QED
    BY <1>4, <2>1, <2>2, GrantedKeepsInv, NotGrantedKeepsInv DEF Renew
<1>5. CASE Tick
  <2>1. ttl \in Nat /\ before \in Nat /\ wait \in Nat /\ life \in Nat
    BY VaultAssumption DEF IInv, TypeOK
  <2>2. CASE renewer = "stopped"
    BY <1>5, <2>1, <2>2 DEF Tick, IInv, TypeOK, Margins, RenewedInTime
  <2>3. CASE renewer = "waiting"
    <3>1. wait > 0 /\ wait' = wait - 1
      BY <1>5, <2>3 DEF Tick
    <3>2. ~missed /\ ttl > 1 => wait < life
      BY <2>3 DEF IInv, RenewedInTime
    <3>3. TypeOK'
      BY <1>5, <2>1, <2>3, <3>1 DEF Tick, IInv, TypeOK
    <3>4. ~missed => life > 0
      BY <2>1, <2>3, <3>1, VaultAssumption DEF IInv, TypeOK, Margins
    <3>5. Margins'
      BY <1>5, <2>1, <2>3, <3>1, <3>4 DEF Tick, IInv, Margins
    <3>6. RenewedInTime'
      BY <1>5, <2>1, <2>3, <3>1, <3>2 DEF Tick, RenewedInTime
    <3> QED
      BY <3>3, <3>5, <3>6 DEF IInv
  <2> QED
    BY <1>5, <2>2, <2>3 DEF Tick, IInv, TypeOK
<1>6. CASE UNCHANGED vars
  BY <1>6 DEF vars, IInv, TypeOK, Margins, RenewedInTime
<1> QED
  BY <1>1, <1>2, <1>3, <1>4, <1>5, <1>6 DEF Next

\* The variables keep their types, and a timer never exceeds the lease it was set by.
THEOREM TypeCorrect == Spec => []TypeOK
<1>1. IInv => TypeOK
  BY DEF IInv
<1> QED
  BY InitIInv, NextIInv, <1>1, PTL DEF Spec

\* The token outlives the timer that renews it, for any set of leases and any margin.
THEOREM RenewalInTime == Spec => []RenewedInTime
<1>1. IInv => RenewedInTime
  BY DEF IInv
<1> QED
  BY InitIInv, NextIInv, <1>1, PTL DEF Spec

\* The goroutine has not run since Close, or has taken another context.
Outlives ==
    /\ closed
    /\ \/ renewer = "starting" /\ renewable
       \/ renewer = "waiting" /\ ctx = "background"

\* A goroutine that outlives Close does so in every step.
LEMMA OutlivesStep == Outlives /\ [Next]_vars => Outlives'
<1> SUFFICES ASSUME Outlives, [Next]_vars PROVE Outlives'
  OBVIOUS
<1>1. CASE Start
  BY <1>1 DEF Start, Context, Outlives
<1>2. CASE Close
  BY <1>2 DEF Close, Outlives
<1>3. CASE Stop
  BY <1>3 DEF Stop, Cancelled, Outlives
<1>4. CASE Renew
  BY <1>4 DEF Renew, Outlives
<1>5. CASE Tick
  BY <1>5 DEF Tick, Outlives
<1>6. CASE UNCHANGED vars
  BY <1>6 DEF vars, Outlives
<1> QED
  BY <1>1, <1>2, <1>3, <1>4, <1>5, <1>6 DEF Next

\* A Close that comes before the goroutine of StartAutoRenew runs never ends the renewal:
\* the cancelled context is replaced, and from then on nothing cancels the new one.
THEOREM EarlyClose == Spec => EarlyCloseIsIgnored
<1>1. renewer = "starting" /\ closed /\ renewable => Outlives
  BY DEF Outlives
<1>2. Outlives => renewer # "stopped"
  BY DEF Outlives
<1> QED
  BY <1>1, <1>2, OutlivesStep, PTL DEF Spec, EarlyCloseIsIgnored
=============================================================================
