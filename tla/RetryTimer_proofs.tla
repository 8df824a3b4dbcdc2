-------------------------- MODULE RetryTimer_proofs -------------------------
(***************************************************************************)
(* TypeOK, TimeoutIsNoticed and CallsAreSpaced hold in every behaviour of  *)
(* RetryTimer, for any interval, timeout and delays.                       *)
(***************************************************************************)
EXTENDS RetryTimer, TLAPS

-----------------------------------------------------------------------------
(* Arithmetic of the intervals. *)

\* Division with rest.
LEMMA DivBounds ==
    ASSUME NEW R \in Nat \ {0}, NEW n \in Nat
    PROVE  n \div R \in Nat /\ (n \div R) * R <= n /\ n < (n \div R + 1) * R
  OBVIOUS

\* A later time does not lie in an earlier interval.
LEMMA DivMonotone ==
    ASSUME NEW R \in Nat \ {0}, NEW m \in Nat, NEW n \in Nat, m <= n
    PROVE  m \div R <= n \div R
  OBVIOUS

\* A whole interval later is the next interval.
LEMMA DivNext ==
    ASSUME NEW R \in Nat \ {0}, NEW n \in Nat
    PROVE  (n + R) \div R = n \div R + 1
  OBVIOUS

\* A multiple begins its own interval.
LEMMA DivMultiple ==
    ASSUME NEW R \in Nat \ {0}, NEW k \in Nat
    PROVE  (k * R) \div R = k
  OBVIOUS

\* The constants are numbers.
LEMMA Constants ==
    /\ RequeueAfter \in Nat \ {0} /\ MaxPhaseTimeout \in Nat /\ MaxSkew \in Nat
    /\ MaxBackoff \in Nat /\ MaxAge \in Nat /\ MaxEvents \in Nat /\ MaxErrors \in Nat
    /\ MaxSkew <= MaxPhaseTimeout
  BY RetryTimerAssumption

\* What Next asks for is neither nothing nor more than requeueAfter, and leads to the
\* next interval: both when the retry is debounced and when it is written.
LEMMA DelayBounds ==
    ASSUME age \in Nat
    PROVE  /\ RequeueDelay \in 1..RequeueAfter
           /\ (age + RequeueDelay) \div RequeueAfter = age \div RequeueAfter + 1
<1> DEFINE k == age \div RequeueAfter
<1>1. RequeueAfter \in Nat \ {0}
  BY Constants
<1>2. k \in Nat /\ k * RequeueAfter <= age /\ age < (k + 1) * RequeueAfter
  BY <1>1, DivBounds
<1>3. k + 1 \in Nat /\ (k + 1) * RequeueAfter \in Nat
  BY <1>1, <1>2
<1>4. TimeToNextInterval = (k + 1) * RequeueAfter - age
  BY DEF TimeToNextInterval, IntervalsElapsed
<1> HIDE DEF k
<1>5. CASE Debounces
  <2>1. RequeueDelay = (k + 1) * RequeueAfter - age
    BY <1>4, <1>5 DEF RequeueDelay
  <2>2. RequeueDelay \in 1..RequeueAfter
    BY <2>1, <1>1, <1>3, <1>4, <1>5 DEF Debounces
  <2>3. age + RequeueDelay = (k + 1) * RequeueAfter
    BY <2>1, <1>3
  <2>4. ((k + 1) * RequeueAfter) \div RequeueAfter = k + 1
    BY <1>1, <1>3, DivMultiple
  <2> QED
    BY <2>2, <2>3, <2>4 DEF k
<1>6. CASE ~Debounces
  <2>1. RequeueDelay = RequeueAfter
    BY <1>6 DEF RequeueDelay
  <2>2. (age + RequeueAfter) \div RequeueAfter = age \div RequeueAfter + 1
    BY <1>1, DivNext
  <2> QED
    BY <2>1, <2>2, <1>1
<1> QED
  BY <1>5, <1>6

-----------------------------------------------------------------------------
(* The inductive invariant. *)

\* The latest moment up to which a key may be put off.
Latest == MaxPhaseTimeout + RequeueAfter + lost

\* A handler began before the timeout, and a delay that is pending ends in time.
InTime ==
    under =>
      /\ age <= Latest
      /\ pass = "handler" => age <= MaxPhaseTimeout + lost
      /\ timer # Never => timer <= Latest

\* The passes to come that are certain: one for a queued key, one for a delay.
Called == attempts + (IF queued THEN 1 ELSE 0) + (IF pass = "login" THEN 1 ELSE 0)

\* A delay that is pending ends in an interval that no call was paid for yet.
Spaced ==
    /\ Called <= age \div RequeueAfter + events + errors
    /\ under /\ timer # Never => Called + 1 <= timer \div RequeueAfter + events + errors

TimerInv == TypeOK /\ InTime /\ Spaced

\* What AddAfter does to the pending delay.
LEMMA AddAfterTimes ==
    ASSUME age \in Nat, timer \in Nat \cup {Never}, NEW d \in Nat, AddAfter(d)
    PROVE  /\ timer' \in Nat
           /\ timer' <= age + d
           /\ timer' = age + d \/ (timer # Never /\ timer' = timer)
  BY DEF AddAfter, Never

\* A phase begins with its first interval before it.
LEMMA InitTimer == Init => TimerInv
<1> SUFFICES ASSUME Init PROVE TimerInv
  OBVIOUS
<1>1. age \in Nat /\ age <= MaxPhaseTimeout
  BY Constants DEF Init
<1>2. timer \in Nat /\ timer = age + RequeueAfter /\ timer # Never
  BY <1>1, Constants DEF Init, Never
<1>3. TypeOK
  <2>1. under \in BOOLEAN /\ queued \in BOOLEAN /\ pass \in {"none", "login", "handler"}
    BY DEF Init
  <2>2. attempts \in Nat /\ lost \in Nat /\ events \in 0..MaxEvents /\ errors \in 0..MaxErrors
    BY Constants DEF Init
  <2> QED
    BY <1>1, <1>2, <2>1, <2>2 DEF TypeOK
<1>4. InTime
  BY <1>1, <1>2, Constants DEF Init, InTime, Latest
<1>5. age \div RequeueAfter \in Nat /\ timer \div RequeueAfter = age \div RequeueAfter + 1
  BY <1>1, <1>2, Constants, DivBounds, DivNext
<1>6. Called = 0 /\ events = 0 /\ errors = 0
  BY DEF Init, Called
<1>7. Spaced
  BY <1>5, <1>6 DEF Spaced
<1> QED
  BY <1>3, <1>4, <1>7 DEF TimerInv

\* A delay that is over becomes a key in the queue.
LEMMA FireTimer == TimerInv /\ Fire => TimerInv'
<1> SUFFICES ASSUME TimerInv, Fire PROVE TimerInv'
  OBVIOUS
<1> USE DEF Never
<1>1. TypeOK'
  BY DEF TimerInv, TypeOK, Fire
<1>2. InTime'
  BY DEF TimerInv, InTime, Latest, Fire
<1>3. Called \in Nat /\ Called' <= Called + 1
  BY DEF TimerInv, TypeOK, Called, Fire
<1>4. timer \in Nat /\ age \in Nat /\ timer <= age /\ timer # Never /\ under
  BY DEF TimerInv, TypeOK, Fire
<1>5. /\ timer \div RequeueAfter <= age \div RequeueAfter
      /\ timer \div RequeueAfter \in Nat /\ age \div RequeueAfter \in Nat
  BY <1>4, Constants, DivMonotone, DivBounds
<1>6. events \in Nat /\ errors \in Nat /\ Called' \in Nat
  BY Constants DEF TimerInv, TypeOK, Called, Fire
<1>7. Called + 1 <= timer \div RequeueAfter + events + errors
  BY <1>4 DEF TimerInv, Spaced
<1>8. /\ Called' <= age \div RequeueAfter + events + errors
      /\ timer' = Never /\ UNCHANGED <<age, events, errors>>
  BY <1>3, <1>5, <1>6, <1>7 DEF Fire
<1>9. Spaced'
  BY <1>8 DEF Spaced
<1> QED
  BY <1>1, <1>2, <1>9 DEF TimerInv

\* An event pays for the call it causes.
LEMMA EventTimer == TimerInv /\ Event => TimerInv'
<1> SUFFICES ASSUME TimerInv, Event PROVE TimerInv'
  OBVIOUS
<1>1. TypeOK'
  BY Constants DEF TimerInv, TypeOK, Event
<1>2. InTime'
  BY DEF TimerInv, InTime, Latest, Event
<1>3. Called \in Nat /\ Called' = Called + 1 /\ events' = events + 1
  BY DEF TimerInv, TypeOK, Called, Event
<1>4. /\ age \in Nat /\ events \in Nat /\ errors \in Nat
      /\ timer # Never => timer \in Nat
  BY Constants DEF TimerInv, TypeOK
<1>5. /\ age \div RequeueAfter \in Nat
      /\ timer # Never => timer \div RequeueAfter \in Nat
  BY <1>4, Constants, DivBounds
<1>6. Spaced'
  BY <1>3, <1>4, <1>5 DEF TimerInv, Spaced, Event
<1> QED
  BY <1>1, <1>2, <1>6 DEF TimerInv

\* A key that is taken stays paid for.
LEMMA TakeTimer == TimerInv /\ Take => TimerInv'
<1> SUFFICES ASSUME TimerInv, Take PROVE TimerInv'
  OBVIOUS
<1>1. TypeOK'
  BY DEF TimerInv, TypeOK, Take
<1>2. InTime'
  BY DEF TimerInv, InTime, Latest, Take
<1>3. Called' = Called
  BY DEF TimerInv, TypeOK, Called, Take
<1>4. Spaced'
  BY <1>3 DEF TimerInv, Spaced, Take
<1> QED
  BY <1>1, <1>2, <1>4 DEF TimerInv

\* Time that is waited for ends with the delay; any other counts as lost.
LEMMA TickTimer == TimerInv /\ Tick => TimerInv'
<1> SUFFICES ASSUME TimerInv, Tick PROVE TimerInv'
  OBVIOUS
<1> USE DEF Never
<1>1. TypeOK'
  BY DEF TimerInv, TypeOK, Tick
<1>2. InTime'
  <2>1. CASE Waiting
    BY <2>1, Constants DEF TimerInv, TypeOK, InTime, Latest, Tick, Waiting
  <2>2. CASE ~Waiting
    BY <2>2, Constants DEF TimerInv, TypeOK, InTime, Latest, Tick
  <2> QED
    BY <2>1, <2>2
<1>3. Called \in Nat /\ Called' = Called
  BY DEF TimerInv, TypeOK, Called, Tick
<1>4. age \in Nat /\ age' = age + 1 /\ events \in Nat /\ errors \in Nat
  BY Constants DEF TimerInv, TypeOK, Tick
<1>5. /\ age \div RequeueAfter \in Nat /\ age' \div RequeueAfter \in Nat
      /\ age \div RequeueAfter <= age' \div RequeueAfter
  BY <1>4, Constants, DivBounds, DivMonotone
<1>6. Spaced'
  BY <1>3, <1>4, <1>5 DEF TimerInv, Spaced, Tick
<1> QED
  BY <1>1, <1>2, <1>6 DEF TimerInv

\* A phase that has ended owes nothing.
LEMMA EndTimer ==
    ASSUME TimerInv, TimeOut \/ Leave
    PROVE  TimerInv'
<1>1. TypeOK' /\ ~under' /\ UNCHANGED <<age, attempts, queued, events, errors>>
  BY DEF TimerInv, TypeOK, TimeOut, Leave
<1>2. InTime'
  BY <1>1 DEF InTime
<1>3. Called' <= Called /\ Called \in Nat /\ Called' \in Nat
  BY DEF TimerInv, TypeOK, Called, TimeOut, Leave
<1>4. age \div RequeueAfter \in Nat /\ events \in Nat /\ errors \in Nat
  BY Constants, DivBounds DEF TimerInv, TypeOK
<1>5. Spaced'
  BY <1>1, <1>3, <1>4 DEF TimerInv, Spaced
<1> QED
  BY <1>1, <1>2, <1>5 DEF TimerInv

\* A handler begins before the timeout.
LEMMA HandleTimer == TimerInv /\ Handle => TimerInv'
<1> SUFFICES ASSUME TimerInv, Handle PROVE TimerInv'
  OBVIOUS
<1>1. TypeOK'
  BY DEF TimerInv, TypeOK, Handle
<1>2. InTime'
  BY Constants DEF TimerInv, TypeOK, InTime, Latest, Handle, IsTimeout
<1>3. Called' = Called
  BY DEF TimerInv, TypeOK, Called, Handle
<1>4. Spaced'
  BY <1>3 DEF TimerInv, Spaced, Handle
<1> QED
  BY <1>1, <1>2, <1>4 DEF TimerInv

\* A retry comes in the next interval, and not after it.
LEMMA RetryTimerStep == TimerInv /\ Retry => TimerInv'
<1> SUFFICES ASSUME TimerInv, Retry PROVE TimerInv'
  OBVIOUS
<1>1. /\ age \in Nat /\ timer \in Nat \cup {Never} /\ events \in Nat /\ errors \in Nat
      /\ lost \in Nat /\ under /\ pass = "handler"
  BY Constants DEF TimerInv, TypeOK, Retry
<1>2. /\ RequeueDelay \in 1..RequeueAfter
      /\ (age + RequeueDelay) \div RequeueAfter = age \div RequeueAfter + 1
  BY <1>1, DelayBounds
<1>3. /\ timer' \in Nat /\ timer' <= age + RequeueDelay
      /\ timer' = age + RequeueDelay \/ (timer # Never /\ timer' = timer)
  BY <1>1, <1>2, Constants, AddAfterTimes DEF Retry
<1>4. timer' # Never
  BY <1>3 DEF Never
<1>5. TypeOK'
  BY <1>3, <1>4 DEF TimerInv, TypeOK, Retry
<1>6. InTime'
  BY <1>1, <1>2, <1>3, Constants DEF TimerInv, InTime, Latest, Retry
<1>7. Called \in Nat /\ Called' = Called
  BY DEF TimerInv, TypeOK, Called, Retry
<1>8. age \div RequeueAfter \in Nat /\ timer' \div RequeueAfter \in Nat
  BY <1>1, <1>3, Constants, DivBounds
<1>9. Called <= age \div RequeueAfter + events + errors
  BY DEF TimerInv, Spaced
<1>10. Called + 1 <= timer' \div RequeueAfter + events + errors
  <2>1. CASE timer' = age + RequeueDelay
    BY <2>1, <1>1, <1>2, <1>7, <1>8, <1>9
  <2>2. CASE timer # Never /\ timer' = timer
    BY <2>2, <1>1 DEF TimerInv, Spaced
  <2> QED
    BY <1>3, <2>1, <2>2
<1>11. Spaced'
  BY <1>7, <1>9, <1>10 DEF Spaced, Retry
<1> QED
  BY <1>5, <1>6, <1>11 DEF TimerInv

\* What an error costs is counted, both in time and in calls.
LEMMA ErrorTimer ==
    ASSUME TimerInv, under, errors' = errors + 1, errors < MaxErrors,
           UNCHANGED <<under, age, attempts, events>>,
           pass' = "none", queued' \in BOOLEAN, queued' => queued,
           NEW d \in Nat, lost' = lost + d,
           timer' \in Nat, timer' <= age + d,
           timer' = age + d \/ (timer # Never /\ timer' = timer)
    PROVE  TimerInv'
<1>1. /\ age \in Nat /\ timer \in Nat \cup {Never} /\ events \in Nat /\ errors \in Nat
      /\ lost \in Nat
  BY Constants DEF TimerInv, TypeOK
<1>2. timer' # Never
  BY DEF Never
<1>3. TypeOK'
  BY <1>1, <1>2, Constants DEF TimerInv, TypeOK
<1>4. InTime'
  BY <1>1, Constants DEF TimerInv, InTime, Latest
<1>5. Called \in Nat /\ Called' \in Nat /\ Called' <= Called
  BY DEF TimerInv, TypeOK, Called
<1>6. /\ age \div RequeueAfter \in Nat /\ timer' \div RequeueAfter \in Nat
      /\ age <= age + d /\ age + d \in Nat
  <2>1. age \div RequeueAfter \in Nat
    BY <1>1, Constants, DivBounds
  <2>2. timer' \div RequeueAfter \in Nat
    BY Constants, DivBounds
  <2> QED
    BY <2>1, <2>2, <1>1
<1>7. age \div RequeueAfter <= (age + d) \div RequeueAfter
  BY <1>1, <1>6, Constants, DivMonotone
<1>8. Called <= age \div RequeueAfter + events + errors
  BY DEF TimerInv, Spaced
<1>9. Called' <= age \div RequeueAfter + events + errors'
  BY <1>1, <1>5, <1>6, <1>8
<1>10. Called' + 1 <= timer' \div RequeueAfter + events + errors'
  <2>1. CASE timer' = age + d
    BY <2>1, <1>1, <1>5, <1>6, <1>7, <1>8
  <2>2. CASE timer # Never /\ timer' = timer
    <3>1. Called + 1 <= timer \div RequeueAfter + events + errors
      BY <2>2 DEF TimerInv, Spaced
    <3> QED
      BY <2>2, <3>1, <1>1, <1>5, <1>6
  <2> QED
    BY <2>1, <2>2
<1>11. Spaced'
  BY <1>9, <1>10 DEF Spaced
<1> QED
  BY <1>3, <1>4, <1>11 DEF TimerInv

\* A pass that ends in an error.
LEMMA PutOffTimer == TimerInv /\ PutOff => TimerInv'
<1> SUFFICES ASSUME TimerInv, PutOff PROVE TimerInv'
  OBVIOUS
<1>1. PICK d \in 1..MaxBackoff : AddAfter(d) /\ lost' = lost + d
  BY DEF PutOff
<1>2. d \in Nat
  BY Constants
<1>3. /\ timer' \in Nat /\ timer' <= age + d
      /\ timer' = age + d \/ (timer # Never /\ timer' = timer)
  BY <1>1, <1>2, AddAfterTimes DEF TimerInv, TypeOK
<1>4. /\ under /\ errors' = errors + 1 /\ errors < MaxErrors
      /\ UNCHANGED <<under, age, attempts, events>>
      /\ pass' = "none" /\ queued' \in BOOLEAN /\ (queued' => queued)
  BY DEF PutOff, TimerInv, TypeOK
<1> QED
  BY <1>1, <1>2, <1>3, <1>4, ErrorTimer

\* A restart.
LEMMA RestartTimer == TimerInv /\ Restart => TimerInv'
<1> SUFFICES ASSUME TimerInv, Restart PROVE TimerInv'
  OBVIOUS
<1>1. PICK d \in 0..MaxBackoff : timer' = age + d /\ lost' = lost + d
  BY DEF Restart
<1>2. d \in Nat /\ age \in Nat /\ timer' \in Nat /\ timer' <= age + d
  BY <1>1, Constants DEF TimerInv, TypeOK
<1>3. /\ under /\ errors' = errors + 1 /\ errors < MaxErrors
      /\ UNCHANGED <<under, age, attempts, events>>
      /\ pass' = "none" /\ queued' \in BOOLEAN /\ (queued' => queued)
  BY DEF Restart
<1> QED
  BY <1>1, <1>2, <1>3, ErrorTimer

\* Every step keeps the invariant.
LEMMA TimerStep == TimerInv /\ [Next]_vars => TimerInv'
<1> SUFFICES ASSUME TimerInv, [Next]_vars PROVE TimerInv'
  OBVIOUS
<1>1. CASE UNCHANGED vars
  BY <1>1 DEF vars, TimerInv, TypeOK, InTime, Latest, Spaced, Called
<1> QED
  BY <1>1, FireTimer, EventTimer, TakeTimer, TickTimer, EndTimer, HandleTimer,
     RetryTimerStep, PutOffTimer, RestartTimer DEF Next

\* The invariant, which the theorems below are parts of.
LEMMA TimerInvariant == Spec => []TimerInv
  BY InitTimer, TimerStep, PTL DEF Spec

-----------------------------------------------------------------------------

\* Types, and a key of a phase under way that is never forgotten: it is queued, being
\* worked on, or put off (Result of Next, which the work queue acts on).
THEOREM TypeCorrect == Spec => []TypeOK
<1>1. TimerInv => TypeOK
  BY DEF TimerInv
<1> QED
  BY <1>1, TimerInvariant, PTL

\* A phase lasts no longer than its timeout and one requeueAfter, apart from the
\* time lost (HandlePhaseTimeout at the start of every pass).
THEOREM TimeoutNoticed == Spec => []TimeoutIsNoticed
<1>1. TimerInv => TimeoutIsNoticed
  BY DEF TimerInv, InTime, Latest, TimeoutIsNoticed
<1> QED
  BY <1>1, TimerInvariant, PTL

\* One call in every requeueAfter, and one for each event, error and restart
\* (the debounce of Next).
THEOREM Calls == Spec => []CallsAreSpaced
<1>1. ASSUME TimerInv PROVE CallsAreSpaced
  <2>1. attempts <= Called /\ attempts \in Nat /\ Called \in Nat
    BY <1>1 DEF TimerInv, TypeOK, Called
  <2>2. age \div RequeueAfter \in Nat /\ events \in Nat /\ errors \in Nat
    BY <1>1, Constants, DivBounds DEF TimerInv, TypeOK
  <2> QED
    BY <1>1, <2>1, <2>2 DEF TimerInv, Spaced, CallsAreSpaced
<1> QED
  BY <1>1, TimerInvariant, PTL
=============================================================================
