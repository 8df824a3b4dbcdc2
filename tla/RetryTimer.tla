------------------------------ MODULE RetryTimer ----------------------------
(***************************************************************************)
(* When the passes of a phase under way take place: the requeues that Next *)
(* asks for, its debounce, and the timeout of the phase (reconciler.go).   *)
(* ResourceLifecycle lets a requeued key be taken at any time; here the    *)
(* clock counts, and nothing else of the object is looked at.              *)
(*                                                                         *)
(* The clock shows what time.Since(PhaseStartTime) does, and is never set  *)
(* back.  Nothing is assumed of how long a pass takes, a key waits for its *)
(* worker or a timer is late: requests have no deadline, and a kind has    *)
(* one worker.  The time that goes by so is kept in lost.                  *)
(*                                                                         *)
(* An operator named X_Y is a fault seeded into X, used by nothing else.   *)
(***************************************************************************)
EXTENDS Integers

CONSTANTS
    RequeueAfter,    \* requeueAfter
    MaxPhaseTimeout, \* maxPhaseTimeout
    MaxSkew,         \* what rounding PhaseStartTime to seconds can add
    MaxBackoff,      \* the longest delay after an error
    MaxAge,          \* bound: the clock
    MaxEvents,       \* bound: events of the watch
    MaxErrors        \* bound: passes that end in an error, and restarts

ASSUME RetryTimerAssumption ==
    /\ RequeueAfter \in Nat \ {0}
    /\ {MaxPhaseTimeout, MaxSkew, MaxBackoff, MaxAge, MaxEvents, MaxErrors} \subseteq Nat
    /\ MaxSkew <= MaxPhaseTimeout

VARIABLES
    under,    \* the phase is under way
    age,      \* time since it began
    timer,    \* when the work queue adds the key, Never while no delay is pending
    queued,   \* the key is in the queue
    pass,     \* the worker's pass: "none", "login" before the timeout is looked at, "handler"
    attempts, \* history: how often the handler has run
    lost,     \* history: time not spent waiting for a timer to come, and delays after errors
    events, errors

vars == <<under, age, timer, queued, pass, attempts, lost, events, errors>>

Never == -1

-----------------------------------------------------------------------------
(* The arithmetic of Next, for a retry in the same phase. *)

IntervalsElapsed == age \div RequeueAfter
TimeToNextInterval == (IntervalsElapsed + 1) * RequeueAfter - age

\* A retry is put off to the next multiple of requeueAfter; on a multiple, it is written
\* and comes again after the whole of it.
Debounces == TimeToNextInterval > 0 /\ TimeToNextInterval < RequeueAfter
RequeueDelay_SameInterval == IntervalsElapsed * RequeueAfter - age
RequeueDelay_Doubles == IF age = 0 THEN RequeueAfter ELSE age
RequeueDelay == IF Debounces THEN TimeToNextInterval ELSE RequeueAfter

\* HandlePhaseTimeout
IsTimeout == age > MaxPhaseTimeout

-----------------------------------------------------------------------------
(* The work queue. *)

\* AddAfter: of two delays the earlier counts.
AddAfter(delay) ==
    timer' = IF timer = Never \/ age + delay < timer THEN age + delay ELSE timer

\* The delay is over: the key is added, once.
Fire ==
    /\ under /\ timer # Never /\ timer <= age
    /\ timer' = Never /\ queued' = TRUE
    /\ UNCHANGED <<under, age, pass, attempts, lost, events, errors>>

\* The watch has delivered some version of the object.
Event ==
    /\ under /\ ~queued /\ events < MaxEvents
    /\ queued' = TRUE /\ events' = events + 1
    /\ UNCHANGED <<under, age, timer, pass, attempts, lost, errors>>

Take ==
    /\ under /\ pass = "none" /\ queued
    /\ queued' = FALSE /\ pass' = "login"
    /\ UNCHANGED <<under, age, timer, attempts, lost, events, errors>>

\* Time is only waited for when no pass is under way or due.
Waiting == pass = "none" /\ ~queued /\ age < timer
Tick ==
    /\ under /\ age < MaxAge
    /\ age' = age + 1
    /\ lost' = IF Waiting THEN lost ELSE lost + 1
    /\ UNCHANGED <<under, timer, queued, pass, attempts, events, errors>>

-----------------------------------------------------------------------------
(* A pass. *)

\* The phase has lasted too long: it ends in Failed.
TimeOut ==
    /\ under /\ pass = "login" /\ IsTimeout
    /\ under' = FALSE /\ pass' = "none"
    /\ UNCHANGED <<age, timer, queued, attempts, lost, events, errors>>

\* Otherwise its handler runs.
Handle ==
    /\ under /\ pass = "login" /\ ~IsTimeout
    /\ pass' = "handler" /\ attempts' = attempts + 1
    /\ UNCHANGED <<under, age, timer, queued, lost, events, errors>>

\* The handler has to try again in the same phase.
Retry_NotRequeued ==
    /\ under /\ pass = "handler" /\ pass' = "none"
    /\ UNCHANGED <<under, age, timer, queued, attempts, lost, events, errors>>
Retry ==
    /\ under /\ pass = "handler"
    /\ AddAfter(RequeueDelay) /\ pass' = "none"
    /\ UNCHANGED <<under, age, queued, attempts, lost, events, errors>>

\* It leads to another phase, as a requested deletion does before it runs.
Leave ==
    /\ under
    /\ pass = "handler" \/ (pass = "login" /\ ~IsTimeout)
    /\ under' = FALSE /\ pass' = "none"
    /\ UNCHANGED <<age, timer, queued, attempts, lost, events, errors>>

\* A login or a write has failed: the queue's rate limiter puts the key off.
PutOff ==
    /\ under /\ pass # "none" /\ errors < MaxErrors
    /\ \E delay \in 1..MaxBackoff : AddAfter(delay) /\ lost' = lost + delay
    /\ pass' = "none" /\ errors' = errors + 1
    /\ UNCHANGED <<under, age, queued, attempts, events>>

\* A new process lists the objects: queue, timers and worker begin empty.
Restart ==
    /\ under /\ errors < MaxErrors
    /\ \E delay \in 0..MaxBackoff : timer' = age + delay /\ lost' = lost + delay
    /\ queued' = FALSE /\ pass' = "none" /\ errors' = errors + 1
    /\ UNCHANGED <<under, age, attempts, events>>

\* The write that began the phase asks for a requeue as any other.
Init ==
    /\ under = TRUE /\ age \in 0..MaxSkew
    /\ timer = age + RequeueAfter
    /\ queued = FALSE /\ pass = "none"
    /\ attempts = 0 /\ lost = 0 /\ events = 0 /\ errors = 0

Next ==
    \/ Fire \/ Event \/ Take \/ Tick
    \/ TimeOut \/ Handle \/ Retry \/ Leave \/ PutOff \/ Restart

Spec == Init /\ [][Next]_vars

-----------------------------------------------------------------------------
(* Properties. *)

\* The key of an object in a phase under way is always somewhere.
TypeOK ==
    /\ under \in BOOLEAN /\ queued \in BOOLEAN
    /\ age \in Nat /\ timer \in Nat \cup {Never}
    /\ pass \in {"none", "login", "handler"}
    /\ attempts \in Nat /\ lost \in Nat
    /\ events \in 0..MaxEvents /\ errors \in 0..MaxErrors
    /\ under => pass # "none" \/ queued \/ timer # Never

\* A phase is never under way for longer than its timeout and one requeueAfter, not
\* counting delays after errors, the time passes take and the time a key is late:
\* there is always a pass to come, and none is put off too far (RequeueAfter in
\* what Next returns, and HandlePhaseTimeout at the start of every pass).
TimeoutIsNoticed == under => age <= MaxPhaseTimeout + RequeueAfter + lost

\* The handler of a phase, and with it the remote side, is called once in every
\* requeueAfter at most, apart from one more time for each event, error and
\* restart: a retry is never put off to the interval it is made in (the
\* debounce of Next).
CallsAreSpaced == attempts <= age \div RequeueAfter + events + errors
=============================================================================
