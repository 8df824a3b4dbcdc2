----------------------------- MODULE VaultClient ----------------------------
(***************************************************************************)
(* The operator's own token at Vault: the AppRole login and the goroutine  *)
(* that renews the token in time, or logs in anew (vault_client.go).       *)
(* GetSecret, which Authentication relies on, answers while the token      *)
(* lives.                                                                  *)
(*                                                                         *)
(* A tick of the clock is one second.  Nothing the goroutine has to do     *)
(* takes a tick.                                                           *)
(*                                                                         *)
(* An operator named X_Y is a fault seeded into X, used by nothing else.   *)
(***************************************************************************)
EXTENDS Integers

CONSTANTS
    Leases,      \* lease durations Vault may grant, in ticks
    LeastBefore, \* how long before its end a token is renewed, at least
    MaxFaults    \* bound: calls to Vault that fail for no reason of the token's

ASSUME VaultAssumption ==
    /\ Leases \subseteq Nat \ {0}
    /\ LeastBefore \in Nat \ {0}
    /\ MaxFaults \in Nat

VARIABLES
    life,       \* what is left of the token, at Vault
    ttl,        \* AppRoleClient.ttl, the lease last granted
    renewable,  \* AppRoleClient.renewable
    renewer,    \* the goroutine of StartAutoRenew
    ctx,        \* the context it runs under
    closed,     \* Close was called: its own context is cancelled
    before,     \* renewBefore, set once when the goroutine starts
    wait,       \* what is left of its timer
    missed,     \* history: its last attempt brought no token
    faults      \* faults so far

vars == <<life, ttl, renewable, renewer, ctx, closed, before, wait, missed, faults>>

Fault == faults < MaxFaults /\ faults' = faults + 1
NoFault == UNCHANGED faults

-----------------------------------------------------------------------------

\* 80 percent of the lease are used, but the last ticks never.
RenewBefore_FifthOnly(lease) == lease \div 5
RenewBefore(lease) == IF lease \div 5 < LeastBefore THEN LeastBefore ELSE lease \div 5

\* A lease that is not longer is renewed at the next tick.
Wait_Unguarded(lease, b) == lease - b
Wait(lease, b) == IF lease <= b THEN 1 ELSE lease - b

\* NewAppRoleClient has logged in; without a token the process exits.
Init ==
    /\ ttl \in Leases /\ life = ttl /\ renewable \in BOOLEAN
    /\ renewer = "starting" /\ ctx = "own" /\ closed = FALSE
    /\ before = 0 /\ wait = 0
    /\ missed = FALSE /\ faults = 0

\* The goroutine of StartAutoRenew gets to run.  A context that was cancelled before
\* is replaced; a token that cannot be renewed ends it.
Context_Own == "own"
Context == IF closed THEN "background" ELSE "own"
Start ==
    /\ renewer = "starting"
    /\ ctx' = Context
    /\ renewer' = IF renewable THEN "waiting" ELSE "stopped"
    /\ before' = RenewBefore(ttl)
    /\ wait' = Wait(ttl, before')
    /\ UNCHANGED <<life, ttl, renewable, closed, missed, faults>>

\* NewReconciler defers Close: it is called as soon as the reconciler is built.
Close ==
    /\ ~closed /\ closed' = TRUE
    /\ UNCHANGED <<life, ttl, renewable, renewer, ctx, before, wait, missed, faults>>

Cancelled == ctx = "own" /\ closed

\* The select sees the context done.
Stop ==
    /\ renewer = "waiting" /\ Cancelled
    /\ renewer' = "stopped"
    /\ UNCHANGED <<life, ttl, renewable, ctx, closed, before, wait, missed, faults>>

\* The client takes over a token: renewSelf and login end alike.
Granted ==
    /\ \E l \in Leases : life' = l /\ ttl' = l /\ wait' = Wait(l, before)
    /\ renewable' \in BOOLEAN
    /\ missed' = FALSE

\* renewSelf needs a token that lives and may be renewed.
CanRenewSelf == ~Cancelled /\ life > 0 /\ renewable

\* The error of login is ignored: the timer is set by the lease there was.
NotGranted ==
    /\ wait' = Wait(ttl, before)
    /\ missed' = TRUE
    /\ UNCHANGED <<life, ttl, renewable>>

LogIn_Never == NotGranted
LogIn == Granted

\* The timer has run down: renewSelf, or else login.  A renewal may also fail for a
\* reason of its own, and the login after it too.
Renew ==
    /\ renewer = "waiting" /\ wait = 0
    /\ \/ CanRenewSelf /\ Granted /\ NoFault
       \/ ~CanRenewSelf /\ LogIn /\ NoFault
       \/ LogIn /\ Fault
       \/ NotGranted /\ Fault
    /\ UNCHANGED <<renewer, ctx, closed, before>>

\* Time passes while the goroutine has nothing to do.
Tick ==
    /\ renewer = "waiting" => wait > 0 /\ ~Cancelled
    /\ renewer # "starting"
    /\ life' = IF life = 0 THEN 0 ELSE life - 1
    /\ wait' = IF renewer = "waiting" THEN wait - 1 ELSE wait
    /\ UNCHANGED <<ttl, renewable, renewer, ctx, closed, before, missed, faults>>

Next == Start \/ Close \/ Stop \/ Renew \/ Tick

Spec == Init /\ [][Next]_vars
\* Clock and goroutine go on, and the reconciler comes to be built.
FairSpec ==
    Spec /\ WF_vars(Start) /\ WF_vars(Close) /\ WF_vars(Stop) /\ WF_vars(Renew) /\ WF_vars(Tick)

-----------------------------------------------------------------------------
(* Properties. *)

TypeOK ==
    /\ life \in Nat /\ ttl \in Leases /\ life <= ttl
    /\ renewable \in BOOLEAN /\ closed \in BOOLEAN /\ missed \in BOOLEAN
    /\ renewer \in {"starting", "waiting", "stopped"}
    /\ ctx \in {"own", "background"}
    /\ before \in Nat
    /\ wait \in Nat /\ (renewer = "waiting" => wait <= ttl)
    /\ faults \in 0..MaxFaults

\* A token that is waiting to be renewed outlives the timer, whatever leases Vault
\* grants after the first one: the margin is computed once, from the first lease, and
\* is never less than LeastBefore (autoRenew).  An attempt that failed altogether, or
\* a lease of one tick, leaves a gap.
RenewedInTime ==
    renewer = "waiting" /\ ~missed /\ ttl > 1 => wait < life

\* While the goroutine lives, a token that has run out is replaced, also one that can no
\* longer be renewed and after calls that have failed (autoRenew logs in when
\* renewSelf fails).
TokenComesBack == []<>(life > 0 \/ renewer = "stopped")

\* A Close that comes before the goroutine runs does not end the renewal ("protect
\* against immediate cancellation", vault_client.go:202); one that comes later does.
EarlyCloseIsIgnored ==
    [](renewer = "starting" /\ closed /\ renewable => [](renewer # "stopped"))
=============================================================================
