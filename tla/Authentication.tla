--------------------------- MODULE Authentication ---------------------------
(***************************************************************************)
(* How the workers of the nine controllers come by the token of their      *)
(* requests: Authenticate (reconciler.go), the token manager with its      *)
(* cache (oauth_client.go), and the one API client all of them share       *)
(* (helper.go).                                                            *)
(*                                                                         *)
(* Every pass authenticates for its object's tenant and then makes         *)
(* requests with whatever token the client holds at that moment.  Passes   *)
(* of different controllers run at the same time.  A tick of the clock     *)
(* ages every token; a login takes a while, so that the token manager      *)
(* believes in a token longer than its issuer does.                        *)
(*                                                                         *)
(* The token in the client is a pointer and a length, written without a    *)
(* lock.  Tokens are taken to be of one length, so that a request built    *)
(* while they are written carries the old token or the new one.            *)
(*                                                                         *)
(* An operator named X_Y is a fault seeded into X, used by nothing else.   *)
(***************************************************************************)
EXTENDS Integers

CONSTANTS
    Workers,  \* controllers, with one worker each
    Tenants,  \* tenants of the objects
    Life,     \* expires_in, in ticks
    Margin,   \* safetyMargin, in ticks
    MaxPass   \* bound: ticks a pass takes at most

ASSUME AuthenticationAssumption ==
    /\ Life \in Nat \ {0} /\ Margin \in Nat \ {0} /\ MaxPass \in Nat
    /\ {"static", "none"} \cap Tenants = {}

VARIABLES
    vault,    \* VaultIsEnabled: each tenant has credentials of its own
    shared,   \* HelperClient.apiToken
    creds,    \* whose clientID and clientSecret the token manager holds
    lock,     \* the worker that holds TokenManager.mu over a login, or nobody
    cache,    \* TokenCache.tokens
    pass,     \* the pass of each worker
    crossed   \* history: passes for different tenants have run at the same time

vars == <<vault, shared, creds, lock, cache, pass, crossed>>

-----------------------------------------------------------------------------
(* Tokens and passes. *)

\* The operator's own credentials, used for everybody while vault is off.
Static == "static"
NoOne == "none"
Owners == Tenants \cup {Static, NoOne}

\* The credentials that requests for tenant t ought to be made with.
OwnerFor(t) == IF vault THEN t ELSE Static

\* left: for how long the API will accept it.
Token == [owner : Owners, left : 0..Life]
NoToken == [left |-> 0]

\* believed: what is left of retrieved + ExpiresIn.
Entry == [owner : Owners, left : 0..Life, believed : 0..Life]
NoEntry == [believed |-> 0]

\* at: "token" looks for a token, "secret" for credentials, "login" wants to log in,
\* "reply" waits for its answer, "set" hands it to the client, "call" makes requests.
Pass == [at : {"token", "secret", "login", "reply", "set", "call"}, tenant : Tenants,
         age : 0..MaxPass, got : Token \cup {NoToken}]
Idle == [at |-> "idle"]

Running(w) == pass[w] # Idle
At(w, place) == Running(w) /\ pass[w].at = place

GoOn(w, place) == pass' = [pass EXCEPT ![w].at = place]
End(w) == pass' = [pass EXCEPT ![w] = Idle]

\* isExpired, of the cached entry.
IsExpired_NoMargin(entry) == entry.believed = 0
IsExpired(entry) == entry.believed < Margin
Active(t) == cache[t] # NoEntry /\ ~IsExpired(cache[t])

-----------------------------------------------------------------------------
(* A pass. *)

\* Reconcile reaches Authenticate.
Begin(w, t) ==
    /\ ~Running(w)
    /\ pass' = [pass EXCEPT ![w] = [at |-> "token", tenant |-> t, age |-> 0,
                                    got |-> NoToken]]
    /\ crossed' = (crossed \/ \E u \in Workers : Running(u) /\ pass[u].tenant # t)
    /\ UNCHANGED <<vault, shared, creds, lock, cache>>

\* GetActiveToken, and SetAPIToken with what it has found.
UseActiveToken(w) ==
    /\ At(w, "token") /\ Active(pass[w].tenant)
    /\ LET entry == cache[pass[w].tenant]
       IN  pass' = [pass EXCEPT ![w].at = "set",
                                ![w].got = [owner |-> entry.owner, left |-> entry.left]]
    /\ UNCHANGED <<vault, shared, creds, lock, cache, crossed>>

NoActiveToken(w) ==
    /\ At(w, "token") /\ ~Active(pass[w].tenant)
    /\ GoOn(w, IF vault THEN "secret" ELSE "login")
    /\ UNCHANGED <<vault, shared, creds, lock, cache, crossed>>

\* GetSecret, and SetClientIdAndSecret, which takes the lock and gives it back.
SetClientIdAndSecret_Once(w) ==
    /\ At(w, "secret") /\ lock = {}
    /\ creds' = IF creds = NoOne THEN pass[w].tenant ELSE creds
    /\ GoOn(w, "login")
    /\ UNCHANGED <<vault, shared, lock, cache, crossed>>
SetClientIdAndSecret(w) ==
    /\ At(w, "secret") /\ lock = {}
    /\ creds' = pass[w].tenant
    /\ GoOn(w, "login")
    /\ UNCHANGED <<vault, shared, lock, cache, crossed>>

\* Vault does not answer, or has no such secret.
GetSecretFails(w) ==
    /\ At(w, "secret") /\ End(w)
    /\ UNCHANGED <<vault, shared, creds, lock, cache, crossed>>

\* GetAccessToken takes the lock and getToken logs in with the credentials there
\* are; the token begins to age when it is issued.
LogIn(w) ==
    /\ At(w, "login") /\ lock = {}
    /\ lock' = {w}
    /\ pass' = [pass EXCEPT ![w].at = "reply", ![w].got = [owner |-> creds, left |-> Life]]
    /\ UNCHANGED <<vault, shared, creds, cache, crossed>>

\* The answer arrives: cache.set, for the tenant of the pass.
LogInSucceeds(w) ==
    /\ At(w, "reply")
    /\ lock' = {}
    /\ cache' = [cache EXCEPT ![pass[w].tenant] =
                    [owner |-> pass[w].got.owner, left |-> pass[w].got.left, believed |-> Life]]
    /\ GoOn(w, "set")
    /\ UNCHANGED <<vault, shared, creds, crossed>>

LogInFails_KeepsLock(w) ==
    /\ At(w, "reply") /\ End(w)
    /\ UNCHANGED <<vault, shared, creds, lock, cache, crossed>>
LogInFails_TriesAgain(w) ==
    /\ At(w, "reply") /\ GoOn(w, "login")
    /\ lock' = {}
    /\ UNCHANGED <<vault, shared, creds, cache, crossed>>
LogInFails(w) ==
    /\ At(w, "reply") /\ End(w)
    /\ lock' = {}
    /\ UNCHANGED <<vault, shared, creds, cache, crossed>>

\* SetAPIToken
SetAPIToken(w) ==
    /\ At(w, "set")
    /\ shared' = pass[w].got
    /\ pass' = [pass EXCEPT ![w].at = "call", ![w].got = NoToken]
    /\ UNCHANGED <<vault, creds, lock, cache, crossed>>

\* At "call" the handler makes its requests, at any time until it is done.
Finish(w) ==
    /\ At(w, "call") /\ End(w)
    /\ UNCHANGED <<vault, shared, creds, lock, cache, crossed>>

Step(w) ==
    \/ UseActiveToken(w) \/ NoActiveToken(w)
    \/ SetClientIdAndSecret(w) \/ GetSecretFails(w)
    \/ LogIn(w) \/ LogInSucceeds(w) \/ LogInFails(w)
    \/ SetAPIToken(w) \/ Finish(w)

-----------------------------------------------------------------------------

\* An entry that has expired is never looked at again: it counts as none.
Less(n) == IF n = 0 THEN 0 ELSE n - 1
Older(token) == IF token = NoToken THEN token ELSE [token EXCEPT !.left = Less(@)]
OlderEntry(entry) ==
    LET older == [entry EXCEPT !.left = Less(@), !.believed = Less(@)]
    IN  IF entry = NoEntry \/ IsExpired(older) THEN NoEntry ELSE older

\* No pass takes longer than MaxPass.
Tick ==
    /\ \A w \in Workers : Running(w) => pass[w].age < MaxPass
    /\ shared' = Older(shared)
    /\ cache' = [t \in Tenants |-> OlderEntry(cache[t])]
    /\ pass' = [w \in Workers |->
                  IF Running(w) THEN [pass[w] EXCEPT !.age = @ + 1, !.got = Older(@)]
                  ELSE Idle]
    /\ UNCHANGED <<vault, creds, lock, crossed>>

Init ==
    /\ vault \in BOOLEAN
    /\ shared = NoToken
    /\ creds = IF vault THEN NoOne ELSE Static
    /\ lock = {}
    /\ cache = [t \in Tenants |-> NoEntry]
    /\ pass = [w \in Workers |-> Idle]
    /\ crossed = FALSE

Next == Tick \/ \E w \in Workers : Step(w) \/ \E t \in Tenants : Begin(w, t)

Spec == Init /\ [][Next]_vars

\* Every worker goes on with its pass, and a Go mutex is handed to whoever has
\* waited for too long.
Locks(w) == SetClientIdAndSecret(w) \/ LogIn(w)
FairSpec == Spec /\ \A w \in Workers : WF_vars(Step(w)) /\ SF_vars(Locks(w))

-----------------------------------------------------------------------------
(* Properties. *)

\* The lock is held by the worker whose login is under way, and by nobody else.
TypeOK ==
    /\ vault \in BOOLEAN /\ crossed \in BOOLEAN
    /\ shared \in Token \cup {NoToken}
    /\ creds \in Owners
    /\ cache \in [Tenants -> Entry \cup {NoEntry}]
    /\ pass \in [Workers -> Pass \cup {Idle}]
    /\ lock = {w \in Workers : At(w, "reply")}
    /\ \A v, w \in lock : v = w

\* While the operator runs on credentials of its own, or no two passes for different
\* tenants have run at the same time, requests carry a token of the right owner:
\* what Authenticate set at the beginning of a pass is what its requests use.
OwnTokenUnlessCrossed ==
    (vault => ~crossed) =>
        \A w \in Workers : At(w, "call") => shared.owner = OwnerFor(pass[w].tenant)

\* The safety margin covers a token that was believed in for too long, handed over by
\* another pass and used to the end of this one, if no pass takes a third of it
\* (isExpired subtracts it from a time that begins when the login has returned).
NoExpiredToken ==
    3 * MaxPass < Margin /\ 3 * MaxPass < Life =>
        \A w \in Workers : At(w, "call") => shared.left > 0

\* A pass comes to its end, also when logins fail: the mutex is given back on every
\* way out of GetAccessToken.
EveryPassEnds == \A w \in Workers : Running(w) ~> ~Running(w)

\* A request carries a token of the tenant the client was authenticated for
\* ("Authenticate authenticates the client with the given tenant",
\* reconciler.go:522).
RequestCarriesOwnToken ==
    \A w \in Workers : At(w, "call") => shared.owner = OwnerFor(pass[w].tenant)
=============================================================================
