------------------------ MODULE Authentication_proofs -----------------------
(***************************************************************************)
(* Three facts about every behaviour of Authentication: types and the      *)
(* lock; requests with a token of the right owner unless passes have       *)
(* crossed; no request with an expired token while passes are short.       *)
(***************************************************************************)
EXTENDS Authentication, TLAPS

-----------------------------------------------------------------------------
(* Types. *)

\* A worker that has come so far holds a token, and only with vault does it ask for
\* credentials.
Holding ==
    \A w \in Workers :
        /\ At(w, "secret") => vault
        /\ At(w, "reply") => pass[w].got \in Token
        /\ At(w, "set") => pass[w].got \in Token
        /\ At(w, "call") => shared \in Token

TypeInv == TypeOK /\ Holding

\* What is changed when worker w goes to another place in its pass.
Goes(w, p) == pass' = [pass EXCEPT ![w] = p]

\* A running worker's pass is a Pass.
LEMMA RunningPass ==
    ASSUME TypeOK, NEW w \in Workers, Running(w)
    PROVE  pass[w] \in Pass
  BY DEF TypeOK, Running

\* Nothing but the step's own worker moves: the lock follows it.
LEMMA LockFollows ==
    ASSUME TypeOK, NEW w \in Workers, NEW p \in Pass \cup {Idle}, Goes(w, p),
           p = Idle \/ p.at # "reply", lock' = lock \ {w}
    PROVE  /\ lock' = {u \in Workers : At(u, "reply")}'
           /\ \A u, v \in lock' : u = v
<1>1. \A u \in Workers : pass'[u] = IF u = w THEN p ELSE pass[u]
  BY DEF Goes, TypeOK
<1>2. lock = {u \in Workers : At(u, "reply")} /\ \A u, v \in lock : u = v
  BY DEF TypeOK
<1> QED
  BY <1>1, <1>2 DEF At, Running

\* Every action keeps TypeInv.
LEMMA InitTypeInv == Init => TypeInv
  BY AuthenticationAssumption
     DEF Init, TypeInv, TypeOK, Holding, Owners, At, Running


\* A step that moves one worker, not to wait for an answer, and hands on tokens.
LEMMA MoveTypeInv ==
    ASSUME TypeInv, NEW w \in Workers, NEW p \in Pass \cup {Idle}, Goes(w, p),
           p = Idle \/ p.at # "reply", lock' = lock \ {w},
           p # Idle /\ p.at = "secret" => vault,
           p # Idle /\ p.at = "set" => p.got \in Token,
           p # Idle /\ p.at = "call" => shared' \in Token,
           vault' = vault, crossed' \in BOOLEAN, creds' \in Owners,
           shared' = shared \/ shared' \in Token,
           cache' \in [Tenants -> Entry \cup {NoEntry}]
    PROVE  TypeInv'
<1>1. /\ lock' = {u \in Workers : At(u, "reply")}'
      /\ \A u, v \in lock' : u = v
  BY LockFollows DEF TypeInv
<1>2. pass' \in [Workers -> Pass \cup {Idle}]
  BY DEF Goes, TypeInv, TypeOK
<1>3. TypeOK'
  BY <1>1, <1>2 DEF TypeInv, TypeOK
<1>4. \A u \in Workers : pass'[u] = IF u = w THEN p ELSE pass[u]
  BY DEF Goes, TypeInv, TypeOK
<1>5. Holding'
  BY <1>4 DEF TypeInv, Holding, At, Running
<1> QED
  BY <1>3, <1>5 DEF TypeInv

\* A worker that holds no lock gives none back.
LEMMA NotHolding ==
    ASSUME TypeOK, NEW w \in Workers, ~At(w, "reply")
    PROVE  lock = lock \ {w}
  BY DEF TypeOK

\* A pass at another place, and one with another token.
Moved(p, place) == [p EXCEPT !.at = place]
Given(p, place, got) == [p EXCEPT !.at = place, !.got = got]

\* Both are passes.
LEMMA PassAt ==
    ASSUME TypeOK, NEW w \in Workers, Running(w),
           NEW place \in {"token", "secret", "login", "reply", "set", "call"},
           NEW got \in Token \cup {NoToken}
    PROVE  /\ Moved(pass[w], place) \in Pass /\ Given(pass[w], place, got) \in Pass
           /\ Moved(pass[w], place) # Idle /\ Given(pass[w], place, got) # Idle
           /\ Moved(pass[w], place).at = place /\ Given(pass[w], place, got).at = place
           /\ Moved(pass[w], place).got = pass[w].got
           /\ Given(pass[w], place, got).got = got
<1>1. pass[w] \in Pass
  BY RunningPass
<1>2. Moved(pass[w], place) \in Pass /\ Given(pass[w], place, got) \in Pass
  BY <1>1 DEF Pass, Moved, Given
<1>3. /\ Moved(pass[w], place).at = place /\ Given(pass[w], place, got).at = place
      /\ Moved(pass[w], place).got = pass[w].got
      /\ Given(pass[w], place, got).got = got
  BY <1>1 DEF Pass, Moved, Given
<1>4. \A p \in Pass : p # Idle
  BY DEF Pass, Idle
<1> QED
  BY <1>2, <1>3, <1>4

\* GoOn moves one worker and leaves what it holds.
LEMMA GoOnGoes ==
    ASSUME TypeOK, NEW w \in Workers, NEW place, GoOn(w, place)
    PROVE  Goes(w, Moved(pass[w], place))
  BY DEF GoOn, Goes, TypeOK, Moved

\* A worker begins a pass.
LEMMA BeginTypeInv ==
    ASSUME TypeInv, NEW w \in Workers, NEW t \in Tenants, Begin(w, t)
    PROVE  TypeInv'
<1> DEFINE p == [at |-> "token", tenant |-> t, age |-> 0, got |-> NoToken]
<1>1. p \in Pass
  BY AuthenticationAssumption DEF Pass
<1>2. Goes(w, p) /\ p.at = "token" /\ p # Idle
  BY DEF Begin, Goes, Idle
<1>3. lock' = lock \ {w}
  BY NotHolding DEF Begin, TypeInv, At
<1>4. crossed' \in BOOLEAN /\ creds' \in Owners /\ cache' \in [Tenants -> Entry \cup {NoEntry}]
  BY DEF Begin, TypeInv, TypeOK
<1> HIDE DEF p
<1> QED
  BY <1>1, <1>2, <1>3, <1>4, MoveTypeInv DEF Begin

\* A cached token is taken.
LEMMA UseActiveTokenTypeInv ==
    ASSUME TypeInv, NEW w \in Workers, UseActiveToken(w)
    PROVE  TypeInv'
<1> DEFINE entry == cache[pass[w].tenant]
           got == [owner |-> entry.owner, left |-> entry.left]
           p == Given(pass[w], "set", got)
<1>1. Running(w) /\ pass[w] \in Pass
  BY RunningPass DEF UseActiveToken, At, TypeInv
<1>2. entry \in Entry
  BY <1>1 DEF UseActiveToken, Active, TypeInv, TypeOK, Pass
<1>3. got \in Token
  BY <1>2 DEF Entry, Token
<1>4. Goes(w, p)
  BY DEF UseActiveToken, Goes, TypeInv, TypeOK, Given
<1>5. p \in Pass /\ p # Idle /\ p.at = "set" /\ p.got = got
  BY <1>1, <1>3, PassAt DEF TypeInv
<1>6. lock' = lock \ {w}
  BY NotHolding DEF UseActiveToken, TypeInv, At
<1>7. crossed' \in BOOLEAN /\ creds' \in Owners /\ cache' \in [Tenants -> Entry \cup {NoEntry}]
  BY DEF UseActiveToken, TypeInv, TypeOK
<1> HIDE DEF p, got
<1> QED
  BY <1>3, <1>4, <1>5, <1>6, <1>7, MoveTypeInv DEF UseActiveToken

\* No cached token is active.
LEMMA NoActiveTokenTypeInv ==
    ASSUME TypeInv, NEW w \in Workers, NoActiveToken(w)
    PROVE  TypeInv'
<1> DEFINE place == IF vault THEN "secret" ELSE "login"
           p == Moved(pass[w], place)
<1>1. place \in {"secret", "login"} /\ (place = "secret" => vault)
  OBVIOUS
<1>2. Running(w) /\ Goes(w, p)
  BY GoOnGoes DEF NoActiveToken, At, TypeInv
<1> HIDE DEF place
<1>3. p \in Pass /\ p # Idle /\ p.at = place
  BY <1>1, <1>2, PassAt DEF TypeInv
<1>4. lock' = lock \ {w}
  BY NotHolding DEF NoActiveToken, TypeInv, At
<1>5. crossed' \in BOOLEAN /\ creds' \in Owners /\ cache' \in [Tenants -> Entry \cup {NoEntry}]
  BY DEF NoActiveToken, TypeInv, TypeOK
<1> HIDE DEF p
<1> QED
  BY <1>1, <1>2, <1>3, <1>4, <1>5, MoveTypeInv DEF NoActiveToken

\* The credentials of a tenant are set.
LEMMA SetClientTypeInv ==
    ASSUME TypeInv, NEW w \in Workers, SetClientIdAndSecret(w)
    PROVE  TypeInv'
<1> DEFINE p == Moved(pass[w], "login")
<1>1. Running(w) /\ Goes(w, p) /\ pass[w] \in Pass
  BY GoOnGoes, RunningPass DEF SetClientIdAndSecret, At, TypeInv
<1>2. p \in Pass /\ p # Idle /\ p.at = "login"
  BY <1>1, PassAt DEF TypeInv
<1>3. lock' = lock \ {w}
  BY NotHolding DEF SetClientIdAndSecret, TypeInv, At
<1>4. crossed' \in BOOLEAN /\ creds' \in Owners /\ cache' \in [Tenants -> Entry \cup {NoEntry}]
  BY <1>1 DEF SetClientIdAndSecret, TypeInv, TypeOK, Owners, Pass
<1> HIDE DEF p
<1> QED
  BY <1>1, <1>2, <1>3, <1>4, MoveTypeInv DEF SetClientIdAndSecret

\* A pass that ends gives back the lock it may hold.
LEMMA EndTypeInv ==
    ASSUME TypeInv, NEW w \in Workers, End(w), lock' = lock \ {w},
           UNCHANGED <<vault, shared, creds, cache, crossed>>
    PROVE  TypeInv'
<1>1. Goes(w, Idle)
  BY DEF End, Goes
<1>2. crossed' \in BOOLEAN /\ creds' \in Owners /\ cache' \in [Tenants -> Entry \cup {NoEntry}]
  BY DEF TypeInv, TypeOK
<1> QED
  BY <1>1, <1>2, MoveTypeInv

\* The worker that waits for an answer is the one that holds the lock.
LEMMA HoldsLock ==
    ASSUME TypeOK, NEW w \in Workers, At(w, "reply")
    PROVE  lock \ {w} = {}
  BY DEF TypeOK

\* A login takes the lock, which nobody held.
LEMMA LogInTypeInv ==
    ASSUME TypeInv, NEW w \in Workers, LogIn(w)
    PROVE  TypeInv'
<1> DEFINE got == [owner |-> creds, left |-> Life]
           p == Given(pass[w], "reply", got)
<1>1. Running(w) /\ got \in Token
  BY AuthenticationAssumption DEF LogIn, At, TypeInv, TypeOK, Token
<1>2. p \in Pass /\ p # Idle /\ p.at = "reply" /\ p.got = got
  BY <1>1, PassAt DEF TypeInv
<1>3. \A u \in Workers : pass'[u] = IF u = w THEN p ELSE pass[u]
  BY DEF LogIn, TypeInv, TypeOK, Given
<1>4. pass' \in [Workers -> Pass \cup {Idle}]
  BY <1>2 DEF LogIn, TypeInv, TypeOK, Given
<1> HIDE DEF p, got
<1>5. lock' = {u \in Workers : At(u, "reply")}'
  BY <1>2, <1>3 DEF LogIn, TypeInv, TypeOK, At, Running
<1>6. \A u, v \in lock' : u = v
  BY DEF LogIn
<1>7. TypeOK'
  BY <1>4, <1>5, <1>6 DEF LogIn, TypeInv, TypeOK
<1>8. Holding'
  BY <1>1, <1>2, <1>3 DEF LogIn, TypeInv, Holding, At, Running
<1> QED
  BY <1>7, <1>8 DEF TypeInv

\* A login's answer is cached, and the lock is free.
LEMMA LogInSucceedsTypeInv ==
    ASSUME TypeInv, NEW w \in Workers, LogInSucceeds(w)
    PROVE  TypeInv'
<1> DEFINE p == Moved(pass[w], "set")
<1>1. Running(w) /\ Goes(w, p) /\ pass[w] \in Pass /\ pass[w].got \in Token
  BY GoOnGoes, RunningPass DEF LogInSucceeds, At, TypeInv, Holding
<1>2. p \in Pass /\ p # Idle /\ p.at = "set" /\ p.got = pass[w].got
  BY <1>1, PassAt DEF TypeInv
<1>3. lock' = lock \ {w}
  BY HoldsLock DEF LogInSucceeds, TypeInv
<1>4. [owner |-> pass[w].got.owner, left |-> pass[w].got.left, believed |-> Life] \in Entry
  BY <1>1, AuthenticationAssumption DEF Token, Entry
<1>5. cache' \in [Tenants -> Entry \cup {NoEntry}]
  BY <1>4 DEF LogInSucceeds, TypeInv, TypeOK
<1>6. crossed' \in BOOLEAN /\ creds' \in Owners
  BY DEF LogInSucceeds, TypeInv, TypeOK
<1> HIDE DEF p
<1> QED
  BY <1>1, <1>2, <1>3, <1>5, <1>6, MoveTypeInv DEF LogInSucceeds

\* The shared client gets the token.
LEMMA SetAPITokenTypeInv ==
    ASSUME TypeInv, NEW w \in Workers, SetAPIToken(w)
    PROVE  TypeInv'
<1> DEFINE p == Given(pass[w], "call", NoToken)
<1>1. Running(w) /\ Goes(w, p) /\ pass[w].got \in Token
  BY DEF SetAPIToken, Goes, At, TypeInv, TypeOK, Holding, Given
<1>2. p \in Pass /\ p # Idle /\ p.at = "call"
  BY <1>1, PassAt DEF TypeInv
<1>3. lock' = lock \ {w}
  BY NotHolding DEF SetAPIToken, TypeInv, At
<1>4. crossed' \in BOOLEAN /\ creds' \in Owners /\ cache' \in [Tenants -> Entry \cup {NoEntry}]
  BY DEF SetAPIToken, TypeInv, TypeOK
<1> HIDE DEF p
<1> QED
  BY <1>1, <1>2, <1>3, <1>4, MoveTypeInv DEF SetAPIToken

\* Aged tokens and entries are tokens and entries.
LEMMA OlderTypes ==
    /\ \A token \in Token : Older(token) \in Token
    /\ Older(NoToken) = NoToken
    /\ \A entry \in Entry \cup {NoEntry} : OlderEntry(entry) \in Entry \cup {NoEntry}
<1>1. \A n \in 0..Life : Less(n) \in 0..Life
  BY AuthenticationAssumption DEF Less
<1>2. \A token \in Token : token # NoToken /\ Older(token) \in Token
  BY <1>1 DEF Older, Token, NoToken
<1>3. \A entry \in Entry : [entry EXCEPT !.left = Less(@), !.believed = Less(@)] \in Entry
  BY <1>1 DEF Entry
<1> QED
  BY <1>2, <1>3 DEF Older, OlderEntry

\* Tokens grow older.
LEMMA TickTypeInv ==
    ASSUME TypeInv, Tick
    PROVE  TypeInv'
<1>1. \A w \in Workers :
         /\ Running(w) => /\ pass'[w] = [pass[w] EXCEPT !.age = @ + 1, !.got = Older(@)]
                          /\ pass'[w] \in Pass
                          /\ pass'[w].at = pass[w].at
                          /\ pass'[w].got = Older(pass[w].got)
         /\ ~Running(w) => pass'[w] = Idle
  <2> SUFFICES ASSUME NEW w \in Workers, Running(w)
               PROVE  /\ pass'[w] = [pass[w] EXCEPT !.age = @ + 1, !.got = Older(@)]
                      /\ pass'[w] \in Pass
                      /\ pass'[w].at = pass[w].at
                      /\ pass'[w].got = Older(pass[w].got)
    BY DEF Tick
  <2>1. pass'[w] = [pass[w] EXCEPT !.age = @ + 1, !.got = Older(@)]
    BY DEF Tick
  <2>2. pass[w] \in Pass
    BY RunningPass DEF TypeInv
  <2>3. Older(pass[w].got) \in Token \cup {NoToken}
    BY <2>2, OlderTypes DEF Pass
  <2>4. pass[w].age + 1 \in 0..MaxPass
    <3>1. pass[w].age \in 0..MaxPass /\ MaxPass \in Nat
      BY <2>2, AuthenticationAssumption DEF Pass
    <3>2. pass[w].age < MaxPass
      BY DEF Tick
    <3> QED
      BY <3>1, <3>2
  <2> QED
    BY <2>1, <2>2, <2>3, <2>4 DEF Pass
<1>2. \A w \in Workers : pass'[w] = Idle <=> pass[w] = Idle
  BY <1>1 DEF Pass, Idle, Running
<1>3. \A w \in Workers, place \in {"secret", "reply", "set", "call"} :
         At(w, place)' <=> At(w, place)
  BY <1>1, <1>2 DEF At, Running
<1>4. pass' \in [Workers -> Pass \cup {Idle}]
  BY <1>1 DEF Tick
<1>5. shared' \in Token \cup {NoToken} /\ (shared \in Token => shared' \in Token)
  BY OlderTypes DEF Tick, TypeInv, TypeOK
<1>6. cache' \in [Tenants -> Entry \cup {NoEntry}]
  BY OlderTypes DEF Tick, TypeInv, TypeOK
<1>7. lock' = {w \in Workers : At(w, "reply")}' /\ \A u, v \in lock' : u = v
  BY <1>3 DEF Tick, TypeInv, TypeOK
<1>8. TypeOK'
  BY <1>4, <1>5, <1>6, <1>7 DEF Tick, TypeInv, TypeOK
<1>9. ASSUME NEW w \in Workers
      PROVE  /\ At(w, "secret")' => vault'
             /\ At(w, "reply")' => pass'[w].got \in Token
             /\ At(w, "set")' => pass'[w].got \in Token
             /\ At(w, "call")' => shared' \in Token
  <2>1. /\ At(w, "reply") => pass[w].got \in Token
        /\ At(w, "set") => pass[w].got \in Token
        /\ At(w, "call") => shared \in Token
        /\ At(w, "secret") => vault
    BY DEF TypeInv, Holding
  <2>2. At(w, "reply") \/ At(w, "set") => pass'[w].got \in Token
    BY <1>1, <2>1, OlderTypes DEF At
  <2> QED
    BY <1>3, <1>5, <2>1, <2>2 DEF Tick
<1>10. Holding'
  BY <1>9 DEF Holding
<1> QED
  BY <1>8, <1>10 DEF TypeInv

\* Every step preserves the types and the meaning of the lock.
LEMMA NextTypeInv == TypeInv /\ [Next]_vars => TypeInv'
<1> SUFFICES ASSUME TypeInv, [Next]_vars PROVE TypeInv'
  OBVIOUS
<1>1. CASE Tick
  BY <1>1, TickTypeInv
<1>2. ASSUME NEW w \in Workers, NEW t \in Tenants, Begin(w, t) PROVE TypeInv'
  BY <1>2, BeginTypeInv
<1>3. ASSUME NEW w \in Workers, Step(w) PROVE TypeInv'
  <2>1. CASE GetSecretFails(w) \/ Finish(w)
    BY <2>1, NotHolding, EndTypeInv DEF GetSecretFails, Finish, TypeInv, At
  <2>2. CASE LogInFails(w)
    BY <2>2, HoldsLock, EndTypeInv DEF LogInFails, TypeInv
  <2> QED
    BY <1>3, <2>1, <2>2, UseActiveTokenTypeInv, NoActiveTokenTypeInv, SetClientTypeInv,
       LogInTypeInv, LogInSucceedsTypeInv, SetAPITokenTypeInv DEF Step
<1>4. CASE UNCHANGED vars
  BY <1>4 DEF vars, TypeInv, TypeOK, Holding, At, Running
<1> QED
  BY <1>1, <1>2, <1>3, <1>4 DEF Next

\* The variables keep their types, and the lock is held by the one worker whose login
\* is under way.
THEOREM TypeCorrect == Spec => []TypeOK
<1>1. TypeInv => TypeOK
  BY DEF TypeInv
<1> QED
  BY InitTypeInv, NextTypeInv, <1>1, PTL DEF Spec

-----------------------------------------------------------------------------
(* The owner of the token. *)

\* Credentials, cached tokens and tokens in hand belong to whom they are used for, as
\* long as passes for different tenants have not met.
OwnInv ==
    (vault => ~crossed) =>
        /\ ~vault => creds = Static
        /\ vault => \A u, w \in Workers :
                      Running(u) /\ Running(w) => pass[u].tenant = pass[w].tenant
        /\ \A t \in Tenants : cache[t] # NoEntry => cache[t].owner = OwnerFor(t)
        /\ \A w \in Workers :
             /\ At(w, "login") => creds = OwnerFor(pass[w].tenant)
             /\ At(w, "reply") => pass[w].got.owner = OwnerFor(pass[w].tenant)
             /\ At(w, "set") => pass[w].got.owner = OwnerFor(pass[w].tenant)
             /\ At(w, "call") => shared.owner = OwnerFor(pass[w].tenant)

\* A pass keeps its tenant and its age from place to place.
LEMMA PassKeeps ==
    ASSUME TypeOK, NEW w \in Workers, Running(w), NEW place, NEW got
    PROVE  /\ Moved(pass[w], place).tenant = pass[w].tenant
           /\ Moved(pass[w], place).age = pass[w].age
           /\ Given(pass[w], place, got).tenant = pass[w].tenant
           /\ Given(pass[w], place, got).age = pass[w].age
           /\ pass[w].tenant \in Tenants /\ pass[w].age \in 0..MaxPass
  BY RunningPass DEF Pass, Moved, Given

\* What each step of worker w does to its own pass, and to nobody else's.
LEMMA StepMoves ==
    ASSUME TypeInv, NEW w \in Workers
    PROVE  /\ NoActiveToken(w) =>
                /\ Goes(w, Moved(pass[w], "secret")) \/ Goes(w, Moved(pass[w], "login"))
                /\ vault => Goes(w, Moved(pass[w], "secret"))
           /\ SetClientIdAndSecret(w) => Goes(w, Moved(pass[w], "login"))
           /\ LogInSucceeds(w) => Goes(w, Moved(pass[w], "set"))
           /\ LogIn(w) =>
                Goes(w, Given(pass[w], "reply", [owner |-> creds, left |-> Life]))
           /\ UseActiveToken(w) =>
                Goes(w, Given(pass[w], "set", [owner |-> cache[pass[w].tenant].owner,
                                               left  |-> cache[pass[w].tenant].left]))
           /\ SetAPIToken(w) => Goes(w, Given(pass[w], "call", NoToken))
           /\ GetSecretFails(w) \/ LogInFails(w) \/ Finish(w) => Goes(w, Idle)
<1>1. NoActiveToken(w) =>
        /\ Goes(w, Moved(pass[w], "secret")) \/ Goes(w, Moved(pass[w], "login"))
        /\ vault => Goes(w, Moved(pass[w], "secret"))
  BY GoOnGoes DEF NoActiveToken, TypeInv
<1>2. SetClientIdAndSecret(w) => Goes(w, Moved(pass[w], "login"))
  BY GoOnGoes DEF SetClientIdAndSecret, TypeInv
<1>3. LogInSucceeds(w) => Goes(w, Moved(pass[w], "set"))
  BY GoOnGoes DEF LogInSucceeds, TypeInv
<1>4. LogIn(w) => Goes(w, Given(pass[w], "reply", [owner |-> creds, left |-> Life]))
  BY DEF LogIn, Goes, Given, TypeInv, TypeOK
<1>5. UseActiveToken(w) =>
        Goes(w, Given(pass[w], "set", [owner |-> cache[pass[w].tenant].owner,
                                       left  |-> cache[pass[w].tenant].left]))
  BY DEF UseActiveToken, Goes, Given, TypeInv, TypeOK
<1>6. SetAPIToken(w) => Goes(w, Given(pass[w], "call", NoToken))
  BY DEF SetAPIToken, Goes, Given, TypeInv, TypeOK
<1>7. GetSecretFails(w) \/ LogInFails(w) \/ Finish(w) => Goes(w, Idle)
  BY DEF GetSecretFails, LogInFails, Finish, End, Goes
<1> QED
  BY <1>1, <1>2, <1>3, <1>4, <1>5, <1>6, <1>7

\* The function a move makes.
LEMMA GoesTo ==
    ASSUME TypeOK, NEW w \in Workers, NEW p, Goes(w, p)
    PROVE  \A u \in Workers : pass'[u] = IF u = w THEN p ELSE pass[u]
  BY DEF Goes, TypeOK

\* At first nobody runs, and there is no token.
LEMMA InitOwnInv == Init => OwnInv
  BY DEF Init, OwnInv, At, Running, OwnerFor

\* Moves that hand nothing on.
LEMMA QuietOwnInv ==
    ASSUME TypeInv, OwnInv, NEW w \in Workers, NEW p, Goes(w, p),
           p = Idle \/ (Running(w) /\ p.tenant = pass[w].tenant /\ p.at \in {"secret", "login"}),
           p # Idle /\ p.at = "login" => creds' = OwnerFor(p.tenant),
           UNCHANGED <<vault, shared, cache, crossed>>,
           creds' = creds \/ (vault /\ creds' = OwnerFor(pass[w].tenant) /\ Running(w))
    PROVE  OwnInv'
<1>1. \A u \in Workers : pass'[u] = IF u = w THEN p ELSE pass[u]
  BY GoesTo DEF TypeInv
<1> QED
  BY <1>1 DEF OwnInv, At, Running, OwnerFor

\* Moves with a token: a login, its answer, a token from the cache, and SetAPIToken.
LEMMA TokenOwnInv ==
    ASSUME TypeInv, OwnInv, NEW w \in Workers, NEW p, Goes(w, p), Running(w),
           p.tenant = pass[w].tenant, p.at \in {"reply", "set", "call"},
           UNCHANGED <<vault, creds, crossed>>,
           (vault => ~crossed) =>
               /\ p.at # "call" => p.got.owner = OwnerFor(p.tenant)
               /\ \A t \in Tenants : cache'[t] # NoEntry => cache'[t].owner = OwnerFor(t)
               /\ p.at # "call" => shared' = shared
               /\ p.at = "call" => shared'.owner = OwnerFor(p.tenant)
    PROVE  OwnInv'
<1> SUFFICES ASSUME vault => ~crossed
             PROVE  /\ ~vault => creds = Static
                    /\ vault => \A u, v \in Workers :
                          Running(u)' /\ Running(v)' => pass'[u].tenant = pass'[v].tenant
                    /\ \A t \in Tenants : cache'[t] # NoEntry => cache'[t].owner = OwnerFor(t)
                    /\ \A u \in Workers :
                         /\ At(u, "login")' => creds = OwnerFor(pass'[u].tenant)
                         /\ At(u, "reply")' => pass'[u].got.owner = OwnerFor(pass'[u].tenant)
                         /\ At(u, "set")' => pass'[u].got.owner = OwnerFor(pass'[u].tenant)
                         /\ At(u, "call")' => shared'.owner = OwnerFor(pass'[u].tenant)
  BY DEF OwnInv, OwnerFor
<1>1. \A u \in Workers : pass'[u] = IF u = w THEN p ELSE pass[u]
  BY GoesTo DEF TypeInv
<1>2. \A u \in Workers : Running(u)' => Running(u)
  BY <1>1 DEF Running
<1>3. \A u \in Workers : pass'[u].tenant = pass[u].tenant
  BY <1>1
<1>4. vault => \A u \in Workers : Running(u) => pass[u].tenant = pass[w].tenant
  BY DEF OwnInv
<1>5. vault => \A u, v \in Workers :
         Running(u)' /\ Running(v)' => pass'[u].tenant = pass'[v].tenant
  BY <1>2, <1>3, <1>4
<1>6. ~vault => creds = Static
  BY DEF OwnInv
<1>7. ASSUME NEW u \in Workers
      PROVE  /\ At(u, "login")' => creds = OwnerFor(pass'[u].tenant)
             /\ At(u, "reply")' => pass'[u].got.owner = OwnerFor(pass'[u].tenant)
             /\ At(u, "set")' => pass'[u].got.owner = OwnerFor(pass'[u].tenant)
  BY <1>1 DEF At, Running, OwnInv
<1>8. ASSUME NEW u \in Workers, At(u, "call")'
      PROVE  shared'.owner = OwnerFor(pass'[u].tenant)
  <2>1. Running(u) /\ pass'[u].tenant = pass[u].tenant
    BY <1>2, <1>3, <1>8 DEF At
  <2>2. vault => pass[u].tenant = p.tenant
    BY <1>4, <2>1
  <2>3. OwnerFor(pass'[u].tenant) = OwnerFor(p.tenant)
    BY <2>1, <2>2 DEF OwnerFor
  <2>4. CASE p.at = "call"
    BY <2>3, <2>4
  <2>5. CASE p.at # "call"
    <3>1. u # w
      BY <1>1, <1>8, <2>5 DEF At
    <3>2. At(u, "call")
      BY <1>1, <1>8, <3>1 DEF At, Running
    <3> QED
      BY <2>1, <2>5, <3>2 DEF OwnInv
  <2> QED
    BY <2>4, <2>5
<1> QED
  BY <1>5, <1>6, <1>7, <1>8

\* While passes do not cross, or without vault, every step preserves who owns what.
LEMMA NextOwnInv == TypeInv /\ OwnInv /\ [Next]_vars => OwnInv'
<1> SUFFICES ASSUME TypeInv, OwnInv, [Next]_vars PROVE OwnInv'
  OBVIOUS
<1>1. CASE Tick
  <2>1. \A w \in Workers :
          /\ Running(w)' <=> Running(w)
          /\ Running(w) => /\ pass'[w].at = pass[w].at
                           /\ pass'[w].tenant = pass[w].tenant
                           /\ pass'[w].got = Older(pass[w].got)
    <3> SUFFICES ASSUME NEW w \in Workers, Running(w)
                 PROVE  /\ Running(w)'
                        /\ pass'[w].at = pass[w].at
                        /\ pass'[w].tenant = pass[w].tenant
                        /\ pass'[w].got = Older(pass[w].got)
      BY <1>1 DEF Tick, Running
    <3>1. pass[w] \in Pass
      BY RunningPass DEF TypeInv
    <3>2. pass'[w] = [pass[w] EXCEPT !.age = @ + 1, !.got = Older(@)]
      BY <1>1 DEF Tick
    <3>3. pass'[w].at = pass[w].at /\ pass'[w].at # "idle"
      BY <3>1, <3>2 DEF Pass
    <3> QED
      BY <3>1, <3>2, <3>3 DEF Pass, Running, Idle
  <2>2. \A token \in Token : Older(token).owner = token.owner
    BY DEF Older, Token, NoToken
  <2>3. \A entry \in Entry \cup {NoEntry} :
          OlderEntry(entry) # NoEntry =>
            entry # NoEntry /\ OlderEntry(entry).owner = entry.owner
    BY DEF OlderEntry, Entry
  <2>4. ASSUME OwnInv, vault => ~crossed, NEW t \in Tenants, cache'[t] # NoEntry
        PROVE  cache'[t].owner = OwnerFor(t)
    BY <1>1, <2>3, <2>4 DEF Tick, OwnInv, TypeInv, TypeOK
  <2>5. ASSUME vault => ~crossed, NEW w \in Workers
        PROVE  /\ At(w, "login")' => creds = OwnerFor(pass'[w].tenant)
               /\ At(w, "reply")' => pass'[w].got.owner = OwnerFor(pass'[w].tenant)
               /\ At(w, "set")' => pass'[w].got.owner = OwnerFor(pass'[w].tenant)
               /\ At(w, "call")' => shared'.owner = OwnerFor(pass'[w].tenant)
    <3>1. Holding /\ shared' = Older(shared)
      BY <1>1 DEF Tick, TypeInv
    <3> QED
      BY <2>1, <2>2, <2>5, <3>1 DEF OwnInv, Holding, At
  <2>6. UNCHANGED <<vault, creds, crossed>>
    BY <1>1 DEF Tick
  <2>7. ASSUME vault => ~crossed
        PROVE  /\ ~vault => creds = Static
               /\ vault => \A u, w \in Workers :
                     Running(u)' /\ Running(w)' => pass'[u].tenant = pass'[w].tenant
    BY <2>1, <2>7 DEF OwnInv
  <2> QED
    BY <2>4, <2>5, <2>6, <2>7 DEF OwnInv, OwnerFor
<1>2. ASSUME NEW w \in Workers, NEW t \in Tenants, Begin(w, t) PROVE OwnInv'
  <2> DEFINE p == [at |-> "token", tenant |-> t, age |-> 0, got |-> NoToken]
  <2>1. Goes(w, p) /\ p.tenant = t /\ p.at = "token"
    BY <1>2 DEF Begin, Goes
  <2> HIDE DEF p
  <2>2. \A u \in Workers : pass'[u] = IF u = w THEN p ELSE pass[u]
    BY <2>1, GoesTo DEF TypeInv
  <2>3. crossed' = FALSE => \A u \in Workers : Running(u) => pass[u].tenant = t
    BY <1>2 DEF Begin
  <2>4. crossed' \in BOOLEAN
    BY <1>2 DEF Begin, TypeInv, TypeOK
  <2>5. (vault' => ~crossed') => (vault => ~crossed)
    BY <1>2 DEF Begin
  <2> QED
    BY <1>2, <2>1, <2>2, <2>3, <2>4, <2>5 DEF Begin, OwnInv, At, Running, OwnerFor
<1>3. ASSUME NEW w \in Workers, Step(w) PROVE OwnInv'
  <2>1. CASE GetSecretFails(w) \/ LogInFails(w) \/ Finish(w)
    BY <2>1, StepMoves, QuietOwnInv DEF GetSecretFails, LogInFails, Finish
  <2>2. CASE NoActiveToken(w)
    <3>1. Running(w)
      BY <2>2 DEF NoActiveToken, At
    <3>2. /\ Moved(pass[w], "secret").tenant = pass[w].tenant
          /\ Moved(pass[w], "login").tenant = pass[w].tenant
          /\ Moved(pass[w], "secret").at = "secret" /\ Moved(pass[w], "login").at = "login"
      BY <3>1, PassKeeps, PassAt DEF TypeInv
    <3>3. CASE vault
      BY <2>2, <3>1, <3>2, <3>3, StepMoves, QuietOwnInv DEF NoActiveToken
    <3>4. CASE ~vault
      <4>1. creds = OwnerFor(pass[w].tenant)
        BY <3>4 DEF OwnInv, OwnerFor
      <4> QED
        BY <2>2, <3>1, <3>2, <4>1, StepMoves, QuietOwnInv DEF NoActiveToken
    <3> QED
      BY <3>3, <3>4
  <2>3. CASE SetClientIdAndSecret(w)
    <3>1. Running(w) /\ vault
      BY <2>3 DEF SetClientIdAndSecret, At, TypeInv, Holding
    <3>2. Moved(pass[w], "login").tenant = pass[w].tenant /\ Moved(pass[w], "login").at = "login"
      BY <3>1, PassKeeps, PassAt DEF TypeInv
    <3>3. creds' = OwnerFor(pass[w].tenant)
      BY <2>3, <3>1 DEF SetClientIdAndSecret, OwnerFor
    <3> QED
      BY <2>3, <3>1, <3>2, <3>3, StepMoves, QuietOwnInv DEF SetClientIdAndSecret
  <2>4. CASE UseActiveToken(w)
    <3> DEFINE got == [owner |-> cache[pass[w].tenant].owner,
                       left  |-> cache[pass[w].tenant].left]
               p == Given(pass[w], "set", got)
    <3>1. Running(w) /\ Goes(w, p) /\ cache[pass[w].tenant] # NoEntry
      BY <2>4, StepMoves DEF UseActiveToken, At, Active
    <3>2. cache[pass[w].tenant] \in Entry /\ pass[w].tenant \in Tenants
      BY <3>1, PassKeeps DEF TypeInv, TypeOK
    <3>3. got \in Token /\ got.owner = cache[pass[w].tenant].owner
      BY <3>2 DEF Entry, Token
    <3> HIDE DEF got
    <3>4. p.at = "set" /\ p.got = got /\ p.tenant = pass[w].tenant
      <4>1. p.at = "set" /\ p.got = got
        BY <3>1, <3>3, PassAt DEF TypeInv
      <4>2. p.tenant = pass[w].tenant
        BY <3>1, PassKeeps DEF TypeInv
      <4> QED
        BY <4>1, <4>2
    <3> HIDE DEF p
    <3>5. (vault => ~crossed) => p.got.owner = OwnerFor(p.tenant)
      BY <3>1, <3>2, <3>3, <3>4 DEF OwnInv
    <3> QED
      BY <2>4, <3>1, <3>4, <3>5, TokenOwnInv DEF UseActiveToken, OwnInv
  <2>5. CASE LogIn(w)
    <3> DEFINE got == [owner |-> creds, left |-> Life]
               p == Given(pass[w], "reply", got)
    <3>1. Running(w) /\ Goes(w, p)
      BY <2>5, StepMoves DEF LogIn, At
    <3>2. got \in Token /\ got.owner = creds
      BY AuthenticationAssumption DEF Token, TypeInv, TypeOK
    <3> HIDE DEF got
    <3>3. p.at = "reply" /\ p.got = got /\ p.tenant = pass[w].tenant
      <4>1. p.at = "reply" /\ p.got = got
        BY <3>1, <3>2, PassAt DEF TypeInv
      <4>2. p.tenant = pass[w].tenant
        BY <3>1, PassKeeps DEF TypeInv
      <4> QED
        BY <4>1, <4>2
    <3> HIDE DEF p
    <3>4. (vault => ~crossed) => p.got.owner = OwnerFor(p.tenant)
      BY <2>5, <3>2, <3>3 DEF LogIn, OwnInv
    <3> QED
      BY <2>5, <3>1, <3>3, <3>4, TokenOwnInv DEF LogIn, OwnInv
  <2>6. CASE LogInSucceeds(w)
    <3> DEFINE p == Moved(pass[w], "set")
    <3>1. Running(w) /\ Goes(w, p)
      BY <2>6, StepMoves DEF LogInSucceeds, At
    <3>2. p.at = "set" /\ p.got = pass[w].got /\ p.tenant = pass[w].tenant
      BY <3>1, PassAt, PassKeeps DEF TypeInv
    <3> HIDE DEF p
    <3>3. \A u \in Workers : pass'[u] = IF u = w THEN p ELSE pass[u]
      BY <3>1, GoesTo DEF TypeInv
    <3>4. \A t \in Tenants : cache'[t] =
            IF t = pass[w].tenant
            THEN [owner |-> pass[w].got.owner, left |-> pass[w].got.left, believed |-> Life]
            ELSE cache[t]
      BY <2>6 DEF LogInSucceeds, TypeInv, TypeOK
    <3>5. ASSUME vault => ~crossed, NEW t \in Tenants, cache'[t] # NoEntry
          PROVE  cache'[t].owner = OwnerFor(t)
      BY <2>6, <3>4, <3>5 DEF LogInSucceeds, OwnInv
    <3> QED
      BY <2>6, <3>1, <3>2, <3>3, <3>5 DEF LogInSucceeds, OwnInv, At, Running, OwnerFor
  <2>7. CASE SetAPIToken(w)
    <3> DEFINE p == Given(pass[w], "call", NoToken)
    <3>1. Running(w) /\ Goes(w, p)
      BY <2>7, StepMoves DEF SetAPIToken, At
    <3>2. p.at = "call" /\ p.tenant = pass[w].tenant
      <4>1. p.at = "call"
        BY <3>1, PassAt DEF TypeInv
      <4>2. p.tenant = pass[w].tenant
        BY <3>1, PassKeeps DEF TypeInv
      <4> QED
        BY <4>1, <4>2
    <3> HIDE DEF p
    <3>3. (vault => ~crossed) => shared'.owner = OwnerFor(p.tenant)
      BY <2>7, <3>2 DEF SetAPIToken, OwnInv
    <3> QED
      BY <2>7, <3>1, <3>2, <3>3, TokenOwnInv DEF SetAPIToken, OwnInv
  <2> QED
    BY <1>3, <2>1, <2>2, <2>3, <2>4, <2>5, <2>6, <2>7 DEF Step
<1>4. CASE UNCHANGED vars
  BY <1>4 DEF vars, OwnInv, At, Running, OwnerFor
<1> QED
  BY <1>1, <1>2, <1>3, <1>4 DEF Next

\* Requests carry a token of the right owner unless passes for different tenants have
\* crossed, for any number of controllers and tenants.
THEOREM OwnToken == Spec => []OwnTokenUnlessCrossed
<1>1. OwnInv => OwnTokenUnlessCrossed
  BY DEF OwnInv, OwnTokenUnlessCrossed
<1> QED
  BY InitTypeInv, NextTypeInv, InitOwnInv, NextOwnInv, <1>1, PTL DEF Spec

-----------------------------------------------------------------------------
(* The age of the token. *)

\* The premise of NoExpiredToken.
Short == 3 * MaxPass < Margin /\ 3 * MaxPass < Life

\* A token that is waited for has been issued in this pass; a cached one is believed in
\* too long by one pass at most; a token in hand, or in use, is good for the rest of
\* this pass and two or one more.
AgeInv ==
    Short =>
        /\ \A t \in Tenants :
             cache[t] # NoEntry => cache[t].believed <= cache[t].left + MaxPass
        /\ \A w \in Workers :
             /\ At(w, "reply") => Life <= pass[w].got.left + pass[w].age
             /\ At(w, "set") => 2 * MaxPass < pass[w].got.left + pass[w].age
             /\ At(w, "call") => MaxPass < shared.left + pass[w].age

\* At first there is no token to be old.
LEMMA InitAgeInv == Init => AgeInv
  BY DEF Init, AgeInv, At, Running

\* The numbers in tokens, entries and passes.
LEMMA Numbers ==
    ASSUME TypeInv
    PROVE  /\ Life \in Nat /\ Margin \in Nat /\ MaxPass \in Nat
           /\ \A t \in Tenants : cache[t] # NoEntry =>
                cache[t].believed \in Nat /\ cache[t].left \in Nat
           /\ \A w \in Workers :
                /\ Running(w) => pass[w].age \in 0..MaxPass /\ pass[w].tenant \in Tenants
                /\ At(w, "reply") \/ At(w, "set") => pass[w].got.left \in Nat
                /\ At(w, "call") => shared.left \in Nat
<1>1. Life \in Nat /\ Margin \in Nat /\ MaxPass \in Nat
  BY AuthenticationAssumption
<1>2. \A t \in Tenants : cache[t] # NoEntry =>
         cache[t].believed \in Nat /\ cache[t].left \in Nat
  BY DEF TypeInv, TypeOK, Entry
<1>3. \A w \in Workers : Running(w) => pass[w].age \in 0..MaxPass /\ pass[w].tenant \in Tenants
  BY RunningPass DEF TypeInv, Pass
<1>4. \A token \in Token : token.left \in Nat
  BY DEF Token
<1>5. \A w \in Workers : /\ At(w, "reply") \/ At(w, "set") => pass[w].got.left \in Nat
                         /\ At(w, "call") => shared.left \in Nat
  BY <1>4 DEF TypeInv, Holding
<1> QED
  BY <1>1, <1>2, <1>3, <1>5

\* Moves that leave the tokens where they are.
LEMMA QuietAgeInv ==
    ASSUME TypeInv, AgeInv, NEW w \in Workers, NEW p, Goes(w, p),
           p = Idle \/ p.at \in {"token", "secret", "login"},
           UNCHANGED <<shared, cache>>
    PROVE  AgeInv'
<1>1. \A u \in Workers : pass'[u] = IF u = w THEN p ELSE pass[u]
  BY GoesTo DEF TypeInv
<1> QED
  BY <1>1 DEF AgeInv, Short, At, Running

\* Moves with a token.
LEMMA TokenAgeInv ==
    ASSUME TypeInv, AgeInv, NEW w \in Workers, NEW p, Goes(w, p), Running(w),
           p.at \in {"reply", "set", "call"}, p.age = pass[w].age,
           Short =>
               /\ p.at = "reply" => Life <= p.got.left + p.age
               /\ p.at = "set" => 2 * MaxPass < p.got.left + p.age
               /\ p.at # "call" => shared' = shared
               /\ p.at = "call" => shared'.left \in Nat /\ MaxPass < shared'.left
               /\ \A t \in Tenants :
                    cache'[t] # NoEntry => cache'[t].believed <= cache'[t].left + MaxPass
    PROVE  AgeInv'
<1> SUFFICES ASSUME Short, NEW u \in Workers
             PROVE  /\ At(u, "reply")' => Life <= pass'[u].got.left + pass'[u].age
                    /\ At(u, "set")' => 2 * MaxPass < pass'[u].got.left + pass'[u].age
                    /\ At(u, "call")' => MaxPass < shared'.left + pass'[u].age
  BY DEF AgeInv, Short
<1>1. \A v \in Workers : pass'[v] = IF v = w THEN p ELSE pass[v]
  BY GoesTo DEF TypeInv
<1>2. /\ At(u, "reply")' => Life <= pass'[u].got.left + pass'[u].age
      /\ At(u, "set")' => 2 * MaxPass < pass'[u].got.left + pass'[u].age
  BY <1>1 DEF At, Running, AgeInv
<1>3. ASSUME At(u, "call")' PROVE MaxPass < shared'.left + pass'[u].age
  <2>1. pass'[u].age = pass[u].age
    BY <1>1
  <2>2. Running(u)
    BY <1>1, <1>3 DEF At, Running
  <2>3. pass[u].age \in Nat /\ MaxPass \in Nat
    BY <2>2, Numbers
  <2>4. CASE p.at = "call"
    BY <2>1, <2>3, <2>4
  <2>5. CASE p.at # "call"
    <3>1. At(u, "call")
      BY <1>1, <1>3, <2>5 DEF At, Running
    <3> QED
      BY <2>1, <2>5, <3>1 DEF AgeInv
  <2> QED
    BY <2>4, <2>5
<1> QED
  BY <1>2, <1>3

\* Less takes away one, if there is anything to take.
LEMMA LessIsLess ==
    ASSUME NEW n \in Nat
    PROVE  Less(n) \in Nat /\ n <= Less(n) + 1 /\ Less(n) <= n /\ (n > 0 => Less(n) + 1 = n)
  BY DEF Less

\* A tick takes one from what is left of a token and adds one to the age of every pass.
LEMMA TickAgeInv ==
    ASSUME TypeInv, AgeInv, Tick
    PROVE  AgeInv'
<1> SUFFICES ASSUME Short
             PROVE  /\ \A t \in Tenants :
                         cache'[t] # NoEntry => cache'[t].believed <= cache'[t].left + MaxPass
                    /\ \A w \in Workers :
                         /\ At(w, "reply")' => Life <= pass'[w].got.left + pass'[w].age
                         /\ At(w, "set")' => 2 * MaxPass < pass'[w].got.left + pass'[w].age
                         /\ At(w, "call")' => MaxPass < shared'.left + pass'[w].age
  BY DEF AgeInv, Short
<1>1. \A token \in Token : Older(token).left = Less(token.left)
  BY DEF Older, Token, NoToken
<1>2. ASSUME NEW t \in Tenants, cache'[t] # NoEntry
      PROVE  cache'[t].believed <= cache'[t].left + MaxPass
  <2>1. cache[t] # NoEntry /\ cache[t] \in Entry
    BY <1>2 DEF Tick, OlderEntry, TypeInv, TypeOK
  <2>2. /\ cache'[t].left = Less(cache[t].left)
        /\ cache'[t].believed = Less(cache[t].believed)
    BY <1>2, <2>1 DEF Tick, OlderEntry, Entry
  <2> DEFINE l == cache[t].left  b == cache[t].believed
  <2>3. l \in Nat /\ b \in Nat /\ MaxPass \in Nat /\ b <= l + MaxPass
    BY <2>1, Numbers DEF AgeInv
  <2>4. /\ Less(l) \in Nat /\ l <= Less(l) + 1 /\ Less(l) <= l /\ (l > 0 => Less(l) + 1 = l)
        /\ Less(b) \in Nat /\ b <= Less(b) + 1 /\ Less(b) <= b /\ (b > 0 => Less(b) + 1 = b)
    BY <2>3, LessIsLess
  <2> HIDE DEF l, b
  <2>5. Less(b) <= Less(l) + MaxPass
    BY <2>3, <2>4
  <2> QED
    BY <2>2, <2>5 DEF l, b
<1>3. ASSUME NEW w \in Workers, Running(w)
      PROVE  /\ pass'[w].at = pass[w].at
             /\ pass'[w].age = pass[w].age + 1
             /\ pass'[w].got = Older(pass[w].got)
             /\ pass[w].age < MaxPass
  <2>1. pass[w] \in Pass
    BY <1>3, RunningPass DEF TypeInv
  <2>2. pass'[w] = [pass[w] EXCEPT !.age = @ + 1, !.got = Older(@)]
    BY <1>3 DEF Tick
  <2>3. pass[w].age < MaxPass
    BY <1>3 DEF Tick
  <2> QED
    BY <2>1, <2>2, <2>3 DEF Pass
<1>4. \A w \in Workers : Running(w)' => Running(w)
  BY DEF Tick, Running
<1>5. ASSUME NEW w \in Workers
      PROVE  /\ At(w, "reply")' => Life <= pass'[w].got.left + pass'[w].age
             /\ At(w, "set")' => 2 * MaxPass < pass'[w].got.left + pass'[w].age
             /\ At(w, "call")' => MaxPass < shared'.left + pass'[w].age
  <2>1. CASE ~Running(w)
    BY <1>4, <2>1 DEF At
  <2>2. CASE Running(w)
    <3>1. \A place \in {"reply", "set", "call"} : At(w, place)' => At(w, place)
      BY <1>3, <2>2 DEF At
    <3>2. pass[w].age \in Nat /\ MaxPass \in Nat /\ Life \in Nat
      BY <2>2, Numbers
    <3>3. ASSUME At(w, "reply") \/ At(w, "set")
          PROVE  /\ pass[w].got.left \in Nat
                 /\ pass'[w].got.left = Less(pass[w].got.left)
      <4>1. pass[w].got \in Token
        BY <3>3 DEF TypeInv, Holding
      <4> QED
        BY <1>1, <1>3, <2>2, <3>3, <4>1, Numbers
    <3>4. ASSUME At(w, "call")
          PROVE  shared.left \in Nat /\ shared'.left = Less(shared.left)
      <4>1. shared \in Token
        BY <3>4 DEF TypeInv, Holding
      <4> QED
        BY <1>1, <3>4, <4>1, Numbers DEF Tick
    <3>5. At(w, "reply")' => Life <= pass'[w].got.left + pass'[w].age
      BY <1>3, <2>2, <3>1, <3>2, <3>3, LessIsLess DEF AgeInv
    <3>6. At(w, "set")' => 2 * MaxPass < pass'[w].got.left + pass'[w].age
      BY <1>3, <2>2, <3>1, <3>2, <3>3, LessIsLess DEF AgeInv
    <3>7. At(w, "call")' => MaxPass < shared'.left + pass'[w].age
      BY <1>3, <2>2, <3>1, <3>2, <3>4, LessIsLess DEF AgeInv
    <3> QED
      BY <3>5, <3>6, <3>7
  <2> QED
    BY <2>1, <2>2
<1> QED
  BY <1>2, <1>5

\* Every step preserves how long tokens still live.
LEMMA NextAgeInv == TypeInv /\ AgeInv /\ [Next]_vars => AgeInv'
<1> SUFFICES ASSUME TypeInv, AgeInv, [Next]_vars PROVE AgeInv'
  OBVIOUS
<1>1. CASE Tick
  BY <1>1, TickAgeInv
<1>2. ASSUME NEW w \in Workers, NEW t \in Tenants, Begin(w, t) PROVE AgeInv'
  <2> DEFINE p == [at |-> "token", tenant |-> t, age |-> 0, got |-> NoToken]
  <2>1. Goes(w, p) /\ p.at = "token"
    BY <1>2 DEF Begin, Goes
  <2> QED
    BY <1>2, <2>1, QuietAgeInv DEF Begin
<1>3. ASSUME NEW w \in Workers, Step(w) PROVE AgeInv'
  <2>0. Running(w)
    BY <1>3 DEF Step, UseActiveToken, NoActiveToken, SetClientIdAndSecret, GetSecretFails,
                LogIn, LogInSucceeds, LogInFails, SetAPIToken, Finish, At
  <2>1. CASE GetSecretFails(w) \/ LogInFails(w) \/ Finish(w)
    BY <2>1, StepMoves, QuietAgeInv DEF GetSecretFails, LogInFails, Finish
  <2>2. CASE NoActiveToken(w) \/ SetClientIdAndSecret(w)
    <3>1. Moved(pass[w], "secret").at = "secret" /\ Moved(pass[w], "login").at = "login"
      BY <2>0, PassAt DEF TypeInv
    <3>2. UNCHANGED <<shared, cache>>
      BY <2>2 DEF NoActiveToken, SetClientIdAndSecret
    <3> QED
      BY <2>2, <3>1, <3>2, StepMoves, QuietAgeInv
  <2>3. CASE UseActiveToken(w)
    <3> DEFINE got == [owner |-> cache[pass[w].tenant].owner,
                       left  |-> cache[pass[w].tenant].left]
               p == Given(pass[w], "set", got)
    <3>1. Goes(w, p) /\ Active(pass[w].tenant)
      BY <2>3, StepMoves DEF UseActiveToken
    <3>2. cache[pass[w].tenant] \in Entry /\ pass[w].tenant \in Tenants
      BY <2>0, <3>1, PassKeeps DEF Active, TypeInv, TypeOK
    <3>3. got \in Token /\ got.left = cache[pass[w].tenant].left
      BY <3>2 DEF Entry, Token
    <3>4. Short => 2 * MaxPass < got.left
      BY <3>1, <3>2, <3>3, Numbers DEF Active, IsExpired, Short, AgeInv
    <3> HIDE DEF got
    <3>5. p.at = "set" /\ p.got = got
      BY <2>0, <3>3, PassAt DEF TypeInv
    <3>6. p.age = pass[w].age /\ pass[w].age \in Nat
      BY <2>0, PassKeeps, Numbers DEF TypeInv
    <3>7. got.left \in Nat /\ MaxPass \in Nat
      BY <3>2, <3>3, Numbers DEF Token
    <3> HIDE DEF p
    <3>8. Short => 2 * MaxPass < p.got.left + p.age
      BY <3>4, <3>5, <3>6, <3>7
    <3> QED
      BY <2>0, <2>3, <3>1, <3>5, <3>6, <3>8, TokenAgeInv DEF UseActiveToken, AgeInv
  <2>4. CASE LogIn(w)
    <3> DEFINE got == [owner |-> creds, left |-> Life]
               p == Given(pass[w], "reply", got)
    <3>1. Goes(w, p)
      BY <2>4, StepMoves
    <3>2. got \in Token /\ got.left = Life /\ Life \in Nat
      BY AuthenticationAssumption DEF Token, TypeInv, TypeOK
    <3> HIDE DEF got
    <3>3. p.at = "reply" /\ p.got = got
      BY <2>0, <3>2, PassAt DEF TypeInv
    <3>4. p.age = pass[w].age /\ pass[w].age \in Nat
      BY <2>0, PassKeeps, Numbers DEF TypeInv
    <3> HIDE DEF p
    <3>5. Life <= p.got.left + p.age
      BY <3>2, <3>3, <3>4
    <3> QED
      BY <2>0, <2>4, <3>1, <3>3, <3>4, <3>5, TokenAgeInv DEF LogIn, AgeInv
  <2>5. CASE LogInSucceeds(w)
    <3> DEFINE p == Moved(pass[w], "set")
    <3>1. Goes(w, p) /\ At(w, "reply")
      BY <2>5, StepMoves DEF LogInSucceeds
    <3>2. p.at = "set" /\ p.got = pass[w].got
      BY <2>0, PassAt DEF TypeInv
    <3>3. p.age = pass[w].age
      BY <2>0, PassKeeps DEF TypeInv
    <3> HIDE DEF p
    <3>4. /\ pass[w].age \in Nat /\ pass[w].age <= MaxPass /\ MaxPass \in Nat /\ Life \in Nat
          /\ pass[w].got.left \in Nat
      BY <2>0, <3>1, Numbers
    <3>5. Short => Life <= pass[w].got.left + pass[w].age
      BY <3>1 DEF AgeInv
    <3>6. Short => 2 * MaxPass < p.got.left + p.age
      BY <3>2, <3>3, <3>4, <3>5 DEF Short
    <3>7. \A t \in Tenants : cache'[t] =
            IF t = pass[w].tenant
            THEN [owner |-> pass[w].got.owner, left |-> pass[w].got.left, believed |-> Life]
            ELSE cache[t]
      BY <2>5 DEF LogInSucceeds, TypeInv, TypeOK
    <3>8. Short => Life <= pass[w].got.left + MaxPass
      BY <3>4, <3>5
    <3>9. Short => \A t \in Tenants :
                     cache'[t] # NoEntry => cache'[t].believed <= cache'[t].left + MaxPass
      BY <3>7, <3>8 DEF AgeInv
    <3> QED
      BY <2>0, <2>5, <3>1, <3>2, <3>3, <3>6, <3>9, TokenAgeInv DEF LogInSucceeds
  <2>6. CASE SetAPIToken(w)
    <3> DEFINE p == Given(pass[w], "call", NoToken)
    <3>1. Goes(w, p) /\ At(w, "set") /\ shared' = pass[w].got
      BY <2>6, StepMoves DEF SetAPIToken
    <3>2. p.at = "call"
      BY <2>0, PassAt DEF TypeInv
    <3>3. p.age = pass[w].age
      BY <2>0, PassKeeps DEF TypeInv
    <3> HIDE DEF p
    <3>4. /\ pass[w].age \in Nat /\ pass[w].age <= MaxPass /\ MaxPass \in Nat
          /\ pass[w].got.left \in Nat
      BY <2>0, <3>1, Numbers
    <3>5. Short => MaxPass < shared'.left /\ shared'.left \in Nat
      BY <3>1, <3>4 DEF AgeInv
    <3> QED
      BY <2>0, <2>6, <3>1, <3>2, <3>3, <3>5, TokenAgeInv DEF SetAPIToken, AgeInv
  <2> QED
    BY <1>3, <2>1, <2>2, <2>3, <2>4, <2>5, <2>6 DEF Step
<1>4. CASE UNCHANGED vars
  BY <1>4 DEF vars, AgeInv, Short, At, Running
<1> QED
  BY <1>1, <1>2, <1>3, <1>4 DEF Next

\* While every pass takes less than a third of the safety margin and of a token's life,
\* no request carries an expired token, for any number of controllers and tenants.
THEOREM Unexpired == Spec => []NoExpiredToken
<1>1. TypeInv /\ AgeInv => NoExpiredToken
  <2> SUFFICES ASSUME TypeInv, AgeInv, Short, NEW w \in Workers, At(w, "call")
               PROVE  shared.left > 0
    BY DEF NoExpiredToken, Short
  <2>1. MaxPass < shared.left + pass[w].age
    BY DEF AgeInv
  <2>2. pass[w].age \in 0..MaxPass /\ shared.left \in Nat /\ MaxPass \in Nat
    BY Numbers DEF At
  <2> QED
    BY <2>1, <2>2
<1> QED
  BY InitTypeInv, NextTypeInv, InitAgeInv, NextAgeInv, <1>1, PTL DEF Spec
=============================================================================
