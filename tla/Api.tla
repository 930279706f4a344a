-------------------------------- MODULE Api ---------------------------------
(***************************************************************************)
(* The owner of an account: first contact, the API key, POST /v1/deposit   *)
(* with an Idempotency-Key.                                                *)
(*                                                                         *)
(* Requests run concurrently on several replicas: each authenticates       *)
(* through its replica's key cache, looks its idempotency key up, and      *)
(* otherwise creates the deposit and claims the key in one transaction.    *)
(* Meanwhile the owner's sessions create and rotate the API key, cached    *)
(* keys expire and old idempotency keys are pruned.  One user and one      *)
(* idempotency key; what a deposit becomes is DepositStore's.              *)
(***************************************************************************)
EXTENDS Integers, Sequences, FiniteSets

CONSTANTS
    Replicas,     \* processes of the service, each with its cache
    Requests,     \* create requests in flight
    Sessions,     \* account requests of the owner in flight
    Bodies,       \* request fingerprints
    MaxKeys,      \* bound: API keys the owner makes
    MaxPrunes,    \* bound: times the idempotency key is forgotten
    MaxFaults     \* bound: requests and sessions that fail half way

VARIABLES
    user,         \* whether the users row is there
    seen,         \* the replicas whose first_touch remembers the user
    key,          \* the user's row of api_keys; 0: none
    issued,       \* API keys made so far: 1..issued
    cache,        \* per replica: the keys its KeyCache holds
    session,      \* per session: step, replica, the key it replaces
    request,      \* per request: step, replica, API key, body
    idem,         \* the row of idempotency_keys
    deposits,     \* committed deposits: the body of each
    answers,      \* deposits answered with (201, 200) since the key was last forgotten
    budget        \* what is left of the bounds above

keyVars == <<user, seen, key, issued, cache, session>>
tableVars == <<idem, deposits>>
vars == <<keyVars, request, tableVars, answers, budget>>

ASSUME ApiAssumption ==
    /\ {MaxKeys, MaxPrunes, MaxFaults} \subseteq Nat
    /\ Bodies \subseteq Nat \ {0}

-----------------------------------------------------------------------------
NoRow == [body |-> 0, deposit |-> 0]

IdleRequest == [step |-> "idle", at |-> "none", key |-> 0, body |-> 0]
IdleSession == [step |-> "idle", at |-> "none", old |-> 0]

\* touch: the user is marked as seen, its row is not written yet; account: the
\* caller is authenticated and the handler runs.
SessionStep == {"idle", "touch", "account", "update", "invalidate"}

\* claimed: the key is inserted and the transaction is about to commit.
RequestStep == {"idle", "auth", "cache", "lookup", "insert", "claimed", "rolled_back"}

Spend(kind) ==
    /\ budget[kind] > 0
    /\ budget' = [budget EXCEPT ![kind] = @ - 1]

Goto(q, step) == request' = [request EXCEPT ![q].step = step]
Done(q) == request' = [request EXCEPT ![q] = IdleRequest]

\* From here on the user, not the API key, decides what a request does.
Authenticated(q) ==
    request' = [request EXCEPT ![q] = [IdleRequest EXCEPT !.step = "lookup"]]

TypeOK ==
    /\ user \in BOOLEAN /\ seen \subseteq Replicas
    /\ issued \in 0..MaxKeys /\ key \in 0..issued
    /\ cache \in [Replicas -> SUBSET (1..issued)]
    /\ session \in [Sessions -> [step: SessionStep,
                                 at: Replicas \cup {"none"}, old: 0..issued]]
    /\ request \in [Requests -> [step: RequestStep, at: Replicas \cup {"none"},
                                 key: 0..issued, body: Bodies \cup {0}]]
    /\ deposits \in Seq(Bodies)
    /\ idem \in {NoRow} \cup [body: Bodies, deposit: 1..Len(deposits)]
    /\ answers \subseteq [body: Bodies, deposit: 1..Len(deposits)]
    /\ budget \in [{"prunes", "faults"} -> Nat]

Init ==
    /\ user = FALSE /\ seen = {}
    /\ key = 0 /\ issued = 0
    /\ cache = [at \in Replicas |-> {}]
    /\ session = [s \in Sessions |-> IdleSession]
    /\ request = [q \in Requests |-> IdleRequest]
    /\ idem = NoRow /\ deposits = <<>> /\ answers = {}
    /\ budget = [prunes |-> MaxPrunes, faults |-> MaxFaults]

-----------------------------------------------------------------------------
(* A session: authenticate_privy                                           *)

\* first_touch marks the user as seen, and only who did that writes the row.
Contact(s, at) ==
    /\ session[s].step = "idle"
    /\ seen' = seen \cup {at}
    /\ session' = [session EXCEPT ![s] =
                    [step |-> IF at \in seen THEN "account" ELSE "touch", at |-> at, old |-> 0]]
    /\ UNCHANGED <<user, key, issued, cache, request, tableVars, answers, budget>>

\* INSERT INTO users .. ON CONFLICT DO UPDATE SET last_seen_at
EnsureUser(s) ==
    /\ session[s].step = "touch"
    /\ user' = TRUE
    /\ session' = [session EXCEPT ![s].step = "account"]
    /\ UNCHANGED <<seen, key, issued, cache, request, tableVars, answers, budget>>

\* Mutant: the marks are kept without a time_to_live.
SeenExpires_never(at) ==
    /\ at \in seen
    /\ UNCHANGED vars

\* `touched` has a time_to_live of a minute.
SeenExpires(at) ==
    /\ at \in seen
    /\ seen' = seen \ {at}
    /\ UNCHANGED <<user, key, issued, cache, session, request, tableVars, answers, budget>>

\* An account call that only reads, writes a column nothing here depends on, or
\* is refused: 404 without a user, 409 for a second key, 404 for a rotation
\* without one, a foreign key error for a key without a user.
AccountEnds(s) ==
    /\ session[s].step = "account"
    /\ session' = [session EXCEPT ![s] = IdleSession]
    /\ UNCHANGED <<user, seen, key, issued, cache, request, tableVars, answers, budget>>

-----------------------------------------------------------------------------
(* The owner's key: create_key and rotate_key                              *)

\* ON CONFLICT DO NOTHING, and the row references the user's.
CreateKey(s) ==
    /\ session[s].step = "account"
    /\ user /\ key = 0 /\ issued < MaxKeys
    /\ key' = issued + 1 /\ issued' = issued + 1
    /\ session' = [session EXCEPT ![s] = IdleSession]
    /\ UNCHANGED <<user, seen, cache, request, tableVars, answers, budget>>

\* The UPDATE's statement begins: `prev` is read in its snapshot, also when
\* the row lock is then waited for.
RotateBegins(s) ==
    /\ session[s].step = "account"
    /\ key # 0 /\ issued < MaxKeys
    /\ session' = [session EXCEPT ![s].step = "update", ![s].old = key]
    /\ UNCHANGED <<user, seen, key, issued, cache, request, tableVars, answers, budget>>

RotateCommits(s) ==
    /\ session[s].step = "update"
    /\ issued < MaxKeys
    /\ key' = issued + 1 /\ issued' = issued + 1
    /\ session' = [session EXCEPT ![s].step = "invalidate"]
    /\ UNCHANGED <<user, seen, cache, request, tableVars, answers, budget>>

RotateInvalidates(s) ==
    /\ session[s].step = "invalidate"
    /\ cache' = [cache EXCEPT ![session[s].at] = @ \ {session[s].old}]
    /\ session' = [session EXCEPT ![s] = IdleSession]
    /\ UNCHANGED <<user, seen, key, issued, request, tableVars, answers, budget>>

SessionFails(s) ==
    /\ session[s].step # "idle"
    /\ Spend("faults")
    /\ session' = [session EXCEPT ![s] = IdleSession]
    /\ UNCHANGED <<user, seen, key, issued, cache, request, tableVars, answers>>

\* time_to_live: api_keys.cache_ttl_secs after the insertion.
CacheExpires(at, k) ==
    /\ k \in cache[at]
    /\ cache' = [cache EXCEPT ![at] = @ \ {k}]
    /\ UNCHANGED <<user, seen, key, issued, session, request, tableVars, answers, budget>>

-----------------------------------------------------------------------------
(* A request: authenticate_api_key                                         *)

Arrive(q, at) ==
    /\ request[q].step = "idle"
    /\ \E k \in 1..issued :
        request' = [request EXCEPT ![q] =
                        [step |-> "auth", at |-> at, key |-> k, body |-> 0]]
    /\ UNCHANGED <<keyVars, tableVars, answers, budget>>

\* Mutant: a hit is inserted again.
Authenticate_refreshes(q) ==
    LET k == request[q].key
    IN  /\ request[q].step = "auth"
        /\ IF k \in cache[request[q].at] \/ k = key THEN Goto(q, "cache") ELSE Done(q)
        /\ UNCHANGED <<keyVars, tableVars, answers, budget>>

\* A hit goes on; a miss reads the table and, before it goes on, fills the
\* cache, after an await in which the key may be rotated.
Authenticate(q) ==
    LET k == request[q].key
    IN  /\ request[q].step = "auth"
        /\ IF k \in cache[request[q].at] THEN Authenticated(q)
           ELSE IF k = key THEN Goto(q, "cache") ELSE Done(q)
        /\ UNCHANGED <<keyVars, tableVars, answers, budget>>

FillCache(q) ==
    /\ request[q].step = "cache"
    /\ cache' = [cache EXCEPT ![request[q].at] = @ \cup {request[q].key}]
    /\ Authenticated(q)
    /\ UNCHANGED <<user, seen, key, issued, session, tableVars, answers, budget>>

-----------------------------------------------------------------------------
(* create_deposit                                                          *)

\* lookup_idempotent on a row that is there: a replay, or 409 for another body.
Replay(q, body) ==
    /\ answers' = IF idem.body = body THEN answers \cup {idem} ELSE answers
    /\ Done(q)
    /\ UNCHANGED <<keyVars, tableVars, budget>>

\* What the client sent is looked at for the first time.
Lookup(q) ==
    /\ request[q].step = "lookup"
    /\ idem # NoRow
    /\ \E body \in Bodies : Replay(q, body)

Begin(q) ==
    /\ request[q].step = "lookup"
    /\ idem = NoRow
    /\ \E body \in Bodies :
        request' = [request EXCEPT ![q].step = "insert", ![q].body = body]
    /\ UNCHANGED <<keyVars, tableVars, answers, budget>>

\* Mutants: the outcome of the INSERT is not looked at; the key is claimed
\* outside the deposit's transaction.
ClaimKey_unchecked(q) ==
    /\ request[q].step = "insert"
    /\ \A o \in Requests : request[o].step # "claimed"
    /\ Goto(q, "claimed")
    /\ UNCHANGED <<keyVars, tableVars, answers, budget>>
ClaimKey_outside(q) ==
    /\ request[q].step = "insert"
    /\ idem' = IF idem = NoRow THEN [body |-> request[q].body, deposit |-> Len(deposits) + 1] ELSE idem
    /\ Goto(q, IF idem = NoRow THEN "claimed" ELSE "rolled_back")
    /\ UNCHANGED <<keyVars, deposits, answers, budget>>

\* INSERT .. ON CONFLICT DO NOTHING waits for a transaction that has inserted
\* the key and not committed, then claims the key or finds it taken.
ClaimKey(q) ==
    /\ request[q].step = "insert"
    /\ \A o \in Requests : request[o].step # "claimed"
    /\ Goto(q, IF idem = NoRow THEN "claimed" ELSE "rolled_back")
    /\ UNCHANGED <<keyVars, tableVars, answers, budget>>

\* What a commit leaves in the tables.
Committed(q) ==
    /\ request[q].step = "claimed"
    /\ deposits' = Append(deposits, request[q].body)
    /\ idem' = [body |-> request[q].body, deposit |-> Len(deposits) + 1]
    /\ Done(q)

Commit(q) ==
    /\ Committed(q)
    /\ answers' = answers \cup {idem'}
    /\ UNCHANGED <<keyVars, budget>>

\* The loser answers with the winner's deposit; "idempotency row vanished" if
\* it was pruned in between.
LookupAgain(q) ==
    /\ request[q].step = "rolled_back"
    /\ \/ idem # NoRow /\ Replay(q, request[q].body)
       \/ idem = NoRow /\ Done(q) /\ UNCHANGED <<keyVars, tableVars, answers, budget>>

\* A rate limit, a failed validation, a database error, a client that leaves:
\* an open transaction is rolled back.
RequestFails(q) ==
    /\ request[q].step # "idle"
    /\ Spend("faults")
    /\ Done(q)
    /\ UNCHANGED <<keyVars, tableVars, answers>>

\* The commit goes through but its answer is lost; the client will try again.
AnswerLost(q) ==
    /\ Committed(q)
    /\ Spend("faults")
    /\ UNCHANGED <<keyVars, answers>>

\* prune, reconciler.idempotency_ttl_secs later.
Prune ==
    /\ idem # NoRow
    /\ Spend("prunes")
    /\ idem' = NoRow /\ answers' = {}
    /\ UNCHANGED <<keyVars, request, deposits>>

-----------------------------------------------------------------------------
SessionNext(s) ==
    \/ EnsureUser(s) \/ AccountEnds(s) \/ CreateKey(s)
    \/ RotateBegins(s) \/ RotateCommits(s) \/ RotateInvalidates(s) \/ SessionFails(s)
    \/ \E at \in Replicas : Contact(s, at)

RequestNext(q) ==
    \/ Authenticate(q) \/ FillCache(q) \/ Lookup(q) \/ Begin(q)
    \/ ClaimKey(q) \/ Commit(q) \/ LookupAgain(q) \/ RequestFails(q) \/ AnswerLost(q)
    \/ \E at \in Replicas : Arrive(q, at)

Next ==
    \/ \E s \in Sessions : SessionNext(s)
    \/ \E q \in Requests : RequestNext(q)
    \/ \E at \in Replicas : \E k \in cache[at] : CacheExpires(at, k)
    \/ \E at \in Replicas : SeenExpires(at)
    \/ Prune

Spec == Init /\ [][Next]_vars

\* Requests and sessions that have started go on, and cached keys and marks
\* expire.
Fairness ==
    /\ \A s \in Sessions : WF_vars(EnsureUser(s) \/ AccountEnds(s) \/ RotateInvalidates(s))
    /\ \A at \in Replicas : WF_vars(SeenExpires(at))
    /\ \A q \in Requests :
        WF_vars(Authenticate(q) \/ FillCache(q) \/ Lookup(q) \/ Begin(q) \/ ClaimKey(q)
                \/ Commit(q) \/ LookupAgain(q))
    /\ \A at \in Replicas : \A k \in 1..MaxKeys : WF_vars(CacheExpires(at, k))

FairSpec == Spec /\ Fairness

-----------------------------------------------------------------------------
(* Properties                                                              *)

\* One Idempotency-Key, one deposit: while the key is remembered, every 201
\* and 200 names the same deposit with the body that was sent, and the deposits
\* a lost race has rolled back are not there (create_deposit,
\* lookup_idempotent).
OneDepositPerKey ==
    /\ \A a, b \in answers : a = b
    /\ \A a \in answers : deposits[a.deposit] = a.body /\ a = idem
    /\ Len(deposits) + budget["prunes"] <= MaxPrunes + 1

\* A key that was replaced stops working everywhere for good: no replica keeps
\* it, or gets it back from a request that read it in time, beyond the TTL
\* (KeyCache, rotate_key, authenticate_api_key).
RotatedKeyDies ==
    \A k \in 1..MaxKeys :
        k <= issued /\ k # key ~> [](\A at \in Replicas : k \notin cache[at])

\* An owner who keeps calling gets a row although the INSERT of the first
\* contact failed behind its mark (first_touch, authenticate_privy).
OwnerGetsRow == []<>(\E s \in Sessions : session[s].step = "account") => <>user
=============================================================================
