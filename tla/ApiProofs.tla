----------------------------- MODULE ApiProofs ------------------------------
(***************************************************************************)
(* Deposit creation for any number of replicas, requests and sessions, any *)
(* bodies and any number of keys, prunes and faults: one Idempotency-Key   *)
(* stands for one deposit.                                                 *)
(***************************************************************************)
EXTENDS Api, TLAPS

SessionType(n) == [step: SessionStep, at: Replicas \cup {"none"}, old: 0..n]
RequestType(n) == [step: RequestStep, at: Replicas \cup {"none"}, key: 0..n, body: Bodies \cup {0}]
IdemType(n)    == [body: Bodies, deposit: 1..n]

\* What a request knows at the steps that use it.
RequestKnows ==
    \A q \in Requests :
        /\ request[q].step \in {"auth", "cache"} => request[q].key # 0
        /\ request[q].step \in {"insert", "claimed", "rolled_back"} => request[q].body \in Bodies

\* The unique index at work: one transaction holds the key, and then no
\* committed row has it.
OneClaim ==
    /\ \A p, q \in Requests : request[p].step = "claimed" /\ request[q].step = "claimed" => p = q
    /\ \A q \in Requests : request[q].step = "claimed" => idem = NoRow

\* The remembered row names its deposit, and who was answered was answered with
\* that row.
RowIsTrue ==
    /\ idem # NoRow => deposits[idem.deposit] = idem.body
    /\ \A a \in answers : a = idem

\* The count of OneDepositPerKey is not inductive by itself: a key that is free
\* stands for a deposit that may still be made.
DepositsCounted ==
    Len(deposits) + budget["prunes"] + (IF idem = NoRow THEN 1 ELSE 0) <= MaxPrunes + 1

ApiInv == TypeOK /\ RequestKnows /\ OneClaim /\ RowIsTrue /\ DepositsCounted

USE ApiAssumption

-----------------------------------------------------------------------------
LEMMA TypeOKReads ==
    TypeOK <=>
    /\ user \in BOOLEAN /\ seen \subseteq Replicas
    /\ issued \in 0..MaxKeys /\ key \in 0..issued
    /\ cache \in [Replicas -> SUBSET (1..issued)]
    /\ session \in [Sessions -> SessionType(issued)]
    /\ request \in [Requests -> RequestType(issued)]
    /\ deposits \in Seq(Bodies)
    /\ idem \in {NoRow} \cup IdemType(Len(deposits))
    /\ answers \subseteq IdemType(Len(deposits))
    /\ budget \in [{"prunes", "faults"} -> Nat]
BY DEF TypeOK, SessionType, RequestType, IdemType

\* A new key widens the range of what names a key.
LEMMA TypesWiden ==
    ASSUME TypeOK, issued < MaxKeys
    PROVE  /\ issued + 1 \in 0..MaxKeys /\ issued + 1 \in 0..(issued + 1)
           /\ cache \in [Replicas -> SUBSET (1..(issued + 1))]
           /\ session \in [Sessions -> SessionType(issued + 1)]
           /\ request \in [Requests -> RequestType(issued + 1)]
<1>1. issued \in Nat /\ issued + 1 \in 0..MaxKeys /\ issued + 1 \in 0..(issued + 1)
  BY DEF TypeOK
<1>2. 0..issued \subseteq 0..(issued + 1) /\ 1..issued \subseteq 1..(issued + 1)
  BY <1>1
<1>3. SessionType(issued) \subseteq SessionType(issued + 1)
  BY <1>2 DEF SessionType
<1>4. RequestType(issued) \subseteq RequestType(issued + 1)
  BY <1>2 DEF RequestType
<1>. QED
  BY <1>1, <1>2, <1>3, <1>4, TypeOKReads

LEMMA InitApi == Init => ApiInv
<1>. SUFFICES ASSUME Init PROVE ApiInv
  OBVIOUS
<1>1. IdleSession \in SessionType(0) /\ IdleRequest \in RequestType(0)
  BY DEF IdleSession, IdleRequest, SessionType, RequestType, SessionStep, RequestStep
<1>2. TypeOK
  <2>1. /\ session \in [Sessions -> SessionType(issued)]
        /\ request \in [Requests -> RequestType(issued)]
    BY <1>1 DEF Init
  <2>2. deposits \in Seq(Bodies) /\ cache \in [Replicas -> SUBSET (1..issued)]
    BY DEF Init
  <2>3. budget \in [{"prunes", "faults"} -> Nat]
    BY DEF Init
  <2>4. MaxKeys \in Nat /\ issued \in 0..MaxKeys /\ key \in 0..issued
    BY DEF Init
  <2>5. user \in BOOLEAN
    BY Zenon DEF Init
  <2>6. seen \subseteq Replicas /\ idem \in {NoRow} /\ answers = {}
    BY DEF Init
  <2>. QED
    BY <2>1, <2>2, <2>3, <2>4, <2>5, <2>6, TypeOKReads
<1>3. RequestKnows /\ OneClaim /\ RowIsTrue /\ DepositsCounted
  BY DEF Init, RequestKnows, OneClaim, RowIsTrue, DepositsCounted, IdleRequest, NoRow
<1>. QED
  BY <1>2, <1>3 DEF ApiInv

-----------------------------------------------------------------------------
(* The key, its sessions and the caches leave deposits alone               *)

LEMMA SessionSteps ==
    ASSUME TypeOK, NEW s \in Sessions, SessionNext(s)
    PROVE  session' \in [Sessions -> SessionType(issued)]
<1>1. /\ session \in [Sessions -> SessionType(issued)]
      /\ session[s] \in SessionType(issued) /\ IdleSession \in SessionType(issued)
      /\ issued \in Nat /\ key \in 0..issued
  BY TypeOKReads DEF IdleSession, SessionType, SessionStep, TypeOK
<1>2. \A step \in SessionStep :
        /\ [session[s] EXCEPT !.step = step] \in SessionType(issued)
        /\ [session[s] EXCEPT !.step = step, !.old = key] \in SessionType(issued)
  BY <1>1 DEF SessionType
<1>4. \A step \in SessionStep, at \in Replicas :
        [step |-> step, at |-> at, old |-> 0] \in SessionType(issued)
  BY <1>1 DEF SessionType
<1>3. \E x \in SessionType(issued) : session' = [session EXCEPT ![s] = x]
  <2>1. CASE EnsureUser(s)
    BY <2>1, <1>2, <1>1 DEF EnsureUser, SessionStep
  <2>2. CASE AccountEnds(s) \/ CreateKey(s) \/ RotateInvalidates(s) \/ SessionFails(s)
    BY <2>2, <1>1 DEF AccountEnds, CreateKey, RotateInvalidates, SessionFails
  <2>3. CASE RotateBegins(s)
    BY <2>3, <1>2, <1>1 DEF RotateBegins, SessionStep
  <2>4. CASE RotateCommits(s)
    BY <2>4, <1>2, <1>1 DEF RotateCommits, SessionStep
  <2>5. CASE \E at \in Replicas : Contact(s, at)
    BY <2>5, <1>4, <1>1 DEF Contact, SessionStep
  <2>. QED
    BY <2>1, <2>2, <2>3, <2>4, <2>5 DEF SessionNext
<1>. QED
  BY <1>1, <1>3

LEMMA SessionPreserves ==
    ASSUME ApiInv, NEW s \in Sessions, SessionNext(s)
    PROVE  ApiInv'
<1>1. TypeOK
  BY DEF ApiInv
<1>2. UNCHANGED <<request, idem, deposits, answers>> /\ budget'["prunes"] = budget["prunes"]
      /\ budget' \in [{"prunes", "faults"} -> Nat]
  BY <1>1 DEF SessionNext, EnsureUser, AccountEnds, CreateKey, RotateBegins, RotateCommits,
     RotateInvalidates, SessionFails, Contact, tableVars, Spend, TypeOK
<1>3. user' \in BOOLEAN /\ seen' \subseteq Replicas
  BY <1>1 DEF SessionNext, EnsureUser, AccountEnds, CreateKey, RotateBegins, RotateCommits,
     RotateInvalidates, SessionFails, Contact, TypeOK
<1>4. session' \in [Sessions -> SessionType(issued)]
  BY <1>1, SessionSteps
<1>5. /\ issued' \in 0..MaxKeys /\ key' \in 0..issued'
      /\ cache' \in [Replicas -> SUBSET (1..issued')]
      /\ session' \in [Sessions -> SessionType(issued')]
      /\ request' \in [Requests -> RequestType(issued')]
  <2>1. CASE CreateKey(s) \/ RotateCommits(s)
    <3>1. issued < MaxKeys /\ issued' = issued + 1 /\ key' = issued' /\ cache' = cache
      BY <2>1 DEF CreateKey, RotateCommits
    <3>2. SessionType(issued) \subseteq SessionType(issued')
      BY <3>1, <1>1 DEF SessionType, TypeOK
    <3>. QED
      BY <3>1, <3>2, <1>1, <1>2, <1>4, TypesWiden
  <2>2. CASE ~(CreateKey(s) \/ RotateCommits(s))
    <3>1. UNCHANGED <<key, issued>>
      BY <2>2 DEF SessionNext, EnsureUser, AccountEnds, RotateBegins, RotateInvalidates,
         SessionFails, Contact
    <3>2. cache' \in [Replicas -> SUBSET (1..issued)]
      BY <2>2, <1>1 DEF SessionNext, EnsureUser, AccountEnds, RotateBegins, RotateInvalidates,
         SessionFails, Contact, TypeOK
    <3>. QED
      BY <3>1, <3>2, <1>1, <1>2, <1>4, TypeOKReads
  <2>. QED
    BY <2>1, <2>2
<1>6. TypeOK'
  BY <1>1, <1>2, <1>3, <1>5 DEF TypeOK, SessionType, RequestType
<1>. QED
  BY <1>2, <1>6 DEF ApiInv, RequestKnows, OneClaim, RowIsTrue, DepositsCounted

LEMMA ExpiryPreserves ==
    ASSUME ApiInv, NEW at \in Replicas,
           SeenExpires(at) \/ \E k \in cache[at] : CacheExpires(at, k)
    PROVE  ApiInv'
<1>1. TypeOK
  BY DEF ApiInv
<1>2. UNCHANGED <<user, key, issued, session, request, idem, deposits, answers, budget>>
  BY DEF SeenExpires, CacheExpires, tableVars
<1>3. seen' \subseteq Replicas /\ cache' \in [Replicas -> SUBSET (1..issued)]
  BY <1>1 DEF SeenExpires, CacheExpires, TypeOK
<1>4. TypeOK'
  BY <1>1, <1>2, <1>3 DEF TypeOK
<1>. QED
  BY <1>2, <1>4 DEF ApiInv, RequestKnows, OneClaim, RowIsTrue, DepositsCounted

-----------------------------------------------------------------------------
(* A request: what it holds, then what it does to the tables               *)

LEMMA RequestSteps ==
    ASSUME ApiInv, NEW q \in Requests, RequestNext(q)
    PROVE  /\ request' \in [Requests -> RequestType(issued)]
           /\ RequestKnows'
           /\ \A p \in Requests \ {q} : request'[p] = request[p]
<1>1. /\ TypeOK /\ RequestKnows
      /\ request \in [Requests -> RequestType(issued)]
      /\ request[q] \in RequestType(issued) /\ issued \in Nat
  BY TypeOKReads DEF ApiInv, TypeOK
<1>. DEFINE Knows(x) == /\ x.step \in {"auth", "cache"} => x.key # 0
                        /\ x.step \in {"insert", "claimed", "rolled_back"} => x.body \in Bodies
            Good(x) == x \in RequestType(issued) /\ Knows(x)
            lookup == [IdleRequest EXCEPT !.step = "lookup"]
<1>2. Good(IdleRequest) /\ Good(lookup) /\ Good(request[q])
  BY <1>1 DEF IdleRequest, RequestType, RequestStep, RequestKnows
<1>3. ASSUME \E x : Good(x) /\ request' = [request EXCEPT ![q] = x]
      PROVE  /\ request' \in [Requests -> RequestType(issued)]
             /\ RequestKnows'
             /\ \A p \in Requests \ {q} : request'[p] = request[p]
  <2>1. PICK x : Good(x) /\ request' = [request EXCEPT ![q] = x]
    BY <1>3
  <2>. QED
    BY <2>1, <1>1 DEF RequestKnows
<1>4. CASE Done(q)
  BY <1>2, <1>3, <1>4 DEF Done
<1>5. CASE Authenticated(q)
  BY <1>2, <1>3, <1>5 DEF Authenticated
<1>6. CASE \E at \in Replicas : Arrive(q, at)
  <2>1. PICK at \in Replicas, k \in 1..issued :
            request' = [request EXCEPT ![q] =
                            [step |-> "auth", at |-> at, key |-> k, body |-> 0]]
    BY <1>6 DEF Arrive
  <2>2. k \in 0..issued /\ k # 0
    BY <1>1
  <2>3. Good([step |-> "auth", at |-> at, key |-> k, body |-> 0])
    BY <2>2 DEF RequestType, RequestStep
  <2>. QED
    BY <2>1, <2>3, <1>3
<1>7. CASE request[q].step = "auth" /\ Goto(q, "cache")
  <2>1. Good([request[q] EXCEPT !.step = "cache"])
    BY <1>7, <1>1, <1>2 DEF RequestType, RequestStep
  <2>. QED
    BY <1>7, <2>1, <1>3 DEF Goto
<1>8. CASE Begin(q)
  <2>1. PICK body \in Bodies : request' = [request EXCEPT ![q].step = "insert", ![q].body = body]
    BY <1>8 DEF Begin
  <2>2. request' = [request EXCEPT ![q] = [request[q] EXCEPT !.step = "insert", !.body = body]]
    BY <2>1, <1>1
  <2>3. Good([request[q] EXCEPT !.step = "insert", !.body = body])
    BY <1>1 DEF RequestType, RequestStep
  <2>. QED
    BY <2>2, <2>3, <1>3
<1>9. CASE ClaimKey(q)
  <2>1. PICK step \in {"claimed", "rolled_back"} : Goto(q, step)
    BY <1>9 DEF ClaimKey
  <2>2. Good([request[q] EXCEPT !.step = step])
    BY <1>9, <1>1, <1>2 DEF RequestType, RequestStep, ClaimKey
  <2>. QED
    BY <2>1, <2>2, <1>3 DEF Goto
<1>. QED
  BY <1>4, <1>5, <1>6, <1>7, <1>8, <1>9 DEF RequestNext, Authenticate, FillCache, Lookup,
     Commit, Committed, LookupAgain, RequestFails, AnswerLost, Replay

\* Outside of a commit the tables and the count stay, and an answer names the
\* remembered row.
LEMMA ReadersPreserve ==
    ASSUME ApiInv, NEW q \in Requests, RequestNext(q), ~Commit(q), ~AnswerLost(q)
    PROVE  ApiInv'
<1>1. TypeOK /\ RequestKnows /\ OneClaim /\ RowIsTrue /\ DepositsCounted
  BY DEF ApiInv
<1>2. /\ request' \in [Requests -> RequestType(issued)] /\ RequestKnows'
      /\ \A p \in Requests \ {q} : request'[p] = request[p]
  BY RequestSteps
<1>3. /\ UNCHANGED <<user, seen, key, issued, session, idem, deposits>>
      /\ budget' \in [{"prunes", "faults"} -> Nat] /\ budget'["prunes"] = budget["prunes"]
  <2>1. UNCHANGED <<user, seen, key, issued, session, idem, deposits>>
    BY DEF RequestNext, Authenticate, FillCache, Lookup, Begin, ClaimKey, LookupAgain,
       RequestFails, Arrive, Replay, keyVars, tableVars
  <2>2. UNCHANGED budget \/ Spend("faults")
    BY DEF RequestNext, Authenticate, FillCache, Lookup, Begin, ClaimKey, LookupAgain,
       RequestFails, Arrive, Replay
  <2>. QED
    BY <2>1, <2>2, <1>1 DEF Spend, TypeOK
<1>4. cache' \in [Replicas -> SUBSET (1..issued)]
  <2>1. CASE FillCache(q)
    <3>1. request[q].key \in 1..issued
      BY <2>1, <1>1, TypeOKReads DEF FillCache, RequestKnows, RequestType, TypeOK
    <3>. QED
      BY <2>1, <3>1, <1>1 DEF FillCache, TypeOK
  <2>2. CASE ~FillCache(q)
    <3>1. cache' = cache
      BY <2>2 DEF RequestNext, Authenticate, Lookup, Begin, ClaimKey, LookupAgain,
         RequestFails, Arrive, Replay, keyVars, tableVars
    <3>. QED
      BY <3>1, <1>1 DEF TypeOK
  <2>. QED
    BY <2>1, <2>2
<1>5. answers' \subseteq answers \cup ({idem} \ {NoRow})
  BY DEF RequestNext, Authenticate, FillCache, Lookup, Begin, ClaimKey, LookupAgain,
     RequestFails, Arrive, Replay, keyVars, tableVars
<1>6. TypeOK'
  BY <1>1, <1>2, <1>3, <1>4, <1>5 DEF TypeOK, RequestType
<1>7. OneClaim'
  <2>1. CASE ClaimKey(q)
    BY <2>1, <1>1, <1>2, <1>3, TypeOKReads DEF ClaimKey, Goto, OneClaim, RequestType
  <2>2. CASE ~ClaimKey(q)
    <3>1. \/ Done(q) \/ Authenticated(q) \/ Goto(q, "cache") \/ Begin(q)
          \/ \E at \in Replicas : Arrive(q, at)
      BY <2>2 DEF RequestNext, Authenticate, FillCache, Lookup, LookupAgain, RequestFails, Replay
    <3>2. request'[q].step # "claimed"
      <4>1. request \in [Requests -> RequestType(issued)]
        BY <1>1, TypeOKReads
      <4>2. CASE Done(q) \/ Authenticated(q)
        BY <4>1, <4>2 DEF Done, Authenticated, IdleRequest
      <4>3. CASE Goto(q, "cache") \/ Begin(q)
        BY <4>1, <4>3 DEF Goto, Begin, RequestType
      <4>4. CASE \E at \in Replicas : Arrive(q, at)
        BY <4>1, <4>4 DEF Arrive, IdleRequest
      <4>. QED
        BY <3>1, <4>2, <4>3, <4>4
    <3>. QED
      BY <3>2, <1>1, <1>2, <1>3 DEF OneClaim
  <2>. QED
    BY <2>1, <2>2
<1>8. RowIsTrue' /\ DepositsCounted'
  BY <1>1, <1>3, <1>5 DEF RowIsTrue, DepositsCounted
<1>. QED
  BY <1>2, <1>6, <1>7, <1>8 DEF ApiInv

\* The one transaction that holds the key writes deposit and row together.
LEMMA CommitPreserves ==
    ASSUME ApiInv, NEW q \in Requests, Commit(q) \/ AnswerLost(q)
    PROVE  ApiInv'
<1>1. TypeOK /\ RequestKnows /\ OneClaim /\ RowIsTrue /\ DepositsCounted
  BY DEF ApiInv
<1>. DEFINE n == Len(deposits) + 1
            new == [body |-> request[q].body, deposit |-> n]
<1>2. /\ request[q].step = "claimed" /\ request[q].body \in Bodies
      /\ deposits' = Append(deposits, request[q].body) /\ idem' = new
      /\ request' = [request EXCEPT ![q] = IdleRequest]
      /\ UNCHANGED <<user, seen, key, issued, cache, session>>
      /\ answers' \subseteq answers \cup {new}
  BY <1>1 DEF Commit, AnswerLost, Committed, RequestKnows, keyVars, Done
<1>3. /\ deposits \in Seq(Bodies) /\ deposits' \in Seq(Bodies)
      /\ Len(deposits) \in Nat /\ Len(deposits') = n
      /\ deposits'[n] = request[q].body
  BY <1>1, <1>2 DEF TypeOK
<1>4. idem = NoRow /\ answers = {}
  <2>1. idem = NoRow /\ \A a \in answers : a = NoRow
    BY <1>1, <1>2 DEF OneClaim, RowIsTrue
  <2>2. NoRow \notin answers
    BY <1>1 DEF TypeOK, NoRow
  <2>. QED
    BY <2>1, <2>2
<1>5. new \in IdemType(n) /\ new # NoRow
  BY <1>2, <1>3 DEF IdemType, NoRow
<1>6. budget' \in [{"prunes", "faults"} -> Nat] /\ budget'["prunes"] = budget["prunes"]
  BY <1>1 DEF Commit, AnswerLost, Spend, TypeOK
<1>7. /\ request' \in [Requests -> RequestType(issued)] /\ RequestKnows'
      /\ \A p \in Requests \ {q} : request'[p] = request[p]
  BY RequestSteps DEF RequestNext
<1>8. TypeOK'
  BY <1>1, <1>2, <1>3, <1>4, <1>5, <1>6, <1>7 DEF TypeOK, RequestType, IdemType
<1>9. OneClaim'
  <2>1. request'[q].step # "claimed"
    BY <1>1, <1>2, TypeOKReads DEF IdleRequest
  <2>2. \A p \in Requests : request'[p].step # "claimed"
    BY <2>1, <1>1, <1>2, <1>7 DEF OneClaim
  <2>. QED
    BY <2>2 DEF OneClaim
<1>10. RowIsTrue'
  BY <1>2, <1>3, <1>4 DEF RowIsTrue
<1>11. DepositsCounted'
  BY <1>1, <1>2, <1>3, <1>4, <1>5, <1>6 DEF DepositsCounted, TypeOK
<1>. QED
  BY <1>7, <1>8, <1>9, <1>10, <1>11 DEF ApiInv

LEMMA PrunePreserves ==
    ASSUME ApiInv, Prune
    PROVE  ApiInv'
<1>1. TypeOK /\ RequestKnows /\ OneClaim /\ RowIsTrue /\ DepositsCounted
  BY DEF ApiInv
<1>2. /\ idem # NoRow /\ idem' = NoRow /\ answers' = {}
      /\ UNCHANGED <<user, seen, key, issued, cache, session, request, deposits>>
  BY DEF Prune, keyVars
<1>3. /\ budget' \in [{"prunes", "faults"} -> Nat]
      /\ budget'["prunes"] = budget["prunes"] - 1
  BY <1>1 DEF Prune, Spend, TypeOK
<1>4. TypeOK'
  BY <1>1, <1>2, <1>3 DEF TypeOK
<1>5. DepositsCounted'
  <2>1. Len(deposits) \in Nat /\ budget["prunes"] \in Nat /\ MaxPrunes \in Nat
    BY <1>1 DEF TypeOK
  <2>. QED
    BY <2>1, <1>1, <1>2, <1>3 DEF DepositsCounted
<1>. QED
  BY <1>1, <1>2, <1>4, <1>5 DEF ApiInv, RequestKnows, OneClaim, RowIsTrue

-----------------------------------------------------------------------------
LEMMA ApiInduction == ApiInv /\ [Next]_vars => ApiInv'
<1>. SUFFICES ASSUME ApiInv, [Next]_vars PROVE ApiInv'
  OBVIOUS
<1>1. CASE \E s \in Sessions : SessionNext(s)
  BY <1>1, SessionPreserves
<1>2. CASE \E q \in Requests : RequestNext(q)
  BY <1>2, ReadersPreserve, CommitPreserves
<1>3. CASE \E at \in Replicas : \E k \in cache[at] : CacheExpires(at, k)
  BY <1>3, ExpiryPreserves
<1>4. CASE \E at \in Replicas : SeenExpires(at)
  BY <1>4, ExpiryPreserves
<1>5. CASE Prune
  BY <1>5, PrunePreserves
<1>6. CASE UNCHANGED vars
  BY <1>6 DEF vars, keyVars, tableVars, ApiInv, TypeOK, RequestKnows, OneClaim, RowIsTrue,
     DepositsCounted
<1>. QED
  BY <1>1, <1>2, <1>3, <1>4, <1>5, <1>6 DEF Next

\* The transactions of create_deposit keep what the unique index promises,
\* however many replicas and requests race and whatever fails or is pruned:
\* claimed keys are held by one transaction, and the remembered row names the
\* deposit everyone was answered with.
THEOREM ApiCorrect == Spec => []ApiInv
<1>. QED
  BY InitApi, ApiInduction, PTL DEF Spec

\* Requests, sessions, caches and tables keep their types.
THEOREM ApiTypes == Spec => []TypeOK
<1>1. ApiInv => TypeOK
  BY DEF ApiInv
<1>. QED
  BY <1>1, ApiCorrect, PTL

\* One Idempotency-Key, one deposit (create_deposit, lookup_idempotent).
THEOREM IdempotencyCorrect == Spec => []OneDepositPerKey
<1>1. ApiInv => OneDepositPerKey
  <2>. SUFFICES ASSUME ApiInv PROVE OneDepositPerKey
    OBVIOUS
  <2>1. TypeOK /\ RowIsTrue /\ DepositsCounted
    BY DEF ApiInv
  <2>2. \A a \in answers : a = idem /\ idem # NoRow
    BY <2>1 DEF TypeOK, RowIsTrue, NoRow
  <2>3. Len(deposits) + budget["prunes"] <= MaxPrunes + 1
    BY <2>1 DEF TypeOK, DepositsCounted
  <2>. QED
    BY <2>1, <2>2, <2>3 DEF OneDepositPerKey, RowIsTrue
<1>. QED
  BY <1>1, ApiCorrect, PTL
=============================================================================
