----------------------------- MODULE RelayRoutes ----------------------------
(***************************************************************************)
(* The payer's Relay endpoints on one replica: sources, token search,      *)
(* prices, quotes, route status and transaction hints.                     *)
(*                                                                         *)
(* They share Relay's chain list (a single-flight cache that outlives a    *)
(* failed refresh and backs off), the cached route statuses (fetched       *)
(* without a lock) and the quote budget (a slice per deposit under a       *)
(* ceiling per replica).  Relay is external: it publishes new lists, moves *)
(* a route on, and answers late, wrongly or not at all.  Each payer has a  *)
(* deposit of its own; what the checks of a quote accept is RelayQuote's.  *)
(*                                                                         *)
(* Whether a deposit is open, a read budget used up, or a search, price or *)
(* logo cached is left open where it is read: a refusal ends the request.  *)
(* All of it is in memory: a restart is RoutesInit, whatever Relay is at.  *)
(***************************************************************************)
EXTENDS Integers, Sequences

CONSTANTS
    Payers,         \* one page, and one deposit, each
    Tokens,         \* of the origin chain; NATIVE among them
    NATIVE,         \* the zero address
    DIRECT_TOKENS,  \* the tokens probed to route in one step
    Lists,          \* the origin and the deposit's chain as /chains lists them, in order
    decimals,       \* per token, on the origin chain
    Foreign,        \* decimals the same addresses have on other chains
    Probing,        \* relay.probe_unlisted_tokens
    ChainsTtl,      \* relay.chains_ttl_secs, in ticks
    CHAINS_BACKOFF,
    STATUS_TTL,
    Quotes,         \* relay.quotes_per_minute
    Slice,          \* relay.quotes_per_deposit_per_minute
    Final           \* the route's last status; earlier ones are 0..Final-1

VARIABLES
    relay,          \* Relay: the list it publishes (its index), the route's status
    chains,         \* ChainsCache: list (0: none), its age, time since the last failure,
                    \*   and, for NoHerd, calls that ended since the last tick
    status,         \* the cached status of the route and its age
    limits,         \* RouteLimits: tokens left to the replica and to each deposit
    request         \* per payer: step, endpoint, list or status read, token

routesVars == <<relay, chains, status, limits, request>>

ASSUME RoutesAssumption ==
    /\ {ChainsTtl, CHAINS_BACKOFF, STATUS_TTL, Quotes, Slice, Final} \subseteq Nat \ {0}
    /\ NATIVE \in Tokens /\ DIRECT_TOKENS \subseteq Tokens
    /\ decimals \in [Tokens -> Nat] /\ Foreign \in [Tokens -> Nat]
    /\ Lists # <<>>
    /\ \A v \in 1..Len(Lists) :
        Lists[v] \in [usable: BOOLEAN, receives: BOOLEAN, solver: SUBSET Tokens, currency: BOOLEAN]

-----------------------------------------------------------------------------
Unknown == -1

Step == {"idle", "chains", "fetch", "listed", "lookup", "decimals", "limit", "relay",
         "status", "asked"}

Endpoint == {"none", "sources", "search", "quote", "other"}

IdleRequest == [step |-> "idle", endpoint |-> "none", read |-> 0, token |-> NATIVE,
                decimals |-> Unknown]

NoChains == [list |-> 0, age |-> 0, failed |-> CHAINS_BACKOFF, ended |-> 0]
NoStatus == [is |-> Unknown, age |-> 0]
FullLimits == [all |-> Quotes, of |-> [p \in Payers |-> Slice]]

RoutesTypeOK ==
    /\ relay \in [list: 1..Len(Lists), route: 0..Final]
    /\ chains \in [list: 0..relay.list, age: 0..ChainsTtl, failed: 0..CHAINS_BACKOFF, ended: Nat]
    /\ status \in [is: {Unknown} \cup (0..relay.route), age: 0..STATUS_TTL - 1]
    /\ limits \in [all: 0..Quotes, of: [Payers -> 0..Slice]]
    /\ request \in [Payers -> [step: Step, endpoint: Endpoint, read: 0..Len(Lists) + Final,
                               token: Tokens, decimals: Nat \cup {Unknown}]]

RoutesInit ==
    /\ relay \in [list: 1..Len(Lists), route: 0..Final]
    /\ chains = NoChains /\ status = NoStatus /\ limits = FullLimits
    /\ request = [p \in Payers |-> IdleRequest]

Least(a, b) == IF a < b THEN a ELSE b

Goto(p, step) == request' = [request EXCEPT ![p].step = step]
Done(p) == request' = [request EXCEPT ![p] = IdleRequest]

-----------------------------------------------------------------------------
(* Time: one tick restores one token of a deposit's slice.                 *)

Tick ==
    /\ chains' = [chains EXCEPT !.age = Least(@ + 1, ChainsTtl),
                                !.failed = Least(@ + 1, CHAINS_BACKOFF), !.ended = 0]
    /\ status' = IF status.is = Unknown \/ status.age + 1 = STATUS_TTL THEN NoStatus
                 ELSE [status EXCEPT !.age = @ + 1]
    /\ limits' = [all |-> Least(limits.all + Quotes \div Slice, Quotes),
                  of  |-> [p \in Payers |-> Least(limits.of[p] + 1, Slice)]]
    /\ UNCHANGED <<relay, request>>

(* Relay (external)                                                        *)

Publish ==
    /\ relay.list < Len(Lists)
    /\ relay' = [relay EXCEPT !.list = @ + 1]
    /\ UNCHANGED <<chains, status, limits, request>>

Advance ==
    /\ relay.route < Final
    /\ relay' = [relay EXCEPT !.route = @ + 1]
    /\ UNCHANGED <<chains, status, limits, request>>

-----------------------------------------------------------------------------
(* What a list allows                                                      *)

usable(list) == list.usable

can_receive(list) == list.receives

is_direct(t) == t \in DIRECT_TOKENS

pays_directly(list, t) == is_direct(t) /\ t \in list.solver

\* Quoted although it is not on the probed list.
probing(list, t) == Probing /\ t \in list.solver

\* Unknown for a native currency the chain's list does not describe.
chain_token_decimals(list, t) ==
    IF t = NATIVE THEN (IF list.currency THEN decimals[t] ELSE Unknown)
    ELSE IF t \in list.solver THEN decimals[t] ELSE Unknown

-----------------------------------------------------------------------------
(* The endpoints up to their first await: open_deposit and read            *)

\* configured, open and, for all but sources and quote, within the deposit's
\* read budget; otherwise the request is over before it has begun.
Sources(p) ==
    /\ request[p].step = "idle"
    /\ request' = [request EXCEPT ![p].step = "chains", ![p].endpoint = "sources"]
    /\ UNCHANGED <<relay, chains, status, limits>>

SearchTokens(p) ==
    /\ request[p].step = "idle"
    /\ request' = [request EXCEPT ![p].step = "chains", ![p].endpoint = "search"]
    /\ UNCHANGED <<relay, chains, status, limits>>

\* Also: at least min_time_left_secs to the expiry, at most what is owed, and
\* not the deposit's own token.
Quote(p) ==
    /\ request[p].step = "idle"
    /\ request' = [request EXCEPT ![p].step = "chains", ![p].endpoint = "quote"]
    /\ UNCHANGED <<relay, chains, status, limits>>

\* Prices and transaction hints go straight to Relay, or to a cached price.
Prices(p) ==
    /\ request[p].step = "idle"
    /\ request' = [request EXCEPT ![p].step = "lookup", ![p].endpoint = "other"]
    /\ UNCHANGED <<relay, chains, status, limits>>

RouteTransaction(p) ==
    /\ request[p].step = "idle"
    /\ request' = [request EXCEPT ![p].step = "lookup", ![p].endpoint = "other"]
    /\ UNCHANGED <<relay, chains, status, limits>>

RouteStatus(p) ==
    /\ request[p].step = "idle"
    /\ request' = [request EXCEPT ![p].step = "status", ![p].endpoint = "other"]
    /\ UNCHANGED <<relay, chains, status, limits>>

-----------------------------------------------------------------------------
(* RelayClient::chains                                                     *)

Locked == \E o \in Payers : request[o].step = "fetch"
Fresh == chains.list # 0 /\ chains.age < ChainsTtl
BackingOff == chains.failed < CHAINS_BACKOFF

Served(p, list) == request' = [request EXCEPT ![p].step = "listed", ![p].read = list]

\* Mutant: a hit restarts the list's time to live.
ServeCached_slides(p) ==
    /\ request[p].step = "chains" /\ ~Locked
    /\ Fresh \/ (BackingOff /\ chains.list # 0)
    /\ Served(p, chains.list)
    /\ chains' = [chains EXCEPT !.age = 0]
    /\ UNCHANGED <<relay, status, limits>>

\* A fresh list, or after a failed refresh the stale one.
ServeCached(p) ==
    /\ request[p].step = "chains" /\ ~Locked
    /\ Fresh \/ (BackingOff /\ chains.list # 0)
    /\ Served(p, chains.list)
    /\ UNCHANGED <<relay, chains, status, limits>>

BackOff(p) ==
    /\ request[p].step = "chains" /\ ~Locked
    /\ BackingOff /\ chains.list = 0
    /\ Done(p)
    /\ UNCHANGED <<relay, chains, status, limits>>

\* The lock is held until the answer is in.
StartFetch(p) ==
    /\ request[p].step = "chains" /\ ~Locked
    /\ ~Fresh /\ ~BackingOff
    /\ request' = [request EXCEPT ![p].step = "fetch", ![p].read = relay.list]
    /\ UNCHANGED <<relay, chains, status, limits>>

\* The list is the one Relay published at some moment of the call.
Fetched(p) ==
    /\ request[p].step = "fetch"
    /\ \E v \in request[p].read..relay.list :
        /\ chains' = [list |-> v, age |-> 0, failed |-> CHAINS_BACKOFF, ended |-> chains.ended + 1]
        /\ Served(p, v)
    /\ UNCHANGED <<relay, status, limits>>

\* Mutant: the failure is not remembered.
FetchFails_forgotten(p) ==
    /\ request[p].step = "fetch"
    /\ chains' = [chains EXCEPT !.ended = @ + 1]
    /\ IF chains.list # 0 THEN Served(p, chains.list) ELSE Done(p)
    /\ UNCHANGED <<relay, status, limits>>

\* Refused, lost, malformed, or shed by the replica's own read budget.
FetchFails(p) ==
    /\ request[p].step = "fetch"
    /\ chains' = [chains EXCEPT !.failed = 0, !.ended = @ + 1]
    /\ IF chains.list # 0 THEN Served(p, chains.list) ELSE Done(p)
    /\ UNCHANGED <<relay, status, limits>>

-----------------------------------------------------------------------------
(* With the list at hand                                                   *)

\* The list is answered; logos it lacks are looked up, as far as they can be.
AnswerSources(p) ==
    /\ request[p].step = "listed" /\ request[p].endpoint = "sources"
    /\ IF can_receive(Lists[request[p].read]) THEN Goto(p, "lookup") ELSE Done(p)
    /\ UNCHANGED <<relay, chains, status, limits>>

ScopeSearch(p) ==
    /\ request[p].step = "listed" /\ request[p].endpoint = "search"
    /\ IF usable(Lists[request[p].read]) THEN Goto(p, "lookup") ELSE Done(p)
    /\ UNCHANGED <<relay, chains, status, limits>>

\* A cached answer, Relay's answer, a failure or a shed call: each is an
\* answer to the payer (unknown logos and prices are left out), none is waited for.
LookupEnds(p) ==
    /\ request[p].step = "lookup"
    /\ Done(p)
    /\ UNCHANGED <<relay, chains, status, limits>>

Quoting(p, t, d) ==
    request' = [request EXCEPT ![p].step = "limit", ![p].token = t, ![p].decimals = d]

\* quote, up to its own limit or to the search for the token's decimals.
ChooseToken(p, t) ==
    LET list == Lists[request[p].read]
        d    == chain_token_decimals(list, t)
    IN  /\ request[p].step = "listed" /\ request[p].endpoint = "quote"
        /\ IF ~usable(list) \/ (~probing(list, t) /\ ~pays_directly(list, t)) THEN Done(p)
           ELSE IF d = Unknown
                THEN request' = [request EXCEPT ![p].step = "decimals", ![p].token = t]
           ELSE IF can_receive(list) THEN Quoting(p, t, d) ELSE Done(p)
        /\ UNCHANGED <<relay, chains, status, limits>>

\* Mutant: the address alone decides which of the found tokens is meant.
Match_any_chain(found) == {f.decimals : f \in found}

\* The found tokens of this address on the origin chain.
Match(found) == {f.decimals : f \in {g \in found : g.here}}

\* Relay's search may answer with the address on other chains as well.
FindDecimals(p) ==
    LET t       == request[p].token
        results == [here: {TRUE}, decimals: {decimals[t]}] \cup [here: {FALSE}, decimals: {Foreign[t]}]
    IN  /\ request[p].step = "decimals"
        /\ \E found \in SUBSET results :
            IF Match(found) = {} \/ ~can_receive(Lists[request[p].read]) THEN Done(p)
            ELSE \E d \in Match(found) : Quoting(p, t, d)
        /\ UNCHANGED <<relay, chains, status, limits>>

\* Mutant: the replica's ceiling is charged before the deposit's slice.
Limit_ceiling_first(p) ==
    LET ceiling == IF limits.all > 0 THEN limits.all - 1 ELSE 0
        quoted  == limits.all > 0 /\ limits.of[p] > 0
    IN  /\ request[p].step = "limit"
        /\ limits' = [all |-> ceiling,
                      of  |-> [limits.of EXCEPT ![p] = IF quoted THEN @ - 1 ELSE @]]
        /\ IF quoted THEN Goto(p, "relay") ELSE Done(p)
        /\ UNCHANGED <<relay, chains, status>>

\* Mutant: what is left is not asked for.
Limit_unchecked(p) ==
    /\ request[p].step = "limit"
    /\ limits' = [all |-> limits.all - 1, of |-> [limits.of EXCEPT ![p] = @ - 1]]
    /\ Goto(p, "relay")
    /\ UNCHANGED <<relay, chains, status>>

\* RouteLimits::quote: the deposit's slice, then the replica's ceiling.  A
\* quote that is shed has used its slice.  (forget_idle drops full slices only.)
Limit(p) ==
    LET quoted == limits.of[p] > 0 /\ limits.all > 0
    IN  /\ request[p].step = "limit"
        /\ limits' = [all |-> IF quoted THEN limits.all - 1 ELSE limits.all,
                      of  |-> [limits.of EXCEPT ![p] = IF @ > 0 THEN @ - 1 ELSE @]]
        /\ IF quoted THEN Goto(p, "relay") ELSE Done(p)
        /\ UNCHANGED <<relay, chains, status>>

\* Relay's route passes check_quote and is shown, or the payer is told why not.
Quoted(p) ==
    /\ request[p].step = "relay"
    /\ Done(p)
    /\ UNCHANGED <<relay, chains, status, limits>>

-----------------------------------------------------------------------------
(* RelayClient::status                                                     *)

\* Mutant: what is shown is cached again.
StatusHit_again(p) ==
    /\ request[p].step = "status" /\ status.is # Unknown
    /\ status' = [status EXCEPT !.age = 0]
    /\ Done(p)
    /\ UNCHANGED <<relay, chains, limits>>

StatusHit(p) ==
    /\ request[p].step = "status" /\ status.is # Unknown
    /\ Done(p)
    /\ UNCHANGED <<relay, chains, status, limits>>

AskStatus(p) ==
    /\ request[p].step = "status" /\ status.is = Unknown
    /\ request' = [request EXCEPT ![p].step = "asked", ![p].read = relay.route]
    /\ UNCHANGED <<relay, chains, status, limits>>

\* Of some moment of the call: two calls may end in the other order.
KeepStatus(p) ==
    /\ request[p].step = "asked"
    /\ \E s \in request[p].read..relay.route : status' = [is |-> s, age |-> 0]
    /\ Done(p)
    /\ UNCHANGED <<relay, chains, limits>>

StatusFails(p) ==
    /\ request[p].step = "asked"
    /\ Done(p)
    /\ UNCHANGED <<relay, chains, status, limits>>

-----------------------------------------------------------------------------
(* Payers leave while their request waits.                                 *)

\* Dropping the handler drops its call and the lock it holds.
Leave(p) ==
    /\ request[p].step \notin {"idle", "listed", "limit"}
    /\ Done(p)
    /\ UNCHANGED <<relay, chains, status, limits>>

\* RouteLimits::read refuses searches, prices, hints and statuses beyond the
\* deposit's own budget: such a request does not arrive.
Arrive(p) ==
    \/ Sources(p) \/ SearchTokens(p) \/ Quote(p)
    \/ Prices(p) \/ RouteTransaction(p) \/ RouteStatus(p)

Progress(p) ==
    \/ ServeCached(p) \/ BackOff(p) \/ StartFetch(p) \/ Fetched(p) \/ FetchFails(p)
    \/ AnswerSources(p) \/ ScopeSearch(p) \/ LookupEnds(p)
    \/ \E t \in Tokens : ChooseToken(p, t)
    \/ FindDecimals(p) \/ Limit(p) \/ Quoted(p)
    \/ StatusHit(p) \/ AskStatus(p) \/ KeepStatus(p) \/ StatusFails(p)

RoutesNext ==
    \/ \E p \in Payers : Arrive(p) \/ Progress(p) \/ Leave(p)
    \/ Tick \/ Publish \/ Advance

RoutesSpec == RoutesInit /\ [][RoutesNext]_routesVars

\* Calls end (the client has a timeout) and time passes; a list that is asked
\* for again and again is answered some day.  Payers need not come back.
Fairness ==
    /\ WF_routesVars(Tick)
    /\ \A p \in Payers : WF_routesVars(Progress(p))
    /\ SF_routesVars(\E p \in Payers : Fetched(p))

FairSpec == RoutesSpec /\ Fairness

-----------------------------------------------------------------------------
(* Properties                                                              *)

\* However many payers wait for the list, Relay answers or refuses at most one
\* /chains call before time moves on: those behind the lock find its list, or
\* its failure, and do not call again (RelayClient::chains).
NoHerd == chains.ended <= 1

\* A quote is checked with the decimals its token has on the origin chain,
\* also when they had to be searched for (quote, chain_token_decimals).
RightDecimals ==
    \A p \in Payers :
        request[p].step \in {"limit", "relay"} => request[p].decimals = decimals[request[p].token]

\* A list Relay has replaced is in the end not worked with any more, however
\* busy the endpoints are and however many refreshes fail (RelayClient::chains).
OldListDies ==
    \A v \in 1..Len(Lists) :
        relay.list >= v ~>
            [](\A p \in Payers : request[p].step \in {"listed", "decimals"} => request[p].read >= v)

\* Once a route has reached its last status, an older one is in the end not
\* shown any more: a call that overtook another may put it back, for STATUS_TTL
\* at most (RelayClient::status).
FinalStatusStays == relay.route = Final ~> [](status.is \in {Unknown, Final})

\* A payer who keeps asking for quotes keeps getting them, however often the
\* payers of other deposits ask, if their slices fit under the ceiling
\* (RouteLimits::quote).
NoDepositStarves ==
    \A p \in Payers : []<>(request[p].step = "limit") => []<>(request[p].step = "relay")
=============================================================================
