# gum-server in TLA+

gum-server is the API in front of Gum's stablecoin deposits: an app asks for a
one-time payment address, gum-indexer reports what arrives there, gum-engine
executes the settlement, and the app is told. The service itself holds no chain
connection. What it has to get right is a protocol: one row per deposit, moved
by guarded UPDATEs that outbox workers, webhook handlers, the reconciler and an
operator issue concurrently, on several replicas, against two services that
answer late, twice, out of order or not at all.

This directory models that protocol, checks it with TLC on small instances and
proves its safety properties with TLAPS for every instance. Source paths below are
relative to the repository's `src/`.

## 1. Inventory

### The system's parts

| Part | Source | State it keeps | Operations |
|---|---|---|---|
| Deposit tables | `deposit/store.rs`, `deposit/mod.rs` | `deposits` row, `deposit_events` timeline, `event_seq` | `create_deposit`, `mark_watch_registered`, `apply_*`, `reregister_watch`, `retry_settlement`, `record_event` |
| Outbox | `outbox/mod.rs` | `outbox` rows: kind, payload, `attempts`, `next_attempt_at`, `locked_until`, `dead_at` | `claim`, `execute_job` (`register_watch`, `submit_execute`, `notify_app`), `retry_later`, `mark_dead` |
| Inbound webhooks | `webhooks/inbound.rs` | `inbound_events` ids | `apply_indexer_event`, `apply_engine_event`, `apply_settlement`, `resubmit` |
| Reconciler | `reconciler.rs` | none beyond what a tick has read | `reconcile_open`, `reconcile_paid`, `expire_overdue`, `prune`, `check_outbox` |
| Operator endpoints | `app.rs` | none | retry-settlement, outbox listing, requeue |
| App webhooks | `outbox/mod.rs`, `webhooks/sign.rs`, `webhooks/target.rs` | `notify_app` rows | signed POST per app-facing event |
| Deposit creation | `deposit/routes.rs`, `deposit/request.rs` | `idempotency_keys` | validate, `lookup_idempotent`, `create_deposit` |
| Keys, sessions, accounts | `auth/*`, `account/mod.rs`, `state.rs` | `users`, `api_keys`, in-process key cache, first-touch set | `authenticate_*`, `create_key`, `rotate_key`, `rotate_webhook_secret` |
| Pay page and feed | `deposit/pay.rs`, `deposit/feed.rs` | broadcast channel, a held request's last sequence | `view`, `run`/`listen` |
| Relay routes | `deposit/relay.rs`, `deposit/relay_tokens.rs`, `clients/relay.rs` | quote and read budgets, Relay's chain list, cached statuses | `sources`, `prices`, `quote`, `check_quote`, `route_status` |
| Chain terms and outcomes | `chain/payment.rs`, `chain/revert.rs` | none | address derivation, `execution_outcome`, revert explanation |
| Clients | `clients/engine.rs`, `clients/indexer.rs` | none | submit / get job, create / get watch |
| Supervisor, shutdown, pool | `supervise.rs`, `main.rs`, `db.rs` | the outbox task's run, the shutdown signal, connections in use | `supervise::spawn`, `main`, `outbox::run`'s drain |
| Config, errors, telemetry | the rest | none of the protocol | |

### How they interact

`create_deposit` commits the row, its `created` event and a `register_watch`
outbox row at once. A worker claims the row, creates the watch at the indexer and
records it. The indexer's webhooks move the deposit to `partial_paid` and, at the
amount, to `paid`, which commits a `submit_execute` row whose idempotency key
carries the event's sequence. A worker submits it; the engine's webhooks move the
deposit to `settled` or `failed`, or detach the job and enqueue another
`submit_execute` when the engine only dropped it. The reconciler polls what has
been quiet and applies the same transitions. The operator may take a failed
deposit back to `paid` and requeue outbox rows. Every app-facing event also
commits a `notify_app` row. The only shared state is Postgres; the only
synchronisation is a transaction's row lock, the guard in an UPDATE's WHERE
clause, `FOR UPDATE SKIP LOCKED` with a time-limited lock on outbox rows, and the
unique key of `inbound_events`.

### What is hard here

* A worker, a handler and the reconciler all read the deposit, wait for a remote
  answer and then write; the guards check the status but not the job or the
  watch the reader had in mind.
* An outbox row outlives a crash, a timeout, a lost answer or a failed DELETE,
  and is then run again, possibly after the deposit has moved on; the lock of a
  row can expire while its worker still holds it.
* Events arrive at least once, in any order, also for watches and jobs that are
  no longer (or not yet) the recorded ones.
* A paid deposit without a job, or an open deposit without a watch, is moved by
  nothing but its outbox row: a lost row strands it.
* Everything must work without any webhook at all.
* Inside one process, handlers and jobs share a pool of connections and wait in
  their transactions for one row; the outbox loop waits for its whole batch, may
  panic with jobs in flight and must neither sleep through a wake-up nor hold up
  a shutdown.
* What Relay answers is cached under different rules: the chain list behind one
  lock, serving a stale list when a refresh fails; a route's status without one.

`PROJECT.json` lists each such hazard at its line with the properties that would
catch it.

### What makes each part correct

* tables: the status is what the timeline says; a side effect is committed with
  its cause; the lifecycle's edges are the only moves;
* detection: no open deposit is unwatched for good, nobody is told `ready`
  without the money, nothing expires early, and what is funded is noticed;
* settlement: no paid deposit is stranded, the verdict is what happened on
  chain, a retry is a new job, and every paid deposit gets a verdict;
* app webhooks: per deposit in order, nothing silently lost;
* creation: one deposit per idempotency key and body; keys: a rotated key stops
  working; pay feed: a held request does not sleep through a change; relay: an
  accepted route exposes the payer to no more than the quoted input;
* relay endpoints: no herd of calls, no stale list or status for good, no payer
  starved by another's quotes;
* process: handlers never deadlock on the pool, the outbox goes on after a panic
  or a hung upstream, and a shutdown ends without cutting a job short.

## 2. Modules

| Module | Models |
|---|---|
| `DepositLifecycle` | abstract specification: the status edges and the set of settlement orders (each with its own key) |
| `DepositStore` | the row, the timeline and the outbox rows of one deposit; one operator per store function and per statement on an outbox row; `StoreSpec` allows any sequence of calls |
| `DepositStoreProofs` | its theorems |
| `Settlement` | extends `DepositStore`: workers running `submit_execute`, engine webhook handlers, `reconcile_paid`, operator, engine and chain |
| `Detection` | extends `DepositStore`: workers running `register_watch`, indexer webhook handlers, `reconcile_open`, `expire_overdue`, operator, indexer, payer and clock |
| `Notify` | extends `DepositStore`: workers running `notify_app`, and the app |
| `PayFeed` | extends `DepositStore`: requests of the pay page that hold until their deposit changes, the `LISTEN` connection and the broadcast channel that wake them |
| `Api` | a user's first contact; creation and rotation of an API key against the replicas' key caches and requests in flight; concurrent creates with one `Idempotency-Key` |
| `RelayQuote` | `check_quote` reading a route call by call (its tab on the wallet, the flow through the router, the order), beside what the contracts do when the wallet sends those transactions |
| `RelayRoutes` | the endpoints around it: Relay's chain list (single flight, stale on failure, backing off), token search, prices, the status cache, the quote budget per deposit and per replica |
| `Replica` | one process: the connection pool, webhook handlers' transactions, the outbox loop (claim, batch, permits, wake-up, drain), `run_bounded`, the supervisor, shutdown |
| `SettlementProofs`, `DetectionProofs`, `NotifyProofs`, `PayFeedProofs`, `ApiProofs`, `ReplicaProofs` | the theorems of those modules |
| `RelayProofs` | the theorems of `RelayQuote` and of `RelayRoutes`, which share no variable |
| `MC...` | the modules TLC runs |

`DepositStore` is the base of the composed modules: they add processes and external
parties around the same operators and the same variables, so a property of theirs is
about the tables the theorems of `DepositStoreProofs` are about. `Api`, `RelayQuote`
and `RelayRoutes` share no state with a deposit's transitions and stand alone;
`Replica` looks at the same handlers and jobs from the other side, as holders of
connections and permits, and leaves out what they write.

### Correspondence with the code

*State.* `row`, `timeline`, `outbox`, `dead`, `locked` are the columns that decide
something. Ids are numbers and 0 is NULL. An engine job is named by the key it was
accepted under (the engine returns the same job for the same key), a key by the
event sequence in it, a transaction by its job. Two columns are left out because
only time depends on them: `attempts` and `next_attempt_at` (a row that is not due
becomes due). Rows of one kind are ordered by event sequence, as their v7 ids are
when the replicas' clocks agree.

*Actions.* An operator of `DepositStore` is one committed transaction: its guard is
the WHERE clause, its updates the SET list, and `record_event` (sequence, event,
app notification) is part of it. In `Settlement` and `Detection` a process is a
record with a `step`; a step ends where the code awaits something outside its
transaction, so what was read before is kept in the process and may be stale:
`load → submit → mark → done/retry/dead` for `submit_execute`,
`load → create → mark …` for `register_watch`, `poll → (count →) apply` for the
reconciler, `apply` for a handler whose transaction has read the deposit,
`post → done/retry` for `notify_app`, `read → hold → events` for a request of the pay
page, `touch → account` for a session, `auth → cache → lookup → insert →
claimed/rolled_back` for a create. In `Replica` a step ends where a task waits for a
connection, a row lock, a permit or a timer: `begin → lookup → apply → commit → notify`
for a handler, `queued → load → call → write → writing → (notify →) finish/reschedule`
for a job, `claim → spawn → await → sleep/pause → drain` for the loop. There an outbox row
stands behind the earlier live rows of its `Line`, the deposit and kind, until these are
gone (`ahead`, the `NOT EXISTS` of `claim`); a row is `fresh` from its commit until a claim
has taken it or, with its batch not full, seen and left it, and rows another replica is
claiming may be passed over (`SKIP LOCKED`). In `RelayRoutes` it ends
where a handler calls Relay or waits for the list's lock; time is counted in ticks, and
the list's and the statuses' ages are compared as the code compares durations.

*Quotes.* In `RelayQuote` the checker's variables (`tab`, `flow`, `order`, `phase`) are
those of `check_quote`, `Spend` and `Flow`; a call is a record of what the ABI decoder
returns. `wallet` is not in the code: it is what the accepted calls do to the payer's
tokens, each transaction sent or not (a wallet may refuse one, a multicall reverts as a
whole), starting from any allowances given before. The properties compare the two.

*Failures.* A worker may crash at any step, time out, lose an answer the other side
has acted on, or lose its lock early; a handler or the reconciler may abort; the
engine may drop, refuse, revert or forget a job; the indexer may refuse, cancel or lose a
watch, or report a reorg; webhooks may be delivered in any order, again, or never;
a redelivered event is refused once its id is in `inbound_events`, until `prune`
forgets it; a request to an app may be processed long after its worker gave up on it;
the listener may lose its connection and what Postgres held for it, and a receiver may
lag. A task may be dropped, or fail, while it awaits the
answer to its COMMIT, which was carried out or not (`Replica`). Each kind of failure has a
budget or, in `Replica`, may happen at any time. What one transaction writes is committed
whole or not at all: that is Postgres' promise, built into the actions and not checked.

*External parts.* gum-engine (one job per idempotency key, one event per outcome, the
factory deploys a payment once) and gum-indexer (one active watch per address,
totals that only grow while a watch is active; a watch is active, completed, expired or
cancelled, and known to it or lost), the apps, Postgres' `LISTEN`/`NOTIFY`,
tokio's broadcast channel and Relay's contracts are not in this repository and are
modelled from how it uses them.

## 3. Runs

| Run | Checks | Instance |
|---|---|---|
| `settlement_reports` | `PaidHasDriver`, `VerdictIsTrue`, `RetryIsNewJob` | a worker, a handler, a reconciler; one fault each of worker, actor and engine |
| `settlement_workers` | `PaidIsResolved` under `FairSpec` | two workers on the same rows, a reconciler, no webhooks, one worker fault, one engine fault, one retry and one requeue by the operator |
| `settlement_race` | `SettledNotFailed` is violated | a reconciler beside a webhook handler |
| `detection_lost_watch` | `TypeOK`, `OpenIsWatched`, `PaidIsFunded`, `ExpiredAfterExpiry`, `StatusMatchesTimeline`, `RowsHaveCauses`, refinement `ImplementsLifecycle` | amount 2; a worker, a handler, a reconciler, an operator call, two watches, one refused, cancelled or lost watch or reorg; webhooks of every kind but `payment.pending` |
| `detection_liveness` | `FundedIsNoticed` under `FairSpec` | amount 1; a worker, a handler, a reconciler, up to four watches, one fault of each kind; only `payment.pending` webhooks, which may come late and again name a lost watch |
| `detection_blind` | `CompletedNotExpired` is violated | a registration whose answer is lost |
| `notify` | `InOrder`, `AppLearnsVerdict`, `EventsReachApp` under `FairSpec` | two workers, four events, one worker fault, one refusal, one row given up on, one requeue |
| `pay_feed` | `NoMissedChange`, `AnswersAreConsistent`, `HeldIsAnswered` under `FairSpec` | a reader, a channel of two messages, four events, two of other deposits, two lost connections |
| `api` | `TypeOK`, `OneDepositPerKey`, `RotatedKeyDies`, `OwnerGetsRow` under `FairSpec` | two requests, two bodies, one session, two keys, one prune, two failures |
| `relay_quote` | `TypeOK`, `WithinQuote`, `NothingStranded`, `OnePayment`, `OrderMatches` | every route of three transactions with up to four calls each, amounts 1..3 in a `U256` that ends at 3, input 2, amount 3 |
| `relay_routes` | `RoutesTypeOK`, `NoHerd`, `RightDecimals`, `OldListDies`, `FinalStatusStays`, `NoDepositStarves` under `FairSpec` | two payers on a replica, two published lists, a route of two statuses, a ceiling of two quotes and a slice of one, any list and route status at the start |
| `replica` | `TypeOK`, `WakeNotLost`, `OrderlyStopFinishesJobs`, `HandlersServed`, `OutboxKeepsClaiming`, `ShutdownEnds` under `FairSpec` | as many handlers as connections (two), two outbox rows of one deposit and kind, one permit, a batch of one, one panic, a shutdown at any time |

*Bounds.* The settlement hazards need one job that ends badly, a second one that
ends well, one process holding an old view of the deposit and one acting on the new
one: one fault per kind, one worker or two, one handler and one reconciler produce
that, and a third concurrent view only repeats a second. `MAX_AUTO_RETRIES` is cut
to the constant of the cfg so that both sides of the comparison are reached.
`Amount = 2` with two transfers distinguishes a partial payment from a full one;
where only the watch matters `Amount = 1`. Three clock values separate before
`expires_at`, after it, and after `EXPIRY_GRACE_SECS`; there is one clock, so replicas and
indexer agree on the time. Four events of a deposit are
enough for a verdict, a retry and another verdict, of which the app is told of three.
The readers of one process share nothing but the channel, whose receivers are
independent, so one reader suffices; the capacity of two overflows. Two requests with
one key meet in every order of lookup, insert and commit; a third repeats the second.
Two payers are one in the list's lock and one behind it, or two overlapping status
calls; a list that is fresh, stale, and stale with a failed refresh differ at the bounds
chosen. Handlers that fill the pool, a row behind another of its line, full and partial batches
and jobs of a run of the outbox that panicked are the cases `Replica` is about.
`Delivered` names the kinds of events that may get through: all but the first sign of a
payment where totals matter, only that one where nothing may depend on webhooks (it moves
no total, but fills an empty `watch_id`). `settlement_reports` has no operator; a retry by
hand is in `settlement_workers` and in every theorem.
The bounds of a route reach an overflow of the tab, a funding pull and an approval
before and after it, and a route the checker refuses for each reason; for longer ones
there is the proof.

*Deadlock.* A settled deposit with an empty outbox and no budget left has nothing
more to do, nor has a quote that was accepted or refused or a replica that has shut
down, so only `relay_routes` checks for deadlock; elsewhere that nothing stops too early
is what the liveness properties say.

*Fairness.* Weak fairness of the steps of a worker, of the reconciler and of a
handler that has started: tokio keeps polling a spawned task, `supervise::spawn`
restarts a background loop that dies, and `run` ticks forever. Weak fairness of the
expiry of a lock nobody holds: time passes. The engine ends every job and the
indexer counts what reaches an address it actively watches: that is the contract
with those services. An app that is up answers 2xx, and what it refuses is budgeted
(`Notify`). `feed::run` reconnects for ever, and the listener relays what it holds; a
held request is not assumed to reach its deadline, so it must be woken (`PayFeed`).
Cached keys and first-touch marks reach their time to live, and a session that has
started goes on (`Api`). Time passes, calls to Relay end (with an answer, an error or
their timeout), and the list is fetched at last if it is tried again and again
(`RelayRoutes`: strong fairness, Relay is not down for ever). A handler is given a
connection and the row's lock if these come free again and again (`Replica`: strong
fairness; the pool and Postgres serve waiters in order), timers fire, and no answer of an
upstream is assumed. Nothing is assumed of webhook delivery,
the operator, faults, clients, or the payer; the runs of invariants alone assume no
fairness.

### Where the code and its documentation part

* `settlement_race`: "Every transition it applies is the same guarded transition a
  webhook would apply, so running this on several replicas at once is safe"
  (`reconciler.rs:12`). The guard is `status = 'paid'` alone. A reconciler that read
  job 1 as dropped detaches job 2, which a webhook has resubmitted meanwhile and
  which may have executed; job 3 is then refused as already deployed and the deposit
  ends `failed` although its receiver was paid.
* `detection_blind`: "Local expiry without the indexer's say-so only happens a full
  day after `expires_at`" (the repository's README). `register_watch` expires at
  once when it runs after `expires_at`, also when an earlier attempt's watch exists
  and has completed.

Smaller ones, which the models show but no run is made of:

* "The engine idempotency key includes the sequence so an operator-triggered retry is a
  new job rather than a replay of the failed one" (`deposit/store.rs:467`). A row that
  survived its own submission, because its worker crashed before deleting it or lost its
  lock, is older than the retry's row, runs first and replays the old key.
  So does a row that is requeued by hand. `RetryIsNewJob` therefore asks for a new job
  only while no worker has failed and no row was requeued.
* `expired` means "`expires_at` passed before the amount was paid" (the repository's
  README:49). `reconcile_open` takes a watch that was cancelled at the indexer for an expired
  one and does not look at `expires_at` (`reconciler.rs:127`): such a deposit expires at
  once, and `ExpiredAfterExpiry` has that exception.
* `outbox_wake` spares a new row the wait for the poll, but not every row. The second of two
  rows of a deposit and kind is not claimed while the first is live, and nothing wakes the
  loop when the first is deleted, so it waits for `poll_interval_ms` unless the batch was
  full or something else is committed; so does a row that `claim` skipped as locked, and
  one whose task was dropped in its COMMIT. `WakeNotLost` speaks of the others.
* `MAX_AUTO_RETRIES` is compared with a count read outside the row's lock
  (`webhooks/inbound.rs:400`), so two reports of a dropped job may both use the last one.
* `outbox::run` drains the permits of its own run; jobs of a run that panicked go on
  beside it and a shutdown does not wait for them, which is why
  `OrderlyStopFinishesJobs` leaves them out. Their rows are run again when the lock ends.
* "Relay dropping one takes effect at once" (`deposit/relay_tokens.rs:11`): it does when
  the cached chain list is refetched, after `relay.chains_ttl_secs`, and not while
  refreshes fail. `OldListDies` is stated as "eventually".
* `apply_payment_confirmed` overwrites `confirmed_amount` with the event's total, so an
  older event applied later lowers what the API shows until the next one.
* `retry_settlement` accepts a deposit that failed with `watch_rejected`: it becomes
  `paid` with nothing received and an execute is queued, against the status table's
  "Confirmed total ≥ amount"; this is why `PaidIsFunded` speaks of the `ready` event.
* "The old key stops working immediately on this instance" (`account/mod.rs:100`): a
  request that authenticated before the rotation's commit and fills the cache after
  its `invalidate` puts the old key back until its time to live is over. Two
  rotations at once read the same previous key, so the one in between is invalidated
  by neither. `RotatedKeyDies` is therefore stated as "eventually".
* `settlement_retried` is neither app-facing nor in `PAYER_EVENTS`: the app and the
  page show `failed` and then nothing until the next verdict.
* "Same key and same request seen before; the original deposit" (the repository's
  README): `validate` runs before the idempotency lookup, so a replay is answered 400
  once the expiry in its body has come too near.
* `first_touch` marks the user as known before the INSERT, which may fail; the next
  attempt waits for the mark to expire (`state.rs:98`, `auth/mod.rs:128`); `OwnerGetsRow`
  says that it does come.
* A route is quoted for what was owed when the quote was asked for; a payment
  confirmed meanwhile makes it an overpayment.

## 4. Proofs

`DepositStoreProofs` proves, for every `Amount`, every set of watches and totals and
call sequences of any length:

* `StoreCorrect`: `StoreSpec => []StoreInv`, where `StoreInv` is `StoreTypeOK`,
  `StatusMatchesTimeline` and `RowsHaveCauses` together. It is inductive only as a
  whole: `StatusMatchesTimeline` needs the timeline to be a sequence of known
  events, `RowsHaveCauses` needs that the timeline only grows and that `dead` and
  `locked` rows exist.
* `StatusCorrect` and `CausesCorrect`, the two conjuncts by themselves.
* `StoreImplementsLifecycle`: every store call is a lifecycle step or a stutter under
  `status <- row.status`, `orders <- Asking` (the timeline positions of the events
  that ask for an execute).

The argument goes through `record_event`: four lemmas say what recording an event
does to types, to the status's witness in the timeline, to the rows' causes and to
the set of orders; a fifth covers a transition whose guard fails. Each transition is
then a guard, an updated row and a cited lemma. Assumptions: `StoreAssumption` only. A
last section says what the composed modules need of the store: that the timeline only
grows and a row keeps its sequence (`StoreGrows`), what a transition that finds its
deposit does (`TransitionFacts`, `LocatedFacts`), that it records one event or nothing
(`TransitionRecords`, `StepRecords`), and what is left of a row that is done
(`FinishedRow`).

`RelayProofs` proves, for every input, amount and width of the integers, every
allowance given before and routes of any number of transactions and calls:

* `RouteTypeCorrect`, `RouteWithinQuote`, `RouteStrandsNothing`, `RoutePaysOnce`,
  `RouteOrderMatches`: the run's five invariants.

None of them is inductive: they speak of an accepted route, and `IInv` says why it may
be accepted. Its heart is the relation between the tab and the wallet. Before the
funding transaction the tab is ahead of the wallet holder by holder: whatever a
contract may still take, the tab counts (`TabCovers`, `TabAhead`, `TxAhead`). A pull
settles the tab at once although its transaction may never be sent, so from then on
only the totals compare (`Funding`, `Value`): what was taken plus what is still
granted is at most what the tab has counted. `Stranded` relates the flow through the
router to the tokens in it, `Ordered` the order read to the quote, and `Accepted`
collects what the last check has compared. Assumptions: `RelayQuoteAssumption` only
(the amounts are naturals within the width).

`SettlementProofs` proves, for any number of workers, handlers and reconcilers, any
retry limit and any number of faults:

* `SettlementCorrect`: the inductive invariant `SettlementInv`;
* `PaidIsDriven` and `VerdictCorrect`: `PaidHasDriver` and `VerdictIsTrue`;
* `SettlementFollowsLifecycle`: every step of the composed system is a step of the
  store, and so of the lifecycle or a stutter;
* `RetriesAreNew`: `RetryIsNewJob`.

`PaidHasDriver` is not inductive: the one live row might be held by a worker that is
about to delete it or to mark it dead. `DriverIsSpared` asks for a live row that no such
worker holds. It survives because a worker only gets there after it has seen, or made,
the deposit have a job or not be paid, and because every step that detaches the job
commits a row with a sequence no worker has seen yet (`JobsAreKnown` bounds the workers'
sequences by `event_seq`). `VerdictIsTrue` needs that every report on its way, in the
engine, in an event or in a process, that claims an execution is about the one there was
(`ReportsAreTrue`); the factory deploys once, so a true report stays true however late
it is applied. The proof has a frame lemma per kind of process and a case per action.
`RetryIsNewJob` speaks of a worker that has submitted; why its key was unused is in
`KeyInv`, on top of `SettlementInv`: as long as no worker has failed and nothing was
requeued, a row is locked exactly while one worker holds it, no two workers hold the same
row, and the key of a row that can still be claimed, or that its worker has not yet
submitted, names no job. A new row's key is fresh because the engine only knows keys up
to `event_seq`. Budgets only shrink, so a step that ends in such a state began in one.
Assumptions: `StoreAssumption`, `SettlementAssumption`.

`DetectionProofs` proves, for any amount, any number of workers, handlers, reconcilers,
watches, payments and faults:

* `DetectionCorrect`: the inductive invariant `DetectionInv`, and from it
  `DetectionTypes` (`TypeOK`), `OpenStaysWatched` (`OpenIsWatched`), `PaidStaysFunded`
  (`PaidIsFunded`) and `NoEarlyExpiry` (`ExpiredAfterExpiry`);
* `DetectionImplementsStore`: every step is a step of the store or leaves it alone, and
  from that and the store's theorems `DetectionFollowsLifecycle` (the refinement
  `ImplementsLifecycle`), `DetectionStatus` and `DetectionCauses`.

`OpenIsWatched` fails to be inductive for the reason `PaidHasDriver` does, and
`WatchIsSpared` is the same remedy: the row that will register the watch is not in the
hands of a worker that is about to drop it. `PaidIsFunded` needs that a report is true
however late it is applied: totals of a watch only grow and none exceeds the chain's
(`WatchesAreTrue`), so a report on its way understates them (`ReportsAreTrue`); a reorg
takes back only what no watch has counted (`ReadyIsFunded`), and a deposit that was ready
is never open again, so no older confirmation lowers its total. Early expiry is excluded
by what the one who expires has seen: a worker at `expire`, or an expired watch, implies
that the clock has passed (`WorkersAreRight`, `WatchesAreTrue`), and a report of an expiry
that, or that its watch was cancelled, which is never taken back (`MayExpire`). Assumptions:
`StoreAssumption`, `DetectionAssumption`, which asks that every total the payer can reach
is one the store may be given.

`NotifyProofs` proves, for any number of workers, events, refusals, faults, given-up and
requeued rows, with and without a webhook url:

* `NotifyCorrect`: the inductive invariant `NotifyInv`, and from it `AppSeesOrder`
  (`InOrder`) and `AppKnowsVerdict` (`AppLearnsVerdict`);
* `NotifyImplementsStore`: every step is the store's or leaves it alone.

`InOrder` is about what has arrived; what makes it inductive is that every request on its
way was claimed in its turn, whether its worker still holds it, has given up on it or has
crashed: all earlier events of the app have reached it or were given up on (`HeldInTurn`,
`LateInTurn`, `DoneIsReached`), because an event leaves the table only when that is so
(`AwaitedOrReached`). `DeliveredInTurn` keeps this for every delivery in the history, and
`EachIsSeen` relates redeliveries to the first one, which the app keeps. Assumptions:
`StoreAssumption`, `NotifyAssumption`.

`ApiProofs` proves, for any number of replicas, requests, sessions, keys, bodies, prunes
and failures, `ApiCorrect` (`ApiInv`), `ApiTypes` (`TypeOK`) and `IdempotencyCorrect`
(`OneDepositPerKey`). The unique index lets one transaction hold the key, and only while
no committed row has it (`OneClaim`); the remembered row names the deposit that everyone
was answered with (`RowIsTrue`); and a key that is free counts as a deposit that may still
be made (`DepositsCounted`), without which the bound is not inductive. Assumptions:
`ApiAssumption`.

`ReplicaProofs` proves, for any number of handlers and rows, any pool, semaphore and batch
and any number of panics, `ReplicaCorrect` (`ReplicaInv`), `ReplicaTypes` (`TypeOK`, with
the pool never overdrawn), `NoWakeLost` (`WakeNotLost`) and `OrderlyStop`
(`OrderlyStopFinishesJobs`). A row its claims have not seen must be announced, by a wake-up that is waiting or by the
handler or job that is about to send it (`Announced`), already while the loop spawns and
awaits its batch, and a full batch, which leaves rows unseen, must not lead to sleep
(`FreshIsAnnounced`); a run whose task is over has jobs
only among the orphans, because its drain took every permit and each of its running jobs
holds one (`EndedRunHasNoJob`, `PermitsRespected`, by cardinality). Assumptions:
`ReplicaAssumption`.

`RelayProofs` also proves `RoutesCorrect` (`RoutesInv`), `RoutesTypeCorrect` (`RoutesTypeOK`),
`RoutesDoNotHerd` (`NoHerd`) and `RoutesKnowDecimals` (`RightDecimals`) of `RelayRoutes`,
for any number of payers, lists, tokens and statuses and any times to live and budgets.
`NoHerd` needs that a call that has ended is remembered, by its list or by its failure,
and that nobody is in a call that began before it (`EndedIsKept`, `OneFetch`): only then
does the next payer behind the lock find an answer. Assumptions: `RoutesAssumption`.

`PayFeedProofs` proves, for any number of readers, changes and lost connections and any
capacity of the channel, `FeedMissesNothing` (`NoMissedChange`) and
`FeedAnswersConsistently` (`AnswersAreConsistent`). A wake is handed on from a listener
that is not up yet to its queue, to each receiver and, when that overflows, to its lag
mark; `ReceivedFacts` and `BroadcastFacts` say that none is dropped. Answers need
`ReadsAreTrue`: what a request has read is a status the timeline had at that sequence,
which stays so because the timeline only grows. Assumptions: `StoreAssumption`,
`PayFeedAssumption`.

All invariants of the passing runs and their refinement are proved. Left to TLC is what
needs fairness, which is out of the prover's reach: `PaidIsResolved`, `FundedIsNoticed`,
`EventsReachApp`, `HeldIsAnswered`, `RotatedKeyDies`, `OwnerGetsRow`, `OldListDies`,
`FinalStatusStays`, `NoDepositStarves`, `HandlersServed`, `OutboxKeepsClaiming` and
`ShutdownEnds`; and the two violations. Each strengthened invariant was checked by TLC on
the runs' instances before it was proved.

The type invariants of `Settlement`, `Notify`, `PayFeed` and `DepositStore` are conjuncts
of the proved invariants and have no run of their own.

## 5. Not modelled

HTTP, JSON, HMAC and JWT verification, CREATE2 and ABI encoding, metrics, configuration
and logging: they are pure functions of one request, a library's work, or have no effect
on the protocol. `chain/revert.rs` words a revert for people; no decision depends on it.
Which bodies of a create are valid is a table of single checks; a refused one is a failed
request. A list of deposits is one statement per page over the total order
`(created_at, id)`, so a page never repeats another's rows, and a transaction that commits
late may fall behind the cursor. Durations appear only as the order of events they permit.
Whether a deposit has a webhook url is a constant although an owner may change a default
url between two events (a url set later gets no earlier events). In `RelayQuote` each
role is one address, there is one router and one token (the run leaves out the second of
the two proxies, which obey the same rules; the proofs have both), and an order lists at
most two payments and inputs. In `RelayRoutes` a list is one origin chain and the
deposit's chain; whether a deposit is open, a read budget used up, or a search, price or
logo cached is a free choice where it is read. In `Replica` what handlers and jobs write
is left out, single statements take and give back a connection in one step, and the
reconciler, which is one task with short statements, is not among the holders; it, a create
and the operator's calls commit rows and then call `notify_one` as handlers do. Rows that
another replica commits wake only that replica and are left out, but for those in the table
at the start. `Api` has
one replica in its run: a second only adds a cache that no rotation reaches, which the
expiry of the first already shows. The webhook secret and the default url are single
UPDATEs of one row.

## 6. Plan

1. done: `DepositLifecycle`, `DepositStore`, `Settlement`, `Detection`, `Notify`,
   `PayFeed`, `Api`, `RelayQuote`, `RelayRoutes`, `Replica`, their runs, and a proof of
   every invariant the runs check.
2. next, in the proofs: the safety half of liveness properties, as far as it can be
   stated without fairness (a rotated key is only cached by a request that read it before
   the rotation; an older status is only kept by a call that began before the last one;
   a paid deposit with a job has a job the engine knows).
3. in the models, if the code grows there: the walk through a list of deposits beside
   concurrent creates, and a webhook url that changes between two events.
