----------------------------- MODULE Settlement -----------------------------
(***************************************************************************)
(* From `paid` to `settled` or `failed`.                                   *)
(*                                                                         *)
(* Four kinds of process of gum-server work on one paid deposit at once,   *)
(* on any number of replicas: outbox workers running submit_execute, the   *)
(* handlers of gum-engine's webhook, the reconciler's reconcile_paid, and  *)
(* the operator's admin endpoints.  Each reads the deposit, waits (for     *)
(* gum-engine or for the database) and then writes through a guarded       *)
(* transition of DepositStore; here every such read and write is a step.   *)
(*                                                                         *)
(* gum-engine and the chain are external.  They are modelled from what the *)
(* code relies on: one job per idempotency key, at-least-once events, and  *)
(* one successful PaymentFactory.execute per payment address.              *)
(***************************************************************************)
EXTENDS DepositStore, FiniteSets

CONSTANTS
    Workers,          \* outbox worker tasks, over all replicas
    Handlers,         \* engine webhook requests being handled
    Reconcilers,      \* reconciler tasks, one per replica
    MAX_AUTO_RETRIES,
    Deployments,      \* what a successful execute may leave on chain
    MaxWorkerFaults,  \* bound: crashes, timeouts and early lock expiries
    MaxActorFaults,   \* bound: handler and reconciler aborts, inbound ids dropped
                      \* or pruned
    MaxEngineFaults,  \* bound: jobs the engine refuses, fails or forgets
    MaxOperator,      \* bound: admin retries
    MaxRequeues       \* bound: admin requeues

VARIABLES
    worker,           \* per worker: step, outbox row (its seq), replayed
    actor,            \* per handler or reconciler: step, job, what it learnt
    jobs,             \* gum-engine's jobs, by idempotency key
    sent,             \* events gum-engine has sent; they stay deliverable
    inbound,          \* inbound_events: ids already processed
    chain,            \* the payment address: [deployed, by]
    budget            \* what is left of the bounds above

engineVars == <<jobs, sent, chain>>
vars == <<storeVars, worker, actor, engineVars, inbound, budget>>

Actors == Handlers \cup Reconcilers

ASSUME SettlementAssumption ==
    /\ MAX_AUTO_RETRIES \in Nat
    /\ Deployments \subseteq {"settled", "recovered", "wrong_chain", "no_events"}
    /\ {MaxWorkerFaults, MaxActorFaults, MaxEngineFaults, MaxOperator, MaxRequeues} \subseteq Nat
    /\ Handlers \cap Reconcilers = {}

-----------------------------------------------------------------------------
(* Data                                                                    *)

\* A job's end: execute was mined (and what it left), it reverted on chain,
\* the engine gave up before executing it (RETRYABLE_ENGINE_ERRORS), or
\* refused it for good (its simulation reverted, say).
Outcome == {"settled", "recovered", "wrong_chain", "no_events",
            "reverted", "dropped", "refused"}

JobState == Outcome \cup {"queued", "unknown"}

\* What an event, or a poll, tells of a job.
Report == Outcome \cup {"included"}

Event == [job: Nat, what: Report]

WorkerStep == {"idle", "load", "submit", "mark", "reject", "done", "retry", "dead"}
ActorStep  == {"idle", "poll", "count", "apply"}

\* "resubmit" is the decision to queue a fresh execute; "none" before any.
Plan == Report \cup {"resubmit", "none"}

IdleWorker == [step |-> "idle", seq |-> 0, replayed |-> FALSE]
IdleActor  == [step |-> "idle", job |-> NULL, what |-> "none"]

RowOf(w) == OutboxJob("submit_execute", worker[w].seq)

Spend(kind) ==
    /\ budget[kind] > 0
    /\ budget' = [budget EXCEPT ![kind] = @ - 1]

TypeOK ==
    /\ StoreTypeOK
    /\ worker \in [Workers -> [step: WorkerStep, seq: Nat, replayed: BOOLEAN]]
    /\ actor \in [Actors -> [step: ActorStep, job: Nat, what: Plan]]
    /\ DOMAIN jobs \subseteq Nat \ {NULL}
    /\ jobs \in [DOMAIN jobs -> JobState]
    /\ sent \subseteq Event
    /\ inbound \subseteq Event
    /\ chain \in [deployed: Deployments \cup {"no"}, by: Nat]
    /\ budget \in [{"worker", "actor", "engine", "operator", "requeue"} -> Nat]

\* apply_threshold_reached has just committed: the deposit is paid and its
\* submit_execute row is queued.
Init ==
    /\ row = [NewDeposit EXCEPT !.status = "paid", !.confirmed = Amount, !.watch = 1]
    /\ timeline = <<"created", "watch_registered", "ready">>
    /\ outbox = {OutboxJob("submit_execute", 3)} \cup
                (IF AppWebhook THEN {OutboxJob("notify_app", 3)} ELSE {})
    /\ dead = {} /\ locked = {}
    /\ worker = [w \in Workers |-> IdleWorker]
    /\ actor = [a \in Actors |-> IdleActor]
    /\ jobs = [k \in {} |-> "queued"]
    /\ sent = {} /\ inbound = {}
    /\ chain = [deployed |-> "no", by |-> NULL]
    /\ budget = [worker |-> MaxWorkerFaults, actor |-> MaxActorFaults,
                 engine |-> MaxEngineFaults, operator |-> MaxOperator,
                 requeue |-> MaxRequeues]

-----------------------------------------------------------------------------
(* Outbox workers running submit_execute                                   *)

Goto(w, step) == worker' = [worker EXCEPT ![w].step = step]

ClaimJob(w) ==
    /\ worker[w].step = "idle"
    /\ \E r \in outbox :
        /\ r.kind = "submit_execute"
        /\ claim(r)
        /\ worker' = [worker EXCEPT ![w] = [step |-> "load", seq |-> r.seq, replayed |-> FALSE]]
    /\ UNCHANGED <<actor, engineVars, inbound, budget>>

\* store::get, then the two early returns.
LoadDeposit(w) ==
    /\ worker[w].step = "load"
    /\ Goto(w, IF row.status = "paid" /\ row.job = NULL THEN "submit" ELSE "done")
    /\ UNCHANGED <<storeVars, actor, engineVars, inbound, budget>>

\* engine.submit under the row's idempotency key: accepted, or replayed when
\* the engine has the key already.
AcceptJob(k) ==
    jobs' = [j \in DOMAIN jobs \cup {k} |-> IF j \in DOMAIN jobs THEN jobs[j] ELSE "queued"]

\* Mutant: a deposit's first key is used for every attempt.
SubmitAccepted_one_key(w) ==
    LET k == CHOOSE i \in Asking : \A j \in Asking : i <= j
    IN  /\ worker[w].step = "submit"
        /\ AcceptJob(k)
        /\ worker' = [worker EXCEPT ![w] = [step |-> "mark", seq |-> k, replayed |-> k \in DOMAIN jobs]]
        /\ UNCHANGED <<storeVars, actor, sent, chain, inbound, budget>>

SubmitAccepted(w) ==
    LET k == worker[w].seq
    IN  /\ worker[w].step = "submit"
        /\ AcceptJob(k)
        /\ worker' = [worker EXCEPT ![w].step = "mark", ![w].replayed = k \in DOMAIN jobs]
        /\ UNCHANGED <<storeVars, actor, sent, chain, inbound, budget>>

\* The engine took the job but its answer is lost, late or malformed.
SubmitAnswerLost(w) ==
    /\ worker[w].step = "submit"
    /\ Spend("worker")
    /\ AcceptJob(worker[w].seq)
    /\ Goto(w, "retry")
    /\ UNCHANGED <<storeVars, actor, sent, chain, inbound>>

\* A 4xx answer; the engine never rejects a key it has accepted.
SubmitRejected(w) ==
    /\ worker[w].step = "submit"
    /\ worker[w].seq \notin DOMAIN jobs
    /\ Spend("engine")
    /\ Goto(w, "reject")
    /\ UNCHANGED <<storeVars, actor, engineVars, inbound>>

MarkSubmitted(w) ==
    /\ worker[w].step = "mark"
    /\ mark_engine_submitted(worker[w].seq, worker[w].replayed)
    /\ Goto(w, "done")
    /\ UNCHANGED <<actor, engineVars, inbound, budget>>

RecordRejection(w) ==
    /\ worker[w].step = "reject"
    /\ apply_failed("engine_rejected", NULL)
    /\ Goto(w, "dead")
    /\ UNCHANGED <<actor, engineVars, inbound, budget>>

\* execute_job's last statement on the row, by how the attempt ended.
FinishJob(w) ==
    /\ \/ worker[w].step = "done"  /\ delete_row(RowOf(w))
       \/ worker[w].step = "retry" /\ retry_later(RowOf(w))
       \/ worker[w].step = "dead"  /\ mark_dead(RowOf(w))
    /\ worker' = [worker EXCEPT ![w] = IdleWorker]
    /\ UNCHANGED <<actor, engineVars, inbound, budget>>

\* run_bounded's timeout, or a database error: rescheduled with backoff.
AbandonJob(w) ==
    /\ worker[w].step \notin {"idle", "retry"}
    /\ Spend("worker")
    /\ Goto(w, "retry")
    /\ UNCHANGED <<storeVars, actor, engineVars, inbound>>

\* The process dies, or the row cannot be finalised: its lock will expire.
WorkerCrash(w) ==
    /\ worker[w].step # "idle"
    /\ Spend("worker")
    /\ worker' = [worker EXCEPT ![w] = IdleWorker]
    /\ UNCHANGED <<storeVars, actor, engineVars, inbound>>

Held(r) == \E w \in Workers : worker[w].step # "idle" /\ RowOf(w) = r

\* A batch of 32 waits for 8 permits, each job up to 30 s: the 60 s lock of a
\* job at the end of the batch can expire while a worker still holds it.
LockExpires(r) ==
    /\ lock_expires(r)
    /\ IF Held(r) THEN Spend("worker") ELSE UNCHANGED budget
    /\ UNCHANGED <<worker, actor, engineVars, inbound>>

-----------------------------------------------------------------------------
(* gum-engine and the chain (external)                                     *)

EndJob(k, outcome) ==
    /\ jobs[k] = "queued"
    /\ jobs' = [jobs EXCEPT ![k] = outcome]
    /\ sent' = sent \cup {[job |-> k, what |-> outcome]}
    /\ UNCHANGED <<storeVars, worker, actor, inbound>>

\* The transaction is mined; it is not final yet.
EngineInclude(k) ==
    /\ jobs[k] = "queued"
    /\ chain.deployed = "no"
    /\ sent' = sent \cup {[job |-> k, what |-> "included"]}
    /\ UNCHANGED <<storeVars, worker, actor, jobs, chain, inbound, budget>>

\* execute succeeded and is confirmed; the factory deploys a payment once.
EngineConfirm(k) ==
    /\ chain.deployed = "no"
    /\ \E o \in Deployments :
        /\ chain' = [deployed |-> o, by |-> k]
        /\ EndJob(k, o)
    /\ UNCHANGED budget

\* Its simulation reverts with AlreadyDeployed: some job executed before.
EngineAlreadyDeployed(k) ==
    /\ chain.deployed # "no"
    /\ EndJob(k, "refused")
    /\ UNCHANGED <<chain, budget>>

\* A failure of the engine or of the calls, the chain left as it was.
EngineFail(k) ==
    /\ Spend("engine")
    /\ \E o \in {"reverted", "dropped", "refused"} : EndJob(k, o)
    /\ UNCHANGED chain

\* The engine loses a job it has not executed.
EngineForget(k) ==
    /\ jobs[k] \in {"queued", "dropped"}
    /\ Spend("engine")
    /\ jobs' = [jobs EXCEPT ![k] = "unknown"]
    /\ UNCHANGED <<storeVars, worker, actor, sent, chain, inbound>>

-----------------------------------------------------------------------------
(* apply_settlement, shared by the webhook handlers and the reconciler     *)

\* What SettlementOutcome and RETRYABLE_ENGINE_ERRORS make of a report: only
\* a job dropped before it executed asks for the retry count first.
NextStep(what) == IF what = "dropped" THEN "count" ELSE "apply"

Retries == Cardinality({i \in 1..Len(timeline) : timeline[i] = "settlement_retried"})

CountRetries(a) ==
    /\ actor[a].step = "count"
    /\ actor' = [actor EXCEPT ![a].step = "apply",
                              ![a].what = IF Retries < MAX_AUTO_RETRIES
                                          THEN "resubmit" ELSE "dropped"]
    /\ UNCHANGED <<storeVars, worker, engineVars, inbound, budget>>

\* from_receipt and engine_failure: the failure each report becomes, and
\* whether a transaction comes with it.
Failures == {
    [what |-> "recovered",   code |-> "expired_on_chain",   mined |-> TRUE],
    [what |-> "wrong_chain", code |-> "wrong_chain",        mined |-> TRUE],
    [what |-> "no_events",   code |-> "unexpected_outcome", mined |-> TRUE],
    [what |-> "reverted",    code |-> "execution_reverted", mined |-> TRUE],
    [what |-> "dropped",     code |-> "engine_retryable",   mined |-> FALSE],
    [what |-> "refused",     code |-> "engine_refused",     mined |-> FALSE]}

\* The guards ask for `paid`, not for the job the report is about.
apply_settlement(job, what) ==
    \/ what = "included" /\ apply_settlement_included(job)
    \/ what = "settled"  /\ apply_settled(job)
    \/ what = "resubmit" /\ resubmit
    \/ \E f \in Failures :
        f.what = what /\ apply_failed(f.code, IF f.mined THEN job ELSE NULL)

\* The event a handler is applying: CountRetries may have turned what it says
\* into the decision to resubmit.
EventOf(a) == [job |-> actor[a].job,
               what |-> IF actor[a].what = "resubmit" THEN "dropped" ELSE actor[a].what]

\* The guarded transition and the commit; a handler's commit also keeps its
\* claim on the event.
ApplySettlement(a) ==
    /\ actor[a].step = "apply"
    /\ apply_settlement(actor[a].job, actor[a].what)
    /\ inbound' = inbound \cup (IF a \in Handlers THEN {EventOf(a)} ELSE {})
    /\ actor' = [actor EXCEPT ![a] = IdleActor]
    /\ UNCHANGED <<worker, engineVars, budget>>

\* A database error, the tick's timeout or a crash: the transaction is rolled
\* back, and with it a handler's claim on the event.
ActorAborts(a) ==
    /\ actor[a].step # "idle"
    /\ Spend("actor")
    /\ actor' = [actor EXCEPT ![a] = IdleActor]
    /\ UNCHANGED <<storeVars, worker, engineVars, inbound>>

-----------------------------------------------------------------------------
(* The engine webhook: apply_engine_event                                  *)

\* claim_inbound waits for a transaction that is claiming the same id, and
\* refuses an id already processed (the event is acknowledged, unapplied).
ClaimsInbound(e) ==
    /\ e \in sent \ inbound
    /\ ~ \E h \in Handlers : actor[h].step # "idle" /\ EventOf(h) = e

\* The job is the deposit's: read it and go on in the same transaction.  For a
\* job not recorded (yet) the answer is 503 and nothing changes.
ReceiveEvent(h, e) ==
    /\ actor[h].step = "idle"
    /\ ClaimsInbound(e)
    /\ row.job = e.job
    /\ actor' = [actor EXCEPT ![h] = [step |-> NextStep(e.what), job |-> e.job, what |-> e.what]]
    /\ UNCHANGED <<storeVars, worker, engineVars, inbound, budget>>

\* UNKNOWN_JOB_GRACE_SECS later an event for an unrecorded job is taken for
\* someone else's: acknowledged, never to be delivered again.
DropUnknownEvent(e) ==
    /\ ClaimsInbound(e)
    /\ row.job # e.job
    /\ Spend("actor")
    /\ inbound' = inbound \cup {e}
    /\ UNCHANGED <<storeVars, worker, actor, engineVars>>

-----------------------------------------------------------------------------
(* The reconciler: reconcile_paid and prune                                *)

\* stale_paid; how long the deposit has been quiet is left open.
SelectStale(p) ==
    /\ actor[p].step = "idle"
    /\ row.status = "paid" /\ row.job # NULL
    /\ actor' = [actor EXCEPT ![p] = [step |-> "poll", job |-> row.job, what |-> "none"]]
    /\ UNCHANGED <<storeVars, worker, engineVars, inbound, budget>>

\* Mutant: a lost job is taken for one in flight.
PollJob_waits_for_unknown(p) ==
    LET state == jobs[actor[p].job]
    IN  /\ actor[p].step = "poll"
        /\ actor' = [actor EXCEPT ![p] =
              IF state \in {"queued", "unknown"} THEN IdleActor
              ELSE [@ EXCEPT !.step = NextStep(state), !.what = state]]
        /\ UNCHANGED <<storeVars, worker, engineVars, inbound, budget>>

\* get_job: still in flight (touch and go on), unknown to the engine
\* (resubmit), or ended.
PollJob(p) ==
    LET state == jobs[actor[p].job]
    IN  /\ actor[p].step = "poll"
        /\ actor' = [actor EXCEPT ![p] =
              IF state = "queued" THEN IdleActor
              ELSE IF state = "unknown" THEN [@ EXCEPT !.step = "apply", !.what = "resubmit"]
              ELSE [@ EXCEPT !.step = NextStep(state), !.what = state]]
        /\ UNCHANGED <<storeVars, worker, engineVars, inbound, budget>>

\* prune: inbound ids are forgotten after seven days.
PruneInbound(e) ==
    /\ e \in inbound
    /\ Spend("actor")
    /\ inbound' = inbound \ {e}
    /\ UNCHANGED <<storeVars, worker, actor, engineVars>>

-----------------------------------------------------------------------------
(* The operator                                                            *)

OperatorRetry ==
    /\ row.status = "failed"
    /\ Spend("operator")
    /\ retry_settlement
    /\ UNCHANGED <<worker, actor, engineVars, inbound>>

OperatorRequeue(r) ==
    /\ Spend("requeue")
    /\ admin_requeue(r)
    /\ UNCHANGED <<worker, actor, engineVars, inbound>>

-----------------------------------------------------------------------------
WorkerNext(w) ==
    \/ ClaimJob(w) \/ LoadDeposit(w)
    \/ SubmitAccepted(w) \/ SubmitAnswerLost(w) \/ SubmitRejected(w)
    \/ MarkSubmitted(w) \/ RecordRejection(w) \/ FinishJob(w)
    \/ AbandonJob(w) \/ WorkerCrash(w)

EngineNext(k) ==
    \/ EngineInclude(k) \/ EngineConfirm(k) \/ EngineAlreadyDeployed(k)
    \/ EngineFail(k) \/ EngineForget(k)

Next ==
    \/ \E w \in Workers : WorkerNext(w)
    \/ \E r \in outbox : LockExpires(r) \/ OperatorRequeue(r)
    \/ \E k \in DOMAIN jobs : EngineNext(k)
    \/ \E a \in Actors : CountRetries(a) \/ ApplySettlement(a) \/ ActorAborts(a)
    \/ \E h \in Handlers, e \in sent : ReceiveEvent(h, e)
    \/ \E e \in sent : DropUnknownEvent(e) \/ PruneInbound(e)
    \/ \E p \in Reconcilers : SelectStale(p) \/ PollJob(p)
    \/ OperatorRetry

Spec == Init /\ [][Next]_vars

\* Tokio keeps running the tasks a replica has started, and expired locks are
\* in the past for ever; gum-engine is assumed to end every job.  Nothing is
\* assumed of webhooks, of the operator or of failures.
Fairness ==
    /\ \A w \in Workers :
        WF_vars(ClaimJob(w) \/ LoadDeposit(w) \/ SubmitAccepted(w) \/ MarkSubmitted(w)
                \/ RecordRejection(w) \/ FinishJob(w))
    /\ WF_vars(\E r \in outbox : ~Held(r) /\ LockExpires(r))
    /\ WF_vars(\E k \in DOMAIN jobs : EngineConfirm(k) \/ EngineAlreadyDeployed(k))
    /\ \A p \in Reconcilers :
        WF_vars(SelectStale(p) \/ PollJob(p) \/ CountRetries(p) \/ ApplySettlement(p))
    /\ \A h \in Handlers : WF_vars(CountRetries(h) \/ ApplySettlement(h))

FairSpec == Spec /\ Fairness

-----------------------------------------------------------------------------
(* Properties                                                              *)

\* No paid deposit is stranded: while it has no engine job, a live outbox row
\* will submit one.  Neither a worker finishing on what it read before the
\* deposit was detached from its job, nor a crash, nor an expired lock may take
\* that row away (submit_execute, execute_job, resubmit, retry_settlement).
PaidHasDriver ==
    row.status = "paid" /\ row.job = NULL =>
        \E r \in outbox \ dead : r.kind = "submit_execute"

\* `settled` is only ever said of a payment that settled on chain, with the
\* transaction that did it, and `expired_on_chain` of one that went to
\* recovery, whatever order reports of several jobs are applied in
\* (from_receipt, apply_settled, apply_failed).
VerdictIsTrue ==
    /\ row.status = "settled" => chain = [deployed |-> "settled", by |-> row.tx]
    /\ row.failure = "expired_on_chain" => chain.deployed = "recovered"

\* A deposit that settled on chain is not reported failed
\* (apply_settlement, resubmit: their guard is the status alone).
SettledNotFailed ==
    ~ (chain.deployed = "settled" /\ row.status = "failed")

\* A retry is a new job, not a replay of the failed one: as long as no worker
\* has crashed, timed out or lost its lock and no row was requeued by hand, the
\* engine is never sent a key it knows, however often handlers, reconcilers and
\* the operator resubmit on what they read before (enqueue_execute, resubmit,
\* retry_settlement, submit_execute).
RetryIsNewJob ==
    budget.worker = MaxWorkerFaults /\ budget.requeue = MaxRequeues =>
        \A w \in Workers : ~worker[w].replayed

\* Every paid deposit reaches a verdict, without any webhook
\* (reconcile_paid, the outbox).
PaidIsResolved == row.status = "paid" ~> row.status \in {"settled", "failed"}
=============================================================================
