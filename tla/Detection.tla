----------------------------- MODULE Detection ------------------------------
(***************************************************************************)
(* From `pending` to `paid`, `expired` or `failed`.                        *)
(*                                                                         *)
(* Outbox workers register the deposit's watch with gum-indexer, handlers  *)
(* of gum-indexer's webhook apply what it reports, and the reconciler      *)
(* polls quiet deposits, re-registers watches the indexer no longer knows  *)
(* and, a day late, expires what nobody reported.  Each of them reads the  *)
(* deposit, waits and then writes through a guarded transition of          *)
(* DepositStore; every such read and write is a step.                      *)
(*                                                                         *)
(* gum-indexer, the payer and the chain are external: one watch per active *)
(* registration, at-least-once events in any order, totals that grow.      *)
(***************************************************************************)
EXTENDS DepositStore, FiniteSets

CONSTANTS
    Workers,          \* outbox worker tasks, over all replicas
    Handlers,         \* indexer webhook requests being handled
    Reconcilers,      \* reconciler tasks, one per replica
    Delivered,        \* bound: kinds of events whose webhooks may get through
    MaxOnchain,       \* bound: units the payer sends
    MaxWorkerFaults,  \* bound: lost answers, crashes, timeouts, early lock expiries
    MaxActorFaults,   \* bound: handler and reconciler aborts
    MaxIndexerFaults, \* bound: watches refused, cancelled or lost, transfers reorged out
    MaxOperator       \* bound: admin retries

VARIABLES
    worker,           \* per worker: step, outbox row (its seq), watch id
    actor,            \* per handler or reconciler: step, watch, what it will apply
    watches,          \* gum-indexer's watches, by id, in the order it made them
    sent,             \* events gum-indexer has sent and that may get through, at any time
    inbound,          \* inbound_events: ids already processed
    onchain,          \* units the payment address has received
    clock,            \* now() against expires_at
    budget            \* what is left of the bounds above

indexerVars == <<watches, sent>>
worldVars == <<onchain, clock>>
vars == <<storeVars, worker, actor, indexerVars, inbound, worldVars, budget>>

Actors == Handlers \cup Reconcilers

ASSUME DetectionAssumption ==
    /\ {MaxOnchain, MaxWorkerFaults, MaxActorFaults, MaxIndexerFaults, MaxOperator} \subseteq Nat
    /\ Handlers \cap Reconcilers = {}
    /\ 1..MaxOnchain \subseteq Totals

-----------------------------------------------------------------------------
(* Data                                                                    *)

WatchState == {"active", "completed", "expired", "cancelled"}

\* A watch the indexer has lost is not known to it any more.
Watch == [state: WatchState, total: Nat, known: BOOLEAN]

EventKind == {"payment.pending", "payment.confirmed", "payment.orphaned",
              "threshold.reached", "watch.expired"}

\* A webhook event and, under "watch.lost", the reconciler's own conclusion.
Report == [watch: Nat, type: EventKind \cup {"watch.lost"}, total: Nat]
NoReport == [watch |-> NULL, type |-> "watch.lost", total |-> 0]

WorkerStep == {"idle", "load", "expire", "create", "mark", "reject", "done", "retry", "dead"}

\* Before expires_at, past it, and past it by EXPIRY_GRACE_SECS.
Clock == {"open", "past", "overdue"}

IdleWorker == [step |-> "idle", seq |-> 0, watch |-> NULL]
IdleActor  == [step |-> "idle", report |-> NoReport, fill |-> FALSE, ours |-> 0]

RowOf(w) == OutboxJob("register_watch", worker[w].seq)

Spend(kind) ==
    /\ budget[kind] > 0
    /\ budget' = [budget EXCEPT ![kind] = @ - 1]

TypeOK ==
    /\ StoreTypeOK
    /\ worker \in [Workers -> [step: WorkerStep, seq: Nat, watch: Nat]]
    /\ actor \in [Actors -> [step: {"idle", "poll", "apply"}, report: Report,
                             fill: BOOLEAN, ours: Nat]]
    /\ watches \in Seq(Watch)
    /\ sent \subseteq Report /\ inbound \subseteq sent
    /\ onchain \in Nat
    /\ clock \in Clock
    /\ budget \in [{"worker", "actor", "indexer", "operator"} -> Nat]

Init ==
    /\ StoreInit
    /\ worker = [w \in Workers |-> IdleWorker]
    /\ actor = [a \in Actors |-> IdleActor]
    /\ watches = <<>> /\ sent = {} /\ inbound = {}
    /\ onchain = 0 /\ clock = "open"
    /\ budget = [worker |-> MaxWorkerFaults, actor |-> MaxActorFaults,
                 indexer |-> MaxIndexerFaults, operator |-> MaxOperator]

-----------------------------------------------------------------------------
(* Outbox workers running register_watch                                   *)

Goto(w, step) == worker' = [worker EXCEPT ![w].step = step]

ClaimJob(w) ==
    /\ worker[w].step = "idle"
    /\ \E r \in outbox :
        /\ r.kind = "register_watch"
        /\ claim(r)
        /\ worker' = [worker EXCEPT ![w] = [IdleWorker EXCEPT !.step = "load", !.seq = r.seq]]
    /\ UNCHANGED <<actor, indexerVars, inbound, worldVars, budget>>

\* store::get, then the early returns: already watched or over, and a
\* registration that comes after the deposit's own expiry.
LoadDeposit(w) ==
    /\ worker[w].step = "load"
    /\ Goto(w, IF row.watch # NULL \/ row.status \in Terminal THEN "done"
               ELSE IF clock # "open" THEN "expire" ELSE "create")
    /\ UNCHANGED <<storeVars, actor, indexerVars, inbound, worldVars, budget>>

ExpireUnregistered(w) ==
    /\ worker[w].step = "expire"
    /\ apply_expired(row)
    /\ Goto(w, "done")
    /\ UNCHANGED <<actor, indexerVars, inbound, worldVars, budget>>

Active(i) == watches[i].known /\ watches[i].state = "active"

\* create_watch, idempotent at the indexer: an active watch on the address is
\* the one returned.  A watch is not accepted after its expiry.
AcceptWatch(w, step) ==
    LET active == {i \in 1..Len(watches) : Active(i)}
        id     == IF active = {} THEN Len(watches) + 1 ELSE CHOOSE i \in active : TRUE
    IN  /\ clock = "open"
        /\ id \in Watches
        /\ watches' = IF active = {}
                      THEN Append(watches, [state |-> "active", total |-> 0, known |-> TRUE])
                      ELSE watches
        /\ worker' = [worker EXCEPT ![w].step = step, ![w].watch = id]

CreateAccepted(w) ==
    /\ worker[w].step = "create"
    /\ AcceptWatch(w, "mark")
    /\ UNCHANGED <<storeVars, actor, sent, inbound, worldVars, budget>>

\* The watch exists but the answer is lost, late or malformed.
CreateAnswerLost(w) ==
    /\ worker[w].step = "create"
    /\ Spend("worker")
    /\ AcceptWatch(w, "retry")
    /\ UNCHANGED <<storeVars, actor, sent, inbound, worldVars>>

\* A 4xx answer: because the expiry has passed meanwhile, or for good.
CreateRejected(w) ==
    /\ worker[w].step = "create"
    /\ IF clock = "open" THEN Spend("indexer") ELSE UNCHANGED budget
    /\ Goto(w, "reject")
    /\ UNCHANGED <<storeVars, actor, indexerVars, inbound, worldVars>>

MarkRegistered(w) ==
    /\ worker[w].step = "mark"
    /\ mark_watch_registered(worker[w].watch)
    /\ Goto(w, "done")
    /\ UNCHANGED <<actor, indexerVars, inbound, worldVars, budget>>

RecordRejection(w) ==
    /\ worker[w].step = "reject"
    /\ fail_open
    /\ Goto(w, "dead")
    /\ UNCHANGED <<actor, indexerVars, inbound, worldVars, budget>>

\* execute_job's last statement on the row, by how the attempt ended.
FinishJob(w) ==
    /\ \/ worker[w].step = "done"  /\ delete_row(RowOf(w))
       \/ worker[w].step = "retry" /\ retry_later(RowOf(w))
       \/ worker[w].step = "dead"  /\ mark_dead(RowOf(w))
    /\ worker' = [worker EXCEPT ![w] = IdleWorker]
    /\ UNCHANGED <<actor, indexerVars, inbound, worldVars, budget>>

\* A timeout, a database error or an unavailable indexer: rescheduled; a crash
\* or a row that cannot be finalised: the lock will expire.
AbandonJob(w) ==
    /\ worker[w].step # "idle"
    /\ Spend("worker")
    /\ \/ worker[w].step # "retry" /\ Goto(w, "retry")
       \/ worker' = [worker EXCEPT ![w] = IdleWorker]
    /\ UNCHANGED <<storeVars, actor, indexerVars, inbound, worldVars>>

Held(r) == \E w \in Workers : worker[w].step # "idle" /\ RowOf(w) = r

LockExpires(r) ==
    /\ lock_expires(r)
    /\ IF Held(r) THEN Spend("worker") ELSE UNCHANGED budget
    /\ UNCHANGED <<worker, actor, indexerVars, inbound, worldVars>>

-----------------------------------------------------------------------------
(* The payer, time and gum-indexer (external)                              *)

Pay ==
    /\ onchain < MaxOnchain
    /\ onchain' = onchain + 1
    /\ UNCHANGED <<storeVars, worker, actor, indexerVars, inbound, clock, budget>>

TimePasses ==
    /\ clock # "overdue"
    /\ clock' = IF clock = "open" THEN "past" ELSE "overdue"
    /\ UNCHANGED <<storeVars, worker, actor, indexerVars, inbound, onchain, budget>>

Event(i, type, total) == [watch |-> i, type |-> type, total |-> total]

Send(events) == sent' = sent \cup {e \in events : e.type \in Delivered}

\* A transfer the watch has not counted yet is seen at the head of the chain.
IndexerPending(i) ==
    /\ Active(i) /\ watches[i].total < onchain
    /\ Send({Event(i, "payment.pending", watches[i].total)})
    /\ UNCHANGED <<storeVars, worker, actor, watches, inbound, worldVars, budget>>

\* It is confirmed; at the amount the watch is completed and retired.
IndexerConfirm(i) ==
    LET total == watches[i].total + 1
        done  == total >= Amount
    IN  /\ Active(i) /\ watches[i].total < onchain
        /\ watches' = [watches EXCEPT ![i] = [state |-> IF done THEN "completed" ELSE "active",
                                              total |-> total, known |-> TRUE]]
        /\ Send({Event(i, "payment.confirmed", total)} \cup
                 (IF done THEN {Event(i, "threshold.reached", total)} ELSE {}))
        /\ UNCHANGED <<storeVars, worker, actor, inbound, worldVars, budget>>

\* A transfer no watch has counted is reorged out.
IndexerOrphan(i) ==
    /\ Active(i)
    /\ \A j \in 1..Len(watches) : watches[j].total < onchain
    /\ Spend("indexer")
    /\ onchain' = onchain - 1
    /\ Send({Event(i, "payment.orphaned", watches[i].total)})
    /\ UNCHANGED <<storeVars, worker, actor, watches, inbound, clock>>

IndexerExpire(i) ==
    /\ Active(i) /\ clock # "open"
    /\ watches' = [watches EXCEPT ![i].state = "expired"]
    /\ Send({Event(i, "watch.expired", watches[i].total)})
    /\ UNCHANGED <<storeVars, worker, actor, inbound, worldVars, budget>>

\* At any time, and without an event.
IndexerCancel(i) ==
    /\ Active(i)
    /\ Spend("indexer")
    /\ watches' = [watches EXCEPT ![i].state = "cancelled"]
    /\ UNCHANGED <<storeVars, worker, actor, sent, inbound, worldVars>>

IndexerLose(i) ==
    /\ watches[i].known
    /\ Spend("indexer")
    /\ watches' = [watches EXCEPT ![i].known = FALSE]
    /\ UNCHANGED <<storeVars, worker, actor, sent, inbound, worldVars>>

-----------------------------------------------------------------------------
(* The indexer webhook: apply_indexer_event                                *)

\* claim_inbound waits for a transaction claiming the same id and refuses an
\* id already processed.  The deposit is found by its watch or, as the event
\* may be of a watch not recorded, by its address.
ReceiveEvent(h, e) ==
    /\ actor[h].step = "idle"
    /\ e \notin inbound
    /\ ~ \E o \in Handlers : actor[o].step # "idle" /\ actor[o].report = e
    /\ actor' = [actor EXCEPT ![h] =
                    [step |-> "apply", report |-> e, fill |-> row.watch = NULL, ours |-> 0]]
    /\ UNCHANGED <<storeVars, worker, indexerVars, inbound, worldVars, budget>>

\* The row as the transition finds it: a handler that read a row without a
\* watch fills its event's in, unless one has been recorded since.
Filled(a) ==
    IF actor[a].fill /\ row.watch = NULL THEN [row EXCEPT !.watch = actor[a].report.watch]
                                         ELSE row

\* Mutant: the first sign of a payment takes the deposit to paid.
apply_report_pays_early(d, e) ==
    \/ e.type = "payment.orphaned"  /\ apply_payment_orphaned(d)
    \/ e.type \in {"payment.pending", "payment.confirmed", "threshold.reached"}
          /\ apply_threshold_reached(d, e.total)
    \/ e.type = "watch.expired"     /\ apply_expired(d)
    \/ e.type = "watch.lost"        /\ reregister_watch

apply_report(d, e) ==
    \/ e.type = "payment.pending"   /\ apply_payment_pending(d)
    \/ e.type = "payment.confirmed" /\ apply_payment_confirmed(d, e.total)
    \/ e.type = "payment.orphaned"  /\ apply_payment_orphaned(d)
    \/ e.type = "threshold.reached" /\ apply_threshold_reached(d, e.total)
    \/ e.type = "watch.expired"     /\ apply_expired(d)
    \/ e.type = "watch.lost"        /\ reregister_watch

\* The guarded transition and the commit, with a handler's claim on the event.
ApplyReport(a) ==
    /\ actor[a].step = "apply"
    /\ apply_report(Filled(a), actor[a].report)
    /\ inbound' = inbound \cup (IF a \in Handlers THEN {actor[a].report} ELSE {})
    /\ actor' = [actor EXCEPT ![a] = IdleActor]
    /\ UNCHANGED <<worker, indexerVars, worldVars, budget>>

\* A database error, the tick's timeout or a crash rolls everything back.
ActorAborts(a) ==
    /\ actor[a].step # "idle"
    /\ Spend("actor")
    /\ actor' = [actor EXCEPT ![a] = IdleActor]
    /\ UNCHANGED <<storeVars, worker, indexerVars, inbound, worldVars>>

-----------------------------------------------------------------------------
(* The reconciler: expire_overdue and reconcile_open                       *)

ExpireOverdue ==
    /\ row.status \in Open /\ clock = "overdue"
    /\ apply_expired(row)
    /\ UNCHANGED <<worker, actor, indexerVars, inbound, worldVars, budget>>

\* Mutant: deposits that have seen a payment are not polled.
SelectStale_pending_only(p) ==
    /\ actor[p].step = "idle"
    /\ row.status = "pending" /\ row.watch # NULL
    /\ actor' = [actor EXCEPT ![p] =
                    [step |-> "poll", report |-> [NoReport EXCEPT !.watch = row.watch],
                     fill |-> FALSE, ours |-> row.confirmed]]
    /\ UNCHANGED <<storeVars, worker, indexerVars, inbound, worldVars, budget>>

\* stale_open; how long the deposit has been quiet is left open.
SelectStale(p) ==
    /\ actor[p].step = "idle"
    /\ row.status \in Open /\ row.watch # NULL
    /\ actor' = [actor EXCEPT ![p] =
                    [step |-> "poll", report |-> [NoReport EXCEPT !.watch = row.watch],
                     fill |-> FALSE, ours |-> row.confirmed]]
    /\ UNCHANGED <<storeVars, worker, indexerVars, inbound, worldVars, budget>>

\* Mutant: a watch the indexer does not know is taken for an expired one.
Conclusions_lost_is_expired(i, ours) ==
    LET watch == watches[i]
        found(type) == {Event(i, type, watch.total)}
    IN  IF watch.state = "completed" THEN found("threshold.reached")
        ELSE IF watch.state \in {"expired", "cancelled"} \/ ~watch.known THEN found("watch.expired")
        ELSE IF watch.total > ours THEN found("payment.confirmed") ELSE {}

\* What get_watch's answer asks for, if anything.  A cancelled watch counts as
\* an expired one, whatever the time; the total is compared with the one read
\* when the deposit was selected.
Conclusions(i, ours) ==
    LET watch == watches[i]
        found(type) == {Event(i, type, watch.total)}
    IN  IF ~watch.known THEN found("watch.lost")
        ELSE IF watch.state = "completed" THEN found("threshold.reached")
        ELSE IF watch.state \in {"expired", "cancelled"} THEN found("watch.expired")
        ELSE IF watch.total > ours THEN found("payment.confirmed") ELSE {}

PollWatch(p) ==
    LET found == Conclusions(actor[p].report.watch, actor[p].ours)
    IN  /\ actor[p].step = "poll"
        /\ \/ found = {} /\ actor' = [actor EXCEPT ![p] = IdleActor]
           \/ \E e \in found :
                actor' = [actor EXCEPT ![p] = [IdleActor EXCEPT !.step = "apply", !.report = e]]
        /\ UNCHANGED <<storeVars, worker, indexerVars, inbound, worldVars, budget>>

\* admin_retry_settlement, which takes any failed deposit.
OperatorRetry ==
    /\ row.status = "failed"
    /\ Spend("operator")
    /\ retry_settlement
    /\ UNCHANGED <<worker, actor, indexerVars, inbound, worldVars>>

-----------------------------------------------------------------------------
WorkerNext(w) ==
    \/ ClaimJob(w) \/ LoadDeposit(w) \/ ExpireUnregistered(w)
    \/ CreateAccepted(w) \/ CreateAnswerLost(w) \/ CreateRejected(w)
    \/ MarkRegistered(w) \/ RecordRejection(w) \/ FinishJob(w) \/ AbandonJob(w)

IndexerNext(i) ==
    \/ IndexerPending(i) \/ IndexerConfirm(i) \/ IndexerOrphan(i)
    \/ IndexerExpire(i) \/ IndexerCancel(i) \/ IndexerLose(i)

Next ==
    \/ \E w \in Workers : WorkerNext(w)
    \/ \E r \in outbox : LockExpires(r)
    \/ \E i \in 1..Len(watches) : IndexerNext(i)
    \/ Pay \/ TimePasses
    \/ \E h \in Handlers, e \in sent : ReceiveEvent(h, e)
    \/ \E a \in Actors : ApplyReport(a) \/ ActorAborts(a)
    \/ ExpireOverdue
    \/ \E p \in Reconcilers : SelectStale(p) \/ PollWatch(p)
    \/ OperatorRetry

Spec == Init /\ [][Next]_vars

\* Tokio keeps running the tasks a replica has started, expired locks stay in
\* the past, and the indexer counts what reaches an address it watches.
\* Nothing is assumed of webhooks, of time, of the operator or of failures.
Fairness ==
    /\ \A w \in Workers :
        WF_vars(ClaimJob(w) \/ LoadDeposit(w) \/ ExpireUnregistered(w) \/ CreateAccepted(w)
                \/ (clock # "open" /\ CreateRejected(w))
                \/ MarkRegistered(w) \/ RecordRejection(w) \/ FinishJob(w))
    /\ WF_vars(\E r \in outbox : ~Held(r) /\ LockExpires(r))
    /\ WF_vars(\E i \in 1..Len(watches) : IndexerConfirm(i))
    /\ \A p \in Reconcilers : WF_vars(SelectStale(p) \/ PollWatch(p) \/ ApplyReport(p))
    /\ \A h \in Handlers : WF_vars(ApplyReport(h))

FairSpec == Spec /\ Fairness

-----------------------------------------------------------------------------
(* Properties                                                              *)

\* No open deposit is left unwatched: while none of its watches is recorded, a
\* live outbox row will register one.  A worker that finishes on what it read
\* before the reconciler dropped the watch takes only its own row away
\* (register_watch, reregister_watch, fail_open).
OpenIsWatched ==
    row.status \in Open /\ row.watch = NULL =>
        \E r \in outbox \ dead : r.kind = "register_watch"

\* A deposit is reported ready (paid) only when the confirmed total it records
\* reaches the amount and the address holds it, however events of several
\* watches, polls and re-registrations are mixed; it stays so.  The operator's
\* retry makes a deposit paid without this event
\* (apply_threshold_reached, apply_payment_confirmed, retry_settlement).
PaidIsFunded ==
    (\E i \in 1..Len(timeline) : timeline[i] = "ready") =>
        row.confirmed >= Amount /\ onchain >= Amount

\* A deposit expires only once its expiry has passed, or because one of its
\* watches was cancelled at the indexer: reconcile_open takes such a watch for
\* an expired one at any time (register_watch, apply_indexer_event,
\* reconcile_open, expire_overdue).
ExpiredAfterExpiry ==
    row.status = "expired" =>
        clock # "open" \/ \E i \in 1..Len(watches) : watches[i].state = "cancelled"

\* Before the grace period is over, a deposit the indexer has completed is not
\* expired by a guess (register_watch's early return).
CompletedNotExpired ==
    row.status = "expired" /\ clock # "overdue" =>
        \A i \in 1..Len(watches) : watches[i].state # "completed"

\* The amount, once it has been paid and stays paid, is noticed without any
\* webhook, a lost watch included (reconcile_open, reregister_watch, the outbox).
FundedIsNoticed ==
    onchain >= Amount ~> row.status \notin Open \/ onchain < Amount
=============================================================================
