---------------------------- MODULE DepositStore ----------------------------
(***************************************************************************)
(* One deposit as Postgres holds it: its `deposits` row, its               *)
(* `deposit_events` timeline and its rows of the `outbox` table, with one  *)
(* operator per function of src/deposit/store.rs that writes them and one  *)
(* per statement the outbox workers run on their own rows.                 *)
(*                                                                         *)
(* Every operator is one committed transaction (or the part of one that    *)
(* touches this deposit): the guard is the UPDATE's WHERE clause, which    *)
(* Postgres re-evaluates under the row lock, so it is read and written in  *)
(* one step.  What a caller read BEFORE that is the caller's own state, in *)
(* Settlement and Detection, which extend this module.                     *)
(***************************************************************************)
EXTENDS Integers, Sequences

CONSTANTS
    Amount,       \* the deposit's amount, in base units
    AppWebhook,   \* whether the deposit, or its owner, has a webhook url
    Watches,      \* ids the indexer gives its watches
    Totals        \* confirmed totals the indexer may report

VARIABLES
    row,          \* the deposits row
    timeline,     \* deposit_events in sequence order; event_seq = Len(timeline)
    outbox,       \* outbox rows that exist
    dead,         \* those with dead_at set
    locked        \* those whose locked_until is in the future

storeVars == <<row, timeline, outbox, dead, locked>>

ASSUME StoreAssumption ==
    /\ Amount \in Nat \ {0}
    /\ AppWebhook \in BOOLEAN
    /\ Watches \subseteq Nat \ {0}
    /\ Totals \subseteq Nat

-----------------------------------------------------------------------------
(* Data.  Ids are numbers and 0 is NULL.  An engine job is named by the    *)
(* idempotency key it was accepted under (the engine returns the same job  *)
(* for the same key), a key by the event sequence in it, and a settlement  *)
(* transaction by its job.                                                 *)

NULL == 0

Open     == {"pending", "partial_paid"}
Terminal == {"settled", "failed", "expired"}
Status   == Open \cup {"paid"} \cup Terminal

FailureCode == {"none", "watch_rejected", "engine_rejected", "engine_retryable",
                "engine_refused", "execution_reverted", "expired_on_chain",
                "wrong_chain", "unexpected_outcome"}

Deposit == [status: Status, confirmed: Nat, watch: Nat, job: Nat, tx: Nat,
            failure: FailureCode]

AppFacing == {"detected", "payment_confirmed", "payment_orphaned", "ready",
              "settled", "failed", "expired"}

EventType == AppFacing \cup
    {"created", "watch_registered", "watch_lost", "settlement_submitted",
     "settlement_included", "settlement_retried"}

Kind == {"register_watch", "submit_execute", "notify_app"}

\* An outbox row: its kind and the sequence of the event committed with it.
\* Rows of a kind are ordered by it, as their uuid v7 ids are.
OutboxRow == [kind: Kind, seq: Nat]
OutboxJob(kind, seq) == [kind |-> kind, seq |-> seq]

event_seq == Len(timeline)

-----------------------------------------------------------------------------
(* Events and the rows enqueued with them                                  *)

\* Mutant: rows keyed by the sequence before the event's own.
record_event_off_by_one(d, type, kinds) ==
    LET app  == IF AppWebhook /\ type \in AppFacing THEN {"notify_app"} ELSE {}
    IN  /\ row' = d
        /\ timeline' = Append(timeline, type)
        /\ outbox' = outbox \cup {OutboxJob(k, event_seq) : k \in kinds \cup app}
        /\ UNCHANGED <<dead, locked>>

\* Appends to the timeline and, with the same commit, enqueues the rows of
\* `kinds` and the app's notification.
record_event(d, type, kinds) ==
    LET app  == IF AppWebhook /\ type \in AppFacing THEN {"notify_app"} ELSE {}
    IN  /\ row' = d
        /\ timeline' = Append(timeline, type)
        /\ outbox' = outbox \cup
              {OutboxJob(k, event_seq + 1) : k \in kinds \cup app}
        /\ UNCHANGED <<dead, locked>>

\* UPDATE deposits SET .. WHERE guard, in a transaction that has left the row
\* as d: the event is recorded only if the row was updated.
Transition(d, guard, updated, type, kinds) ==
    IF guard THEN record_event(updated, type, kinds)
             ELSE row' = d /\ UNCHANGED <<timeline, outbox, dead, locked>>

-----------------------------------------------------------------------------
(* Detection: create_deposit to paid, failed or expired                    *)

NewDeposit == [status |-> "pending", confirmed |-> 0, watch |-> NULL,
               job |-> NULL, tx |-> NULL, failure |-> "none"]

mark_watch_registered(watch) ==
    Transition(row, row.watch = NULL, [row EXCEPT !.watch = watch],
               "watch_registered", {})

apply_payment_pending(d) ==
    Transition(d, d.status \in Open, [d EXCEPT !.status = "partial_paid"],
               "detected", {})

apply_payment_confirmed(d, confirmed) ==
    Transition(d, d.status \in Open,
               [d EXCEPT !.status = "partial_paid", !.confirmed = confirmed],
               "payment_confirmed", {})

\* Mutant: an orphaned payment takes the deposit back to pending.
apply_payment_orphaned_resets(d) ==
    Transition(d, TRUE, [d EXCEPT !.status = "pending"], "payment_orphaned", {})

\* No guard on the status: the event is recorded whatever the deposit is.
apply_payment_orphaned(d) ==
    Transition(d, TRUE, d, "payment_orphaned", {})

apply_threshold_reached(d, confirmed) ==
    Transition(d, d.status \in Open,
               [d EXCEPT !.status = "paid", !.confirmed = confirmed],
               "ready", {"submit_execute"})

\* Mutant: the status guard is missing.
apply_expired_unguarded(d) ==
    Transition(d, TRUE, [d EXCEPT !.status = "expired"], "expired", {})

apply_expired(d) ==
    Transition(d, d.status \in Open, [d EXCEPT !.status = "expired"],
               "expired", {})

fail_open ==
    Transition(row, row.status \in Open,
               [row EXCEPT !.status = "failed", !.failure = "watch_rejected"],
               "failed", {})

reregister_watch ==
    Transition(row, row.status \in Open, [row EXCEPT !.watch = NULL],
               "watch_lost", {"register_watch"})

-----------------------------------------------------------------------------
(* Settlement: paid to settled or failed, and the operator's way back      *)

mark_engine_submitted(job, replayed) ==
    LET guard   == row.status = "paid" /\ row.job \in {NULL, job}
        updated == [row EXCEPT !.job = job]
    IN  IF guard /\ replayed
        THEN row' = updated /\ UNCHANGED <<timeline, outbox, dead, locked>>
        ELSE Transition(row, guard, updated, "settlement_submitted", {})

apply_settlement_included(tx) ==
    Transition(row, row.status = "paid", [row EXCEPT !.tx = tx],
               "settlement_included", {})

\* Mutant: a transaction already recorded is kept.
apply_settled_keeps_tx(tx) ==
    Transition(row, row.status = "paid",
               [row EXCEPT !.status = "settled", !.tx = IF @ = NULL THEN tx ELSE @],
               "settled", {})

apply_settled(tx) ==
    Transition(row, row.status = "paid",
               [row EXCEPT !.status = "settled", !.tx = tx], "settled", {})

\* tx_hash = COALESCE($4, tx_hash): a failure without a transaction keeps the
\* one recorded before.
apply_failed(code, tx) ==
    Transition(row, row.status = "paid",
               [row EXCEPT !.status = "failed", !.failure = code,
                           !.tx = IF tx = NULL THEN @ ELSE tx],
               "failed", {})

resubmit ==
    Transition(row, row.status = "paid", [row EXCEPT !.job = NULL],
               "settlement_retried", {"submit_execute"})

retry_settlement ==
    Transition(row, row.status = "failed",
               [row EXCEPT !.status = "paid", !.job = NULL, !.failure = "none"],
               "settlement_retried", {"submit_execute"})

-----------------------------------------------------------------------------
(* The outbox table, as its workers and the operator use it                *)

\* Mutants: rows are claimed in any order; a row given up on holds up the next.
Claimable_any_order(r) == r \in outbox \ (dead \cup locked)
Claimable_behind_dead(r) ==
    /\ r \in outbox \ (dead \cup locked)
    /\ ~ \E p \in outbox : p.kind = r.kind /\ p.seq < r.seq

\* claim: due rows, with no earlier row of the deposit and kind still alive.
\* next_attempt_at is left out: a row that is not due yet becomes due.
Claimable(r) ==
    /\ r \in outbox \ (dead \cup locked)
    /\ ~ \E p \in outbox \ dead : p.kind = r.kind /\ p.seq < r.seq

claim(r) ==
    /\ Claimable(r)
    /\ locked' = locked \cup {r}
    /\ UNCHANGED <<row, timeline, outbox, dead>>

\* Mutants: every row of the kind is deleted; the dead mark outlives its row.
delete_row_by_kind(r) ==
    LET gone == {p \in outbox : p.kind = r.kind}
    IN  /\ outbox' = outbox \ gone
        /\ dead' = dead \ gone
        /\ locked' = locked \ gone
        /\ UNCHANGED <<row, timeline>>
delete_row_keeps_mark(r) ==
    /\ outbox' = outbox \ {r}
    /\ UNCHANGED <<row, timeline, dead, locked>>

\* DELETE FROM outbox WHERE id = ..
delete_row(r) ==
    /\ outbox' = outbox \ {r}
    /\ dead' = dead \ {r}
    /\ locked' = locked \ {r}
    /\ UNCHANGED <<row, timeline>>

\* retry_later: the row is released whoever holds its lock by now.
retry_later(r) ==
    /\ locked' = locked \ {r}
    /\ UNCHANGED <<row, timeline, outbox, dead>>

mark_dead(r) ==
    /\ dead' = dead \cup ({r} \cap outbox)
    /\ locked' = locked \ {r}
    /\ UNCHANGED <<row, timeline, outbox>>

\* The operator may requeue any row, dead or not, locked or not.
admin_requeue(r) ==
    /\ r \in outbox
    /\ dead' = dead \ {r}
    /\ locked' = locked \ {r}
    /\ UNCHANGED <<row, timeline, outbox>>

\* locked_until passes.
lock_expires(r) ==
    /\ r \in locked
    /\ locked' = locked \ {r}
    /\ UNCHANGED <<row, timeline, outbox, dead>>

-----------------------------------------------------------------------------
(* The store under any sequence of calls its callers could make            *)

\* create_deposit has committed.
StoreInit ==
    /\ row = NewDeposit
    /\ timeline = <<"created">>
    /\ outbox = {OutboxJob("register_watch", 1)}
    /\ dead = {} /\ locked = {}

\* The row as an indexer event's transaction has it before it is applied: the
\* event's watch id is filled in when the row has none.
Located == {row} \cup
    {[row EXCEPT !.watch = w] : w \in IF row.watch = NULL THEN Watches ELSE {}}

DetectionStep ==
    \/ \E w \in Watches : mark_watch_registered(w)
    \/ \E d \in Located :
        \/ apply_payment_pending(d) \/ apply_payment_orphaned(d) \/ apply_expired(d)
        \/ \E c \in Totals : apply_payment_confirmed(d, c) \/ apply_threshold_reached(d, c)
    \/ fail_open \/ reregister_watch

SettlementStep ==
    \/ \E k \in 1..event_seq :
        \/ \E replayed \in BOOLEAN : mark_engine_submitted(k, replayed)
        \/ apply_settlement_included(k) \/ apply_settled(k)
        \/ \E code \in FailureCode \ {"none"} : apply_failed(code, k) \/ apply_failed(code, NULL)
    \/ resubmit \/ retry_settlement

OutboxStep ==
    \E r \in outbox : \/ claim(r) \/ delete_row(r) \/ retry_later(r) \/ mark_dead(r)
                      \/ admin_requeue(r) \/ lock_expires(r)

StoreNext == DetectionStep \/ SettlementStep \/ OutboxStep

StoreSpec == StoreInit /\ [][StoreNext]_storeVars

-----------------------------------------------------------------------------
(* Properties of the tables                                                *)

StoreTypeOK ==
    /\ row \in Deposit
    /\ timeline \in Seq(EventType)
    /\ outbox \subseteq OutboxRow
    /\ dead \subseteq outbox
    /\ locked \subseteq outbox

\* The events that move the deposit and the status each moves it to; the
\* others leave the status alone.
Moves == {<<"created", "pending">>,
          <<"detected", "partial_paid">>, <<"payment_confirmed", "partial_paid">>,
          <<"ready", "paid">>, <<"settlement_retried", "paid">>,
          <<"settled", "settled">>, <<"failed", "failed">>, <<"expired", "expired">>}
Still == {"watch_registered", "watch_lost", "payment_orphaned",
          "settlement_submitted", "settlement_included"}

\* The row and the timeline agree: the last event that moves the deposit is
\* the one its status says.  An app that replays the events in order of
\* `sequence` therefore arrives at the status GET returns.
StatusMatchesTimeline ==
    \E i \in 1..Len(timeline) :
        /\ <<timeline[i], row.status>> \in Moves
        /\ \A j \in (i + 1)..Len(timeline) : timeline[j] \in Still

\* The events a row of each kind is committed with.
Causes == {<<"created", "register_watch">>, <<"watch_lost", "register_watch">>,
           <<"ready", "submit_execute">>, <<"settlement_retried", "submit_execute">>}
          \cup (AppFacing \X {"notify_app"})

\* No side effect without its cause: every outbox row was committed together
\* with the event that asks for it, so its idempotency key is its own.
RowsHaveCauses ==
    \A r \in outbox : /\ r.seq \in 1..Len(timeline)
                      /\ <<timeline[r.seq], r.kind>> \in Causes

\* The events that ask for an execute; a position in the timeline is the key
\* of the order.
Asking == {i \in 1..Len(timeline) : <<timeline[i], "submit_execute">> \in Causes}

Lifecycle == INSTANCE DepositLifecycle WITH status <- row.status, orders <- Asking

\* The tables implement the lifecycle: no sequence of store calls moves the
\* status along an edge the lifecycle does not have, re-uses a settlement
\* order's key or asks for one outside `paid`.
ImplementsLifecycle == Lifecycle!Spec
=============================================================================
