------------------------------- MODULE Notify -------------------------------
(***************************************************************************)
(* The app's webhooks.  Every app-facing event of a deposit commits a      *)
(* notify_app row with it; outbox workers POST the rows one at a time, in  *)
(* the order of the events, until the app answers 2xx or a day has passed. *)
(*                                                                         *)
(* The app is external: it may refuse a request, and a request whose       *)
(* answer the worker no longer waits for may reach it at any later time.   *)
(***************************************************************************)
EXTENDS DepositStore, FiniteSets

CONSTANTS
    Workers,          \* outbox worker tasks, over all replicas
    MaxEvents,        \* bound: events the deposit records
    MaxWorkerFaults,  \* bound: crashes, timeouts, lost answers, early lock expiries
    MaxAppFaults,     \* bound: requests the app refuses
    MaxGiveUps,       \* bound: rows older than webhooks.max_age_secs
    MaxOperator       \* bound: admin requeues

VARIABLES
    worker,           \* per worker: step and outbox row (its seq)
    delivered,        \* the requests the app has processed, in its order
    late,             \* requests abandoned by their worker but not yet processed
    gaveup,           \* history: events whose row has ever been marked dead
    budget            \* what is left of the bounds above

vars == <<storeVars, worker, delivered, late, gaveup, budget>>

ASSUME NotifyAssumption ==
    {MaxEvents, MaxWorkerFaults, MaxAppFaults, MaxGiveUps, MaxOperator} \subseteq Nat

-----------------------------------------------------------------------------
IdleWorker == [step |-> "idle", seq |-> 0]

RowOf(w) == OutboxJob("notify_app", worker[w].seq)
Goto(w, step) == worker' = [worker EXCEPT ![w].step = step]

Spend(kind) ==
    /\ budget[kind] > 0
    /\ budget' = [budget EXCEPT ![kind] = @ - 1]

TypeOK ==
    /\ StoreTypeOK
    /\ worker \in [Workers -> [step: {"idle", "post", "done", "retry"}, seq: Nat]]
    /\ delivered \in Seq(1..event_seq)
    /\ late \subseteq 1..event_seq
    /\ gaveup \subseteq 1..event_seq
    /\ budget \in [{"worker", "app", "age", "operator"} -> Nat]

Init ==
    /\ StoreInit
    /\ worker = [w \in Workers |-> IdleWorker]
    /\ delivered = <<>> /\ late = {} /\ gaveup = {}
    /\ budget = [worker |-> MaxWorkerFaults, app |-> MaxAppFaults,
                 age |-> MaxGiveUps, operator |-> MaxOperator]

-----------------------------------------------------------------------------
(* The deposit moves on while its notifications are on their way           *)

Progress ==
    /\ event_seq < MaxEvents
    /\ \/ apply_payment_pending(row) \/ apply_payment_orphaned(row)
       \/ apply_expired(row) \/ \E c \in Totals : apply_threshold_reached(row, c)
       \/ apply_settled(1) \/ apply_failed("engine_refused", NULL) \/ retry_settlement
    /\ event_seq' > event_seq
    /\ UNCHANGED <<worker, delivered, late, gaveup, budget>>

-----------------------------------------------------------------------------
(* Outbox workers running notify_app                                       *)

ClaimJob(w) ==
    /\ worker[w].step = "idle"
    /\ \E r \in outbox :
        /\ r.kind = "notify_app"
        /\ claim(r)
        /\ worker' = [worker EXCEPT ![w] = [step |-> "post", seq |-> r.seq]]
    /\ UNCHANGED <<delivered, late, gaveup, budget>>

PostAccepted(w) ==
    /\ worker[w].step = "post"
    /\ delivered' = Append(delivered, worker[w].seq)
    /\ Goto(w, "done")
    /\ UNCHANGED <<storeVars, late, gaveup, budget>>

\* Mutant: any answer of the app counts as a delivery.
PostRejected_done(w) ==
    /\ worker[w].step = "post"
    /\ Spend("app")
    /\ Goto(w, "done")
    /\ UNCHANGED <<storeVars, delivered, late, gaveup>>

\* Any answer but 2xx.
PostRejected(w) ==
    /\ worker[w].step = "post"
    /\ Spend("app")
    /\ Goto(w, "retry")
    /\ UNCHANGED <<storeVars, delivered, late, gaveup>>

\* The request or its answer is lost or late; the app may still get to it.
PostLost(w) ==
    /\ worker[w].step = "post"
    /\ Spend("worker")
    /\ late' \in {late, late \cup {worker[w].seq}}
    /\ Goto(w, "retry")
    /\ UNCHANGED <<storeVars, delivered, gaveup>>

LateArrives(s) ==
    /\ s \in late
    /\ late' = late \ {s}
    /\ delivered' = Append(delivered, s)
    /\ UNCHANGED <<storeVars, worker, gaveup, budget>>

DeleteJob(w) ==
    /\ worker[w].step = "done"
    /\ delete_row(RowOf(w))
    /\ worker' = [worker EXCEPT ![w] = IdleWorker]
    /\ UNCHANGED <<delivered, late, gaveup, budget>>

RetryJob(w) ==
    /\ worker[w].step = "retry"
    /\ retry_later(RowOf(w))
    /\ worker' = [worker EXCEPT ![w] = IdleWorker]
    /\ UNCHANGED <<delivered, late, gaveup, budget>>

\* schedule: the row is older than webhooks.max_age_secs.
GiveUp(w) ==
    /\ worker[w].step = "retry"
    /\ Spend("age")
    /\ mark_dead(RowOf(w))
    /\ gaveup' = gaveup \cup {r.seq : r \in {RowOf(w)} \cap outbox}
    /\ worker' = [worker EXCEPT ![w] = IdleWorker]
    /\ UNCHANGED <<delivered, late>>

\* A timeout around the database (rescheduled), or a crash or a row that
\* cannot be finalised (the lock will expire).
AbandonJob(w) ==
    /\ worker[w].step # "idle"
    /\ Spend("worker")
    /\ \/ worker[w].step # "retry" /\ Goto(w, "retry")
       \/ worker' = [worker EXCEPT ![w] = IdleWorker]
    /\ UNCHANGED <<storeVars, delivered, late, gaveup>>

Held(r) == \E w \in Workers : worker[w].step # "idle" /\ RowOf(w) = r

LockExpires(r) ==
    /\ lock_expires(r)
    /\ IF Held(r) THEN Spend("worker") ELSE UNCHANGED budget
    /\ UNCHANGED <<worker, delivered, late, gaveup>>

OperatorRequeue(r) ==
    /\ r.kind = "notify_app"
    /\ Spend("operator")
    /\ admin_requeue(r)
    /\ UNCHANGED <<worker, delivered, late, gaveup>>

-----------------------------------------------------------------------------
WorkerNext(w) ==
    \/ ClaimJob(w) \/ PostAccepted(w) \/ PostRejected(w) \/ PostLost(w)
    \/ DeleteJob(w) \/ RetryJob(w) \/ GiveUp(w) \/ AbandonJob(w)

Next ==
    \/ Progress
    \/ \E w \in Workers : WorkerNext(w)
    \/ \E s \in late : LateArrives(s)
    \/ \E r \in outbox : LockExpires(r) \/ OperatorRequeue(r)

Spec == Init /\ [][Next]_vars

\* Workers keep working and locks nobody holds expire.  An app that is up
\* answers 2xx: what it refuses is counted in MaxAppFaults.
Fairness ==
    /\ \A w \in Workers :
        WF_vars(ClaimJob(w) \/ PostAccepted(w) \/ DeleteJob(w) \/ RetryJob(w))
    /\ WF_vars(\E r \in outbox : ~Held(r) /\ LockExpires(r))

FairSpec == Spec /\ Fairness

-----------------------------------------------------------------------------
(* Properties                                                              *)

\* The events the app has not seen before, in the order it sees them: it is
\* asked to dedupe on the event's id.
Fresh(i) == \A j \in 1..(i - 1) : delivered[j] # delivered[i]
Seen == {i \in 1..Len(delivered) : Fresh(i)}

\* An app that dedupes sees the events in the order of `sequence`, except one
\* whose row was given up on and came back (claim's NOT EXISTS, lock_ttl_secs,
\* late requests).
InOrder ==
    \A i, j \in Seen : i < j /\ delivered[i] > delivered[j] => delivered[j] \in gaveup

\* Once nothing is left to send and nothing was given up on, an app that
\* dedupes has learned the verdict, and learned it last (record_event,
\* notify_app, execute_job).
AppLearnsVerdict ==
    AppWebhook /\ row.status \in Terminal /\ gaveup = {}
      /\ (\A r \in outbox : r.kind # "notify_app") =>
        \E i \in Seen :
            /\ <<timeline[delivered[i]], row.status>> \in Moves
            /\ \A j \in Seen : j > i => timeline[delivered[j]] \in Still

\* An app-facing event is delivered or given up on; one that is given up on
\* does not hold up those behind it (claim, schedule).
EventsReachApp ==
    \A s \in 1..MaxEvents :
        s <= event_seq /\ timeline[s] \in AppFacing
            ~> s \in gaveup \/ \E i \in 1..Len(delivered) : delivered[i] = s
=============================================================================
