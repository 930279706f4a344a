------------------------------ MODULE Replica -------------------------------
(***************************************************************************)
(* One gum-server process from the inside: the connection pool its webhook *)
(* handlers and outbox jobs share, the outbox loop with its permits, batch *)
(* and wake-ups, the supervisor that starts it again after a panic, and    *)
(* the shutdown.                                                           *)
(*                                                                         *)
(* A connection is held by an open transaction, which may wait in it for   *)
(* the one deposit's row lock; a single statement takes a connection and   *)
(* gives it back in one step.  What handlers and jobs write is DepositStore*)
(* and the modules on it; here an outbox row is live or not, due, claimed  *)
(* or not, and behind the earlier rows of its deposit and kind.            *)
(***************************************************************************)
EXTENDS Integers, FiniteSets

CONSTANTS
    Handlers,       \* webhook requests, each with one transaction
    Rows,           \* outbox rows
    Line,           \* per outbox row: its deposit and kind
    Connections,    \* database.max_connections
    Permits,        \* outbox.workers
    Batch,          \* outbox.batch_size
    MaxPanics       \* bound: panics of the outbox task

VARIABLES
    handler,        \* per handler: its step
    job,            \* per outbox row: the row's step and, once claimed, its job's
    ahead,          \* per outbox row: the earlier live rows of its line
    orphan,         \* rows whose job was started by a run of the loop that panicked
    loop,           \* outbox::run and its supervisor: step, batch full
    wake,           \* outbox_wake holds a permit
    main,           \* main: step, and whether the background work ended by itself
    panics          \* what is left of MaxPanics

vars == <<handler, job, ahead, orphan, loop, wake, main, panics>>

ASSUME ReplicaAssumption ==
    /\ {Connections, Permits, Batch} \subseteq Nat \ {0}
    /\ MaxPanics \in Nat
    /\ IsFiniteSet(Handlers) /\ IsFiniteSet(Rows)

-----------------------------------------------------------------------------
\* begin, load, write, finish and reschedule wait for a connection; lookup,
\* apply, commit and writing hold one.
HandlerStep == {"idle", "begin", "lookup", "apply", "commit", "notify"}

\* absent: deleted or dead.  fresh: committed since the loop last looked, by a
\* task that lived to say so; later: locked or backing off; due: any other row
\* that could be claimed or waits for the rows ahead of it.
JobStep == {"absent", "fresh", "later", "due", "queued",
            "load", "call", "write", "writing", "notify", "finish", "reschedule"}

LoopStep == {"claim", "spawn", "await", "sleep", "pause", "drain", "returned",
             "panicked", "stopped"}

MainStep == {"serving", "draining", "grace", "closing", "gone"}

Running == {r \in Rows : job[r] \in
                {"load", "call", "write", "writing", "notify", "finish", "reschedule"}}

InUse == Cardinality({h \in Handlers : handler[h] \in {"lookup", "apply", "commit"}})
         + Cardinality({r \in Rows : job[r] = "writing"})

shutdown == main.step # "serving"

\* The pool has one to give; a closed pool has none.
Available == InUse < Connections /\ main.step \notin {"closing", "gone"}

TypeOK ==
    /\ handler \in [Handlers -> HandlerStep]
    /\ job \in [Rows -> JobStep]
    /\ ahead \in [Rows -> SUBSET Rows]
    /\ orphan \subseteq Running
    /\ loop \in [step: LoopStep, full: BOOLEAN]
    /\ wake \in BOOLEAN
    /\ main \in [step: MainStep, orderly: BOOLEAN]
    /\ panics \in 0..MaxPanics
    /\ InUse <= Connections

\* The live rows of a line are ordered by their ids.
Ordered ==
    /\ \A r \in Rows : ahead[r] \subseteq
          {s \in Rows \ {r} : Line[s] = Line[r] /\ "absent" \notin {job[r], job[s]}}
    /\ \A r, s \in Rows :
          r # s /\ Line[r] = Line[s] /\ "absent" \notin {job[r], job[s]} =>
             (s \in ahead[r]) # (r \in ahead[s])
    /\ \A r \in Rows : \A s \in ahead[r] : ahead[s] \subseteq ahead[r]

\* A replica starts with what others, or its last run, have left in the table.
Init ==
    /\ handler = [h \in Handlers |-> "idle"]
    /\ job \in [Rows -> {"absent", "later"}]
    /\ ahead \in [Rows -> SUBSET Rows] /\ Ordered
    /\ orphan = {}
    /\ loop = [step |-> "claim", full |-> FALSE]
    /\ wake = FALSE
    /\ main = [step |-> "serving", orderly |-> FALSE]
    /\ panics = MaxPanics

-----------------------------------------------------------------------------
(* Rows that come and go                                                   *)

\* What a transaction may add: at most one row of each deposit and kind.
Additions == {S \in SUBSET {r \in Rows : job[r] = "absent"} :
                \A r, s \in S : Line[r] = Line[s] => r = s}

\* The rows of S are committed, behind the live ones of their lines; was gives
\* the steps of the others.
Insert(was, S, step) ==
    /\ job' = [r \in Rows |-> IF r \in S THEN step ELSE was[r]]
    /\ ahead' = [r \in Rows |->
                   IF r \in S
                   THEN {s \in Rows : Line[s] = Line[r] /\ job[s] # "absent"}
                   ELSE ahead[r]]

\* A row that is gone is ahead of none.
Remove(r) == ahead' = [s \in Rows |-> IF s = r THEN {} ELSE ahead[s] \ {r}]

-----------------------------------------------------------------------------
(* Webhook handlers: one transaction, on one connection                    *)

To(h, step) == handler' = [handler EXCEPT ![h] = step]

\* Mutant: the listener stays open while the requests drain.
Receive_draining(h) ==
    /\ main.step \in {"serving", "draining"}
    /\ handler[h] = "idle"
    /\ To(h, "begin")
    /\ UNCHANGED <<job, ahead, orphan, loop, wake, main, panics>>

Receive(h) ==
    /\ main.step = "serving"
    /\ handler[h] = "idle"
    /\ To(h, "begin")
    /\ UNCHANGED <<job, ahead, orphan, loop, wake, main, panics>>

\* pool.begin and claim_inbound.  A duplicate that waits for its first
\* delivery's commit waits as for the row below.
Begin(h) ==
    /\ handler[h] = "begin"
    /\ Available
    /\ To(h, "lookup")
    /\ UNCHANGED <<job, ahead, orphan, loop, wake, main, panics>>

\* Mutant: the deposit is looked up through the pool.
Lookup_from_pool(h) ==
    /\ handler[h] = "lookup"
    /\ Available
    /\ \E step \in {"apply", "idle"} : To(h, step)
    /\ UNCHANGED <<job, ahead, orphan, loop, wake, main, panics>>

\* get_by_watch, get_by_payment_address or get_by_engine_job on the handler's
\* own connection; an event of no deposit, or seen before, ends here.
Lookup(h) ==
    /\ handler[h] = "lookup"
    /\ \E step \in {"apply", "idle"} : To(h, step)
    /\ UNCHANGED <<job, ahead, orphan, loop, wake, main, panics>>

RowLocked == \E h \in Handlers : handler[h] = "commit"

\* The guarded UPDATE, under the deposit's row lock.
Apply(h) ==
    /\ handler[h] = "apply"
    /\ ~RowLocked
    /\ To(h, "commit")
    /\ UNCHANGED <<job, ahead, orphan, loop, wake, main, panics>>

\* The commit makes outbox rows visible, or none; the locks are gone.
Commit(h) ==
    /\ handler[h] = "commit"
    /\ To(h, "notify")
    /\ \E S \in Additions : Insert(job, S, "fresh")
    /\ UNCHANGED <<orphan, loop, wake, main, panics>>

\* Mutant: notify_waiters, which wakes only a loop that is waiting.
Notify_waiters(h) ==
    /\ handler[h] = "notify"
    /\ wake' = (wake \/ loop.step = "sleep")
    /\ To(h, "idle")
    /\ UNCHANGED <<job, ahead, orphan, loop, main, panics>>

\* outbox_wake.notify_one: the permit is kept for a loop that is busy.
Notify(h) ==
    /\ handler[h] = "notify"
    /\ wake' = TRUE
    /\ To(h, "idle")
    /\ UNCHANGED <<job, ahead, orphan, loop, main, panics>>

\* acquire_timeout, lock_timeout, another database error, or the sender is
\* gone: the transaction is rolled back, or, if the answer to its COMMIT was
\* awaited, committed with nobody left to send the wake-up.
HandlerFails(h) ==
    /\ handler[h] \in {"begin", "lookup", "apply", "commit"}
    /\ To(h, "idle")
    /\ \/ UNCHANGED <<job, ahead>>
       \/ handler[h] = "commit" /\ \E S \in Additions : Insert(job, S, "due")
    /\ UNCHANGED <<orphan, loop, wake, main, panics>>

-----------------------------------------------------------------------------
(* outbox::run                                                             *)

Enter(step) == loop' = [loop EXCEPT !.step = step]

\* Due, and no earlier live row of its deposit and kind.
Claimable == {r \in Rows : job[r] \in {"fresh", "due"} /\ ahead[r] = {}}

\* The check for a shutdown, then the claim of a batch.  SKIP LOCKED passes over
\* rows another replica is claiming.  A batch that is not full has seen every
\* row: the ones it left, for a row ahead of them or for a lock, now wait for
\* the poll.
Claim ==
    /\ loop.step = "claim" /\ ~shutdown
    /\ Available
    /\ \E S \in SUBSET Claimable :
        /\ Cardinality(S) <= Batch
        /\ loop' = [step |-> "spawn", full |-> Cardinality(S) = Batch]
        /\ job' = [r \in Rows |->
                     IF r \in S THEN "queued"
                     ELSE IF job[r] = "fresh" /\ Cardinality(S) < Batch THEN "due"
                     ELSE job[r]]
    /\ UNCHANGED <<handler, ahead, orphan, wake, main, panics>>

\* A database error, or CLAIM_TIMEOUT: nothing is claimed, or rows are locked
\* for no job.
ClaimFails ==
    /\ loop.step = "claim" /\ ~shutdown
    /\ \E S \in SUBSET Claimable :
        /\ Cardinality(S) <= Batch
        /\ job' = [r \in Rows |-> IF r \in S THEN "later" ELSE job[r]]
    /\ Enter("pause")
    /\ UNCHANGED <<handler, ahead, orphan, wake, main, panics>>

\* One after the other, as the semaphore of this run has permits.
SpawnJob(r) ==
    /\ loop.step = "spawn"
    /\ job[r] = "queued"
    /\ Cardinality(Running \ orphan) < Permits
    /\ job' = [job EXCEPT ![r] = "load"]
    /\ UNCHANGED <<handler, ahead, orphan, loop, wake, main, panics>>

AllSpawned ==
    /\ loop.step = "spawn"
    /\ \A r \in Rows : job[r] # "queued"
    /\ Enter("await")
    /\ UNCHANGED <<handler, job, ahead, orphan, wake, main, panics>>

\* All handles are awaited; the gauge fails or times out without effect.
BatchDone ==
    /\ loop.step = "await"
    /\ Running \subseteq orphan
    /\ Enter(IF loop.full THEN "claim" ELSE "sleep")
    /\ UNCHANGED <<handler, job, ahead, orphan, wake, main, panics>>

Woken ==
    /\ loop.step = "sleep" /\ wake
    /\ wake' = FALSE
    /\ Enter("claim")
    /\ UNCHANGED <<handler, job, ahead, orphan, main, panics>>

PollInterval ==
    /\ loop.step \in {"sleep", "pause"}
    /\ Enter("claim")
    /\ UNCHANGED <<handler, job, ahead, orphan, wake, main, panics>>

\* shutdown.cancelled(), in either select or at the top of the loop.
LeaveLoop ==
    /\ loop.step \in {"claim", "sleep", "pause"} /\ shutdown
    /\ Enter("drain")
    /\ UNCHANGED <<handler, job, ahead, orphan, wake, main, panics>>

\* acquire_many: every permit of this run is back.
Drained ==
    /\ loop.step = "drain"
    /\ Running \subseteq orphan
    /\ Enter("returned")
    /\ UNCHANGED <<handler, job, ahead, orphan, wake, main, panics>>

-----------------------------------------------------------------------------
(* A job: run_bounded around execute                                       *)

Proceed(r, step) ==
    /\ job' = [job EXCEPT ![r] = step]
    /\ IF step = "absent" THEN Remove(r) ELSE UNCHANGED ahead
    /\ orphan' = IF step \in {"absent", "later"} THEN orphan \ {r} ELSE orphan
    /\ UNCHANGED <<handler, loop, wake, main, panics>>

\* store::get; a deposit that has moved on needs no call, one past its expiry
\* no watch.
Load(r) ==
    /\ job[r] = "load"
    /\ Available
    /\ \E step \in {"call", "write", "finish"} : Proceed(r, step)

\* gum-indexer, gum-engine or the app answers, or its client gives up: there is
\* something to record, or only the attempt to finish.
Answered(r) ==
    /\ job[r] = "call"
    /\ \E step \in {"write", "finish"} : Proceed(r, step)

\* Mutant: the outcome is written without asking the pool.
StartWrite_unpooled(r) ==
    /\ job[r] = "write"
    /\ Proceed(r, "writing")

StartWrite(r) ==
    /\ job[r] = "write"
    /\ Available
    /\ Proceed(r, "writing")

\* The outcome is committed under the row lock.  A verdict tells the app and
\* sends a wake-up; a recorded watch or engine job does neither.
FinishWrite(r) ==
    /\ job[r] = "writing"
    /\ ~RowLocked
    /\ \/ \E S \in Additions : Insert([job EXCEPT ![r] = "notify"], S, "fresh")
       \/ Insert([job EXCEPT ![r] = "finish"], {}, "fresh")
    /\ UNCHANGED <<handler, orphan, loop, wake, main, panics>>

\* outbox_wake.notify_one, with no await since the commit's answer.
JobNotify(r) ==
    /\ job[r] = "notify"
    /\ job' = [job EXCEPT ![r] = "finish"]
    /\ wake' = TRUE
    /\ UNCHANGED <<handler, ahead, orphan, loop, main, panics>>

\* The row is deleted, rescheduled or dead.
Finish(r) ==
    /\ job[r] = "finish"
    /\ Available
    /\ \E step \in {"absent", "later"} : Proceed(r, step)

\* execute, or its transaction, is given up at r's step and goes on at another:
\* a COMMIT whose answer was awaited may have added its rows.
GiveUp(r, step) ==
    \/ Proceed(r, step)
    \/ /\ job[r] = "writing" /\ ~RowLocked
       /\ \E S \in Additions : Insert([job EXCEPT ![r] = step], S, "due")
       /\ UNCHANGED <<handler, orphan, loop, wake, main, panics>>

\* A database error, acquire_timeout or lock_timeout: the attempt is retried.
WriteFails(r) ==
    /\ job[r] \in {"write", "writing"}
    /\ GiveUp(r, "finish")

\* Mutant: the upstream call is not bounded.
AbandonJob_not_calls(r) ==
    /\ job[r] \in {"load", "write", "writing", "finish"}
    /\ GiveUp(r, "reschedule")

\* job_timeout_ms: execute is dropped wherever it waits.
AbandonJob(r) ==
    /\ job[r] \in {"load", "call", "write", "writing", "finish"}
    /\ GiveUp(r, "reschedule")

\* retry_later; the row is gone if its retry window is over, or if a DELETE
\* that was given up had been carried out.
Reschedule(r) ==
    /\ job[r] = "reschedule"
    /\ Available
    /\ \E step \in {"absent", "later"} : Proceed(r, step)

\* RESCHEDULE_TIMEOUT, a database error or a panic of the job: the row's lock
\* will expire, unless its last statement was carried out unheard.
JobLost(r) ==
    \/ job[r] \in {"load", "call", "write", "writing"} /\ Proceed(r, "later")
    \/ /\ job[r] \in {"finish", "reschedule"}
       /\ \E step \in {"absent", "later"} : Proceed(r, step)

\* next_attempt_at or locked_until passes.
BecomesDue(r) ==
    /\ job[r] = "later"
    /\ Proceed(r, "due")

-----------------------------------------------------------------------------
(* supervise::spawn                                                        *)

\* The loop's task dies.  Its jobs are tasks of their own and go on; those it
\* had not started keep their locks until these expire.
Panic ==
    /\ loop.step \notin {"returned", "panicked", "stopped"}
    /\ panics > 0
    /\ panics' = panics - 1
    /\ Enter("panicked")
    /\ job' = [r \in Rows |-> IF job[r] = "queued" THEN "later" ELSE job[r]]
    /\ orphan' = Running
    /\ UNCHANGED <<handler, ahead, wake, main>>

\* After RESTART_DELAY, a fresh run with a fresh semaphore.
SuperviseRestart ==
    /\ loop.step = "panicked" /\ ~shutdown
    /\ loop' = [step |-> "claim", full |-> FALSE]
    /\ UNCHANGED <<handler, job, ahead, orphan, wake, main, panics>>

\* Mutant: the supervisor does not wait for its task to end.
SuperviseStop_at_once ==
    /\ loop.step # "stopped" /\ shutdown
    /\ Enter("stopped")
    /\ UNCHANGED <<handler, job, ahead, orphan, wake, main, panics>>

SuperviseStop ==
    /\ loop.step \in {"returned", "panicked"} /\ shutdown
    /\ Enter("stopped")
    /\ UNCHANGED <<handler, job, ahead, orphan, wake, main, panics>>

-----------------------------------------------------------------------------
(* main                                                                    *)

Signal ==
    /\ main.step = "serving"
    /\ main' = [main EXCEPT !.step = "draining"]
    /\ UNCHANGED <<handler, job, ahead, orphan, loop, wake, panics>>

\* axum::serve returns when every request has been answered.
HttpDrained ==
    /\ main.step = "draining"
    /\ \A h \in Handlers : handler[h] = "idle"
    /\ main' = [main EXCEPT !.step = "grace"]
    /\ UNCHANGED <<handler, job, ahead, orphan, loop, wake, panics>>

BackgroundEnded ==
    /\ main.step = "grace" /\ loop.step = "stopped"
    /\ main' = [step |-> "closing", orderly |-> TRUE]
    /\ UNCHANGED <<handler, job, ahead, orphan, loop, wake, panics>>

GraceEnds ==
    /\ main.step = "grace"
    /\ main' = [main EXCEPT !.step = "closing"]
    /\ UNCHANGED <<handler, job, ahead, orphan, loop, wake, panics>>

\* pool.close waits for the connections in use; then the process is gone.
PoolClosed ==
    /\ main.step = "closing"
    /\ InUse = 0
    /\ main' = [main EXCEPT !.step = "gone"]
    /\ UNCHANGED <<handler, job, ahead, orphan, loop, wake, panics>>

-----------------------------------------------------------------------------
HandlerNext(h) ==
    \/ Receive(h) \/ Begin(h) \/ Lookup(h) \/ Apply(h) \/ Commit(h) \/ Notify(h)
    \/ HandlerFails(h)

LoopNext ==
    \/ Claim \/ ClaimFails \/ AllSpawned \/ BatchDone \/ Woken \/ PollInterval
    \/ LeaveLoop \/ Drained \/ \E r \in Rows : SpawnJob(r)

JobNext(r) ==
    \/ Load(r) \/ Answered(r) \/ StartWrite(r) \/ FinishWrite(r) \/ JobNotify(r)
    \/ Finish(r) \/ WriteFails(r) \/ AbandonJob(r) \/ Reschedule(r) \/ JobLost(r)
    \/ BecomesDue(r)

SuperviseNext == Panic \/ SuperviseRestart \/ SuperviseStop

MainNext == Signal \/ HttpDrained \/ BackgroundEnded \/ GraceEnds \/ PoolClosed

Next ==
    /\ main.step # "gone"
    /\ \/ \E h \in Handlers : HandlerNext(h)
       \/ LoopNext
       \/ \E r \in Rows : JobNext(r)
       \/ SuperviseNext
       \/ MainNext

Spec == Init /\ [][Next]_vars

\* Tokio runs every task; the pool and Postgres' row locks serve their waiters
\* in order; the loop's and the jobs' timers fire.  Upstreams need never answer
\* and no handler relies on a timeout of its own.
Fairness ==
    /\ \A h \in Handlers :
        SF_vars(Begin(h) \/ Lookup(h) \/ Apply(h) \/ Commit(h) \/ Notify(h))
    /\ WF_vars(LoopNext)
    /\ \A r \in Rows :
        WF_vars(JobNotify(r) \/ AbandonJob(r) \/ (job[r] = "reschedule" /\ JobLost(r)))
    /\ WF_vars(SuperviseRestart \/ SuperviseStop)
    /\ WF_vars(HttpDrained \/ GraceEnds \/ PoolClosed)

FairSpec == Spec /\ Fairness

-----------------------------------------------------------------------------
(* Properties                                                              *)

\* A row committed while the loop is busy does not wait for the poll: a loop
\* that goes to sleep beside rows committed since its last claim finds the
\* wake-up their task was to send, or the task is just sending it.  Rows that
\* claim has seen and left (behind an earlier row of their deposit and kind, or
\* locked) and rows of a task that died in its COMMIT do wait for the poll
\* (notify_one, claim, outbox::run).
WakeNotLost ==
    loop.step = "sleep" /\ (\E r \in Rows : job[r] = "fresh") =>
        \/ wake
        \/ \E h \in Handlers : handler[h] = "notify"
        \/ \E r \in Rows : job[r] = "notify"

\* A shutdown the background work went along with leaves no job half done:
\* what still runs when the pool closes was started by a run of the outbox
\* that panicked (outbox::run's drain, supervise::spawn, main).
OrderlyStopFinishesJobs ==
    main.orderly => Running \subseteq orphan

\* A burst of webhooks as large as the pool is served, without a timeout
\* having to break it up (apply_indexer_event, apply_engine_event).
HandlersServed ==
    \A h \in Handlers : handler[h] = "begin" ~> handler[h] \in {"idle", "notify"}

\* Neither an upstream that never answers nor a panic stops the outbox: it
\* claims again and again until it is shut down (run_bounded, supervise::spawn).
OutboxKeepsClaiming == []<>(loop.step = "claim" \/ shutdown)

\* After the signal the process ends (main).
ShutdownEnds == main.step = "draining" ~> main.step = "gone"
=============================================================================
