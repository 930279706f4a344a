-------------------------- MODULE SettlementProofs --------------------------
(***************************************************************************)
(* Settlement for any number of workers, handlers and reconcilers, any     *)
(* retry limit and any number of faults: a paid deposit is never stranded, *)
(* its verdict is what happened on chain, and the processes together only  *)
(* take the store's steps, so the lifecycle holds of the whole.            *)
(***************************************************************************)
EXTENDS Settlement, DepositStoreProofs

WorkerType == [step: WorkerStep, seq: Nat, replayed: BOOLEAN]
ActorType  == [step: ActorStep, job: Nat, what: Plan]

\* Every job anyone speaks of is one the engine has accepted, under the key of
\* an event of the timeline.
JobsAreKnown ==
    /\ DOMAIN jobs \subseteq 1..event_seq
    /\ row.job \in DOMAIN jobs \cup {NULL}
    /\ \A e \in sent : e.job \in DOMAIN jobs
    /\ \A a \in Actors : actor[a].step # "idle" => actor[a].job \in DOMAIN jobs
    /\ \A w \in Workers : worker[w].step # "idle" => worker[w].seq \in 1..event_seq
    /\ \A w \in Workers : worker[w].step = "mark" => worker[w].seq \in DOMAIN jobs

\* A report that claims an execution is about the one there was.
Witnessed(what, job) ==
    what \in {"settled", "recovered"} => chain = [deployed |-> what, by |-> job]

ReportsAreTrue ==
    /\ \A k \in DOMAIN jobs : Witnessed(jobs[k], k)
    /\ \A e \in sent : Witnessed(e.what, e.job)
    /\ \A a \in Actors : actor[a].step # "idle" => Witnessed(actor[a].what, actor[a].job)

\* A row that no worker is about to delete or to mark dead.
Spared(r) ==
    /\ r \in outbox \ dead
    /\ r.kind = "submit_execute"
    /\ \A w \in Workers : worker[w].step \in {"done", "dead"} => worker[w].seq # r.seq

\* PaidHasDriver by itself is not inductive: the one live row might belong to a
\* worker that has finished with it.
DriverIsSpared ==
    row.status = "paid" /\ row.job = NULL => \E r \in outbox : Spared(r)

SettlementInv ==
    StoreInv /\ TypeOK /\ JobsAreKnown /\ ReportsAreTrue /\ VerdictIsTrue /\ DriverIsSpared

USE SettlementAssumption

-----------------------------------------------------------------------------
(* What the store's operators do to a paid deposit                         *)

\* A deposit that is paid afterwards, and without a job, keeps its rows.
LEMMA MarkFacts ==
    ASSUME StoreTypeOK, NEW k \in Nat \ {NULL}, NEW replayed \in BOOLEAN,
           mark_engine_submitted(k, replayed)
    PROVE  /\ row'.status = row.status /\ row'.tx = row.tx /\ row'.failure = row.failure
           /\ row'.job \in {row.job, k}
           /\ row'.status = "paid" => row'.job # NULL
<1>. DEFINE guard == row.status = "paid" /\ row.job \in {NULL, k}
            updated == [row EXCEPT !.job = k]
<1>1. row \in Deposit
  BY DEF StoreTypeOK
<1>2. /\ updated.status = row.status /\ updated.tx = row.tx /\ updated.failure = row.failure
      /\ updated.job = k /\ k # NULL
  BY <1>1 DEF Deposit
<1>3. \/ guard /\ row' = updated
      \/ ~guard /\ row' = row
  <2>1. CASE guard /\ replayed
    BY <2>1 DEF mark_engine_submitted
  <2>2. CASE ~(guard /\ replayed)
    <3>1. Transition(row, guard, updated, "settlement_submitted", {})
      BY <2>2, Zenon DEF mark_engine_submitted
    <3>. QED
      BY <3>1, Zenon DEF Transition, record_event
  <2>. QED
    BY <2>1, <2>2
<1>. HIDE DEF updated
<1>. QED
  BY <1>2, <1>3

LEMMA IncludedFacts ==
    ASSUME StoreTypeOK, NEW tx \in Nat, apply_settlement_included(tx)
    PROVE  /\ row'.status = row.status /\ row'.failure = row.failure /\ row'.job = row.job
           /\ row.status # "paid" => row' = row
           /\ dead' = dead /\ outbox \subseteq outbox'
<1>. DEFINE updated == [row EXCEPT !.tx = tx]
<1>1. updated.status = row.status /\ updated.failure = row.failure /\ updated.job = row.job
  BY DEF StoreTypeOK, Deposit
<1>2. Transition(row, row.status = "paid", updated, "settlement_included", {})
  BY DEF apply_settlement_included
<1>. HIDE DEF updated
<1>3. \/ row.status = "paid" /\ row' = updated /\ dead' = dead /\ outbox \subseteq outbox'
      \/ row.status # "paid" /\ UNCHANGED storeVars
  BY <1>2, TransitionFacts, Zenon
<1>. QED
  BY <1>1, <1>3 DEF storeVars

LEMMA SettledFacts ==
    ASSUME StoreTypeOK, NEW tx \in Nat, apply_settled(tx)
    PROVE  /\ row'.status # "paid" /\ row'.failure = row.failure /\ row'.job = row.job
           /\ row' = row \/ (row'.status = "settled" /\ row'.tx = tx)
<1>. DEFINE updated == [row EXCEPT !.status = "settled", !.tx = tx]
<1>1. /\ updated.status = "settled" /\ updated.tx = tx
      /\ updated.failure = row.failure /\ updated.job = row.job
  BY DEF StoreTypeOK, Deposit
<1>2. Transition(row, row.status = "paid", updated, "settled", {})
  BY DEF apply_settled
<1>. HIDE DEF updated
<1>3. \/ row.status = "paid" /\ row' = updated
      \/ row.status # "paid" /\ UNCHANGED storeVars
  BY <1>2, TransitionFacts, Zenon
<1>. QED
  BY <1>1, <1>3 DEF storeVars

LEMMA FailedFacts ==
    ASSUME StoreTypeOK, NEW code \in FailureCode, NEW tx \in Nat, apply_failed(code, tx)
    PROVE  /\ row'.status # "paid" /\ row'.job = row.job
           /\ row' = row \/ (row'.status = "failed" /\ row'.failure = code)
<1>. DEFINE updated == [row EXCEPT !.status = "failed", !.failure = code,
                                   !.tx = IF tx = NULL THEN @ ELSE tx]
<1>1. updated.status = "failed" /\ updated.failure = code /\ updated.job = row.job
  BY DEF StoreTypeOK, Deposit
<1>2. Transition(row, row.status = "paid", updated, "failed", {})
  BY DEF apply_failed
<1>. HIDE DEF updated
<1>3. \/ row.status = "paid" /\ row' = updated
      \/ row.status # "paid" /\ UNCHANGED storeVars
  BY <1>2, TransitionFacts, Zenon
<1>. QED
  BY <1>1, <1>3 DEF storeVars

\* A deposit that is detached from its job gets a row nobody holds yet.
LEMMA OrderedFacts ==
    ASSUME StoreTypeOK, RowsHaveCauses, resubmit \/ retry_settlement
    PROVE  \/ /\ row'.status = "paid" /\ row'.job = NULL /\ row'.failure \in {row.failure, "none"}
              /\ OutboxJob("submit_execute", event_seq + 1) \in outbox' \ dead'
              /\ event_seq' = event_seq + 1
           \/ UNCHANGED storeVars
<1>0. OutboxJob("submit_execute", event_seq + 1) \notin dead
  <2>0. event_seq \in Nat /\ dead \subseteq outbox
    BY DEF StoreTypeOK, event_seq
  <2>1. \A r \in outbox : r.seq \in 1..event_seq
    BY Zenon DEF RowsHaveCauses, event_seq
  <2>2. OutboxJob("submit_execute", event_seq + 1).seq = event_seq + 1
    BY DEF OutboxJob
  <2>. QED
    BY <2>0, <2>1, <2>2
<1>1. CASE resubmit
  <2>. DEFINE updated == [row EXCEPT !.job = NULL]
  <2>1. updated.status = row.status /\ updated.job = NULL /\ updated.failure = row.failure
    BY DEF StoreTypeOK, Deposit
  <2>2. Transition(row, row.status = "paid", updated, "settlement_retried", {"submit_execute"})
    BY <1>1 DEF resubmit
  <2>. HIDE DEF updated
  <2>3. \/ /\ row.status = "paid" /\ row' = updated /\ event_seq' = event_seq + 1 /\ dead' = dead
           /\ \A k \in {"submit_execute"} : OutboxJob(k, event_seq + 1) \in outbox'
        \/ row.status # "paid" /\ UNCHANGED storeVars
    BY <2>2, TransitionFacts, Zenon
  <2>. QED
    BY <1>0, <2>1, <2>3
<1>2. CASE retry_settlement
  <2>. DEFINE updated == [row EXCEPT !.status = "paid", !.job = NULL, !.failure = "none"]
  <2>1. updated.status = "paid" /\ updated.job = NULL /\ updated.failure = "none"
    BY DEF StoreTypeOK, Deposit
  <2>2. Transition(row, row.status = "failed", updated, "settlement_retried", {"submit_execute"})
    BY <1>2 DEF retry_settlement
  <2>. HIDE DEF updated
  <2>3. \/ /\ row.status = "failed" /\ row' = updated /\ event_seq' = event_seq + 1 /\ dead' = dead
           /\ \A k \in {"submit_execute"} : OutboxJob(k, event_seq + 1) \in outbox'
        \/ row.status # "failed" /\ UNCHANGED storeVars
    BY <2>2, TransitionFacts, Zenon
  <2>. QED
    BY <1>0, <2>1, <2>3
<1>. QED
  BY <1>1, <1>2

-----------------------------------------------------------------------------
(* The processes only take the store's steps                               *)

LEMMA AppliesStore ==
    ASSUME NEW job \in 1..event_seq, NEW what, apply_settlement(job, what)
    PROVE  SettlementStep
<1>1. ASSUME NEW f \in Failures, apply_failed(f.code, IF f.mined THEN job ELSE NULL)
      PROVE  SettlementStep
  <2>1. f.code \in FailureCode \ {"none"}
    BY DEF Failures, FailureCode
  <2>2. apply_failed(f.code, job) \/ apply_failed(f.code, NULL)
    BY <1>1
  <2>. QED
    BY <2>1, <2>2, Zenon DEF SettlementStep
<1>. QED
  BY <1>1, Zenon DEF apply_settlement, SettlementStep

LEMMA StoreSteps ==
    ASSUME SettlementInv, Next
    PROVE  StoreNext \/ UNCHANGED storeVars
<1>0. StoreTypeOK /\ 1 \in 1..event_seq /\ JobsAreKnown
      /\ worker \in [Workers -> WorkerType]
  BY DEF SettlementInv, StoreInv, StoreTypeOK, StatusMatchesTimeline, event_seq, TypeOK, WorkerType
<1>1. ASSUME NEW w \in Workers, WorkerNext(w)
      PROVE  OutboxStep \/ SettlementStep \/ UNCHANGED storeVars
  <2>1. CASE ClaimJob(w)
    BY <2>1, Zenon DEF ClaimJob, OutboxStep
  <2>2. CASE MarkSubmitted(w)
    <3>1. worker[w].seq \in 1..event_seq /\ worker[w].replayed \in BOOLEAN
      BY <1>0, <2>2 DEF MarkSubmitted, JobsAreKnown, WorkerType
    <3>. QED
      BY <2>2, <3>1, Zenon DEF MarkSubmitted, SettlementStep
  <2>3. CASE RecordRejection(w)
    <3>1. "engine_rejected" \in FailureCode \ {"none"}
      BY DEF FailureCode
    <3>. QED
      BY <1>0, <2>3, <3>1, Zenon DEF RecordRejection, SettlementStep
  <2>4. CASE FinishJob(w)
    BY <1>0, <2>4, FinishedRow DEF FinishJob
  <2>5. CASE LoadDeposit(w) \/ SubmitAccepted(w) \/ SubmitAnswerLost(w) \/ SubmitRejected(w)
             \/ AbandonJob(w) \/ WorkerCrash(w)
    BY <2>5, Zenon DEF LoadDeposit, SubmitAccepted, SubmitAnswerLost, SubmitRejected, AbandonJob,
           WorkerCrash
  <2>. QED
    BY <1>1, <2>1, <2>2, <2>3, <2>4, <2>5 DEF WorkerNext
<1>2. ASSUME NEW r \in outbox, LockExpires(r) \/ OperatorRequeue(r)
      PROVE  OutboxStep
  BY <1>2, Zenon DEF LockExpires, OperatorRequeue, OutboxStep
<1>3. ASSUME NEW k \in DOMAIN jobs, EngineNext(k)
      PROVE  UNCHANGED storeVars
  BY <1>3, Zenon DEF EngineNext, EngineInclude, EngineConfirm, EngineAlreadyDeployed, EngineFail,
         EngineForget, EndJob
<1>4. ASSUME NEW a \in Actors, CountRetries(a) \/ ApplySettlement(a) \/ ActorAborts(a)
      PROVE  SettlementStep \/ UNCHANGED storeVars
  <2>1. CASE ApplySettlement(a)
    <3>1. actor[a].job \in 1..event_seq /\ apply_settlement(actor[a].job, actor[a].what)
      BY <1>0, <2>1 DEF ApplySettlement, JobsAreKnown
    <3>. QED
      BY <3>1, AppliesStore
  <2>. QED
    BY <1>4, <2>1 DEF CountRetries, ActorAborts
<1>5. CASE OperatorRetry
  BY <1>5, Zenon DEF OperatorRetry, StoreNext, SettlementStep
<1>6. CASE \/ \E h \in Handlers, e \in sent : ReceiveEvent(h, e)
           \/ \E e \in sent : DropUnknownEvent(e) \/ PruneInbound(e)
           \/ \E p \in Reconcilers : SelectStale(p) \/ PollJob(p)
  BY <1>6, Zenon DEF ReceiveEvent, DropUnknownEvent, PruneInbound, SelectStale, PollJob
<1>. QED
  BY <1>1, <1>2, <1>3, <1>4, <1>5, <1>6 DEF Next, StoreNext

-----------------------------------------------------------------------------
(* What each kind of step must show                                        *)

BudgetType == [{"worker", "actor", "engine", "operator", "requeue"} -> Nat]

LEMMA Spending ==
    ASSUME TypeOK, NEW kind \in {"worker", "actor", "engine", "operator", "requeue"}, Spend(kind)
    PROVE  budget' \in BudgetType
BY DEF TypeOK, Spend, BudgetType

\* A row that was spared still is, when nobody finishes with another one.
LEMMA DriverStays ==
    ASSUME DriverIsSpared,
           row'.status = "paid" /\ row'.job = NULL => row.status = "paid" /\ row.job = NULL,
           outbox \ dead \subseteq outbox' \ dead',
           \A w \in Workers : worker'[w].step \in {"done", "dead"} =>
               worker[w].step \in {"done", "dead"} /\ worker'[w].seq = worker[w].seq
    PROVE  DriverIsSpared'
<1>. SUFFICES ASSUME row'.status = "paid" /\ row'.job = NULL
              PROVE  \E r \in outbox' : Spared(r)'
  BY DEF DriverIsSpared
<1>1. PICK r \in outbox : Spared(r)
  BY DEF DriverIsSpared
<1>. QED
  BY <1>1 DEF Spared

LEMMA VerdictStays ==
    ASSUME VerdictIsTrue, chain' = chain,
           row'.status = "settled" => row.status = "settled" /\ row'.tx = row.tx,
           row'.failure = "expired_on_chain" => row.failure = "expired_on_chain"
    PROVE  VerdictIsTrue'
BY DEF VerdictIsTrue

\* The factory deploys a payment once: what was witnessed stays so.
LEMMA WitnessStays ==
    ASSUME chain' = chain \/ chain.deployed = "no",
           NEW what, NEW job, Witnessed(what, job)
    PROVE  Witnessed(what, job)'
<1>1. CASE chain' = chain
  BY <1>1 DEF Witnessed
<1>2. CASE chain.deployed = "no"
  <2>1. \A o, j : [deployed |-> o, by |-> j].deployed = o
    OBVIOUS
  <2>. QED
    BY <1>2, <2>1 DEF Witnessed
<1>. QED
  BY <1>1, <1>2

LEMMA WorkerKeeps ==
    ASSUME SettlementInv, StoreInv', event_seq \in Nat, event_seq' \in Nat, event_seq' >= event_seq,
           NEW p \in Workers, NEW e \in WorkerType, worker' = [worker EXCEPT ![p] = e],
           UNCHANGED <<actor, sent, chain, inbound>>, budget' \in BudgetType,
           jobs' \in [DOMAIN jobs' -> JobState],
           DOMAIN jobs \subseteq DOMAIN jobs', DOMAIN jobs' \subseteq 1..event_seq,
           \A k \in DOMAIN jobs' : jobs'[k] = IF k \in DOMAIN jobs THEN jobs[k] ELSE "queued",
           row'.job \in DOMAIN jobs' \cup {NULL},
           e.step # "idle" => e.seq \in 1..event_seq,
           e.step = "mark" => e.seq \in DOMAIN jobs',
           VerdictIsTrue', DriverIsSpared'
    PROVE  SettlementInv'
<1>0. TypeOK /\ JobsAreKnown /\ ReportsAreTrue /\ worker \in [Workers -> WorkerType]
  BY DEF SettlementInv, TypeOK, WorkerType
<1>1. worker' \in [Workers -> WorkerType] /\ worker'[p] = e
      /\ \A w \in Workers \ {p} : worker'[w] = worker[w]
  BY <1>0
<1>2. TypeOK'
  BY <1>0, <1>1 DEF TypeOK, StoreInv, WorkerType, BudgetType, NULL
<1>3. JobsAreKnown'
  <2>1. \A w \in Workers : worker'[w].step # "idle" => worker'[w].seq \in 1..event_seq'
    BY <1>0, <1>1 DEF JobsAreKnown
  <2>2. \A w \in Workers : worker'[w].step = "mark" => worker'[w].seq \in DOMAIN jobs'
    BY <1>0, <1>1 DEF JobsAreKnown
  <2>3. \A a \in Actors : actor'[a].step # "idle" => actor'[a].job \in DOMAIN jobs'
    BY <1>0 DEF JobsAreKnown
  <2>4. DOMAIN jobs' \subseteq 1..event_seq' /\ \A x \in sent' : x.job \in DOMAIN jobs'
    BY <1>0 DEF JobsAreKnown
  <2>. QED
    BY <2>1, <2>2, <2>3, <2>4 DEF JobsAreKnown
<1>4. ReportsAreTrue'
  BY <1>0 DEF ReportsAreTrue, Witnessed
<1>. QED
  BY <1>2, <1>3, <1>4 DEF SettlementInv

LEMMA ActorKeeps ==
    ASSUME SettlementInv, StoreInv', event_seq \in Nat, event_seq' \in Nat, event_seq' >= event_seq,
           NEW p \in Actors, NEW e \in ActorType, actor' = [actor EXCEPT ![p] = e],
           UNCHANGED <<worker, engineVars>>, budget' \in BudgetType, inbound' \subseteq Event,
           row'.job \in DOMAIN jobs \cup {NULL},
           e.step # "idle" => e.job \in DOMAIN jobs /\ Witnessed(e.what, e.job),
           VerdictIsTrue', DriverIsSpared'
    PROVE  SettlementInv'
<1>0. TypeOK /\ JobsAreKnown /\ ReportsAreTrue /\ actor \in [Actors -> ActorType]
      /\ UNCHANGED <<worker, jobs, sent, chain>>
  BY DEF SettlementInv, TypeOK, ActorType, engineVars
<1>1. actor' \in [Actors -> ActorType] /\ actor'[p] = e
      /\ \A a \in Actors \ {p} : actor'[a] = actor[a]
  BY <1>0
<1>2. TypeOK'
  BY <1>0, <1>1 DEF TypeOK, StoreInv, ActorType, BudgetType
<1>3. JobsAreKnown'
  <2>1. \A a \in Actors : actor'[a].step # "idle" => actor'[a].job \in DOMAIN jobs
    BY <1>0, <1>1 DEF JobsAreKnown
  <2>2. \A w \in Workers : worker[w].step # "idle" => worker[w].seq \in 1..event_seq'
    BY <1>0 DEF JobsAreKnown
  <2>. QED
    BY <1>0, <2>1, <2>2 DEF JobsAreKnown
<1>4. ReportsAreTrue'
  <2>1. \A a \in Actors : actor'[a].step # "idle" => Witnessed(actor'[a].what, actor'[a].job)
    BY <1>0, <1>1 DEF ReportsAreTrue
  <2>. QED
    BY <1>0, <2>1 DEF ReportsAreTrue, Witnessed
<1>. QED
  BY <1>2, <1>3, <1>4 DEF SettlementInv

\* The operator, time and the inbox leave the processes and the engine alone.
LEMMA OtherKeeps ==
    ASSUME SettlementInv, StoreInv', event_seq \in Nat, event_seq' \in Nat, event_seq' >= event_seq,
           UNCHANGED <<worker, actor, engineVars>>, budget' \in BudgetType, inbound' \subseteq Event,
           row'.job \in {row.job, NULL}, VerdictIsTrue', DriverIsSpared'
    PROVE  SettlementInv'
<1>0. TypeOK /\ JobsAreKnown /\ ReportsAreTrue /\ UNCHANGED <<worker, actor, jobs, sent, chain>>
  BY DEF SettlementInv, engineVars
<1>1. TypeOK'
  BY <1>0 DEF TypeOK, StoreInv, BudgetType
<1>2. JobsAreKnown'
  <2>1. \A w \in Workers : worker[w].step # "idle" => worker[w].seq \in 1..event_seq'
    BY <1>0 DEF JobsAreKnown
  <2>. QED
    BY <1>0, <2>1 DEF JobsAreKnown
<1>3. ReportsAreTrue'
  BY <1>0 DEF ReportsAreTrue, Witnessed
<1>. QED
  BY <1>1, <1>2, <1>3 DEF SettlementInv

\* The engine's reports are about what it has just done.
LEMMA EngineKeeps ==
    ASSUME SettlementInv, UNCHANGED <<storeVars, worker, actor, inbound>>, budget' \in BudgetType,
           NEW k \in DOMAIN jobs, NEW state \in JobState, jobs' = [jobs EXCEPT ![k] = state],
           NEW said \in SUBSET Event, sent' = sent \cup said,
           \A x \in said : x.job = k /\ Witnessed(x.what, k)',
           Witnessed(state, k)',
           \/ chain' = chain
           \/ chain.deployed = "no" /\ chain' \in [deployed: Deployments \cup {"no"}, by: Nat]
    PROVE  SettlementInv'
<1>0. TypeOK /\ JobsAreKnown /\ ReportsAreTrue
  BY DEF SettlementInv
<1>1. /\ StoreInv' /\ StoreTypeOK'
      /\ UNCHANGED <<row, timeline, outbox, dead, event_seq, worker, actor, inbound>>
  BY StoreGrows DEF SettlementInv, storeVars, event_seq, StoreInv
<1>2. DOMAIN jobs' = DOMAIN jobs /\ jobs' \in [DOMAIN jobs' -> JobState] /\ jobs'[k] = state
      /\ \A j \in DOMAIN jobs \ {k} : jobs'[j] = jobs[j]
  BY <1>0 DEF TypeOK
<1>3. TypeOK'
  BY <1>0, <1>1, <1>2 DEF TypeOK, BudgetType
<1>4. JobsAreKnown'
  BY <1>0, <1>1, <1>2 DEF JobsAreKnown
<1>5. ReportsAreTrue'
  <2>. DEFINE W(what, job) ==
         what \in {"settled", "recovered"} => chain' = [deployed |-> what, by |-> job]
  <2>0. \A what, job : Witnessed(what, job) => W(what, job)
    <3>1. ASSUME NEW what, NEW job, Witnessed(what, job) PROVE W(what, job)
      <4>1. Witnessed(what, job)'
        BY <3>1, WitnessStays
      <4>. QED
        BY <4>1 DEF Witnessed
    <3>. QED
      BY <3>1
  <2>1. W(state, k) /\ \A x \in said : x.job = k /\ W(x.what, k)
    BY DEF Witnessed
  <2>. HIDE DEF W
  <2>2. \A j \in DOMAIN jobs' : W(jobs'[j], j)
    BY <1>0, <1>2, <2>0, <2>1 DEF ReportsAreTrue
  <2>3. \A x \in sent' : W(x.what, x.job)
    BY <1>0, <2>0, <2>1 DEF ReportsAreTrue
  <2>4. \A a \in Actors : actor'[a].step # "idle" => W(actor'[a].what, actor'[a].job)
    BY <1>0, <1>1, <2>0 DEF ReportsAreTrue
  <2>. QED
    BY <2>2, <2>3, <2>4 DEF ReportsAreTrue, Witnessed, W
<1>6. VerdictIsTrue'
  <2>1. CASE chain' = chain
    BY <1>1, <2>1, VerdictStays DEF SettlementInv
  <2>2. CASE chain.deployed = "no"
    <3>1. [deployed |-> "settled", by |-> row.tx].deployed = "settled"
      OBVIOUS
    <3>2. row.status # "settled" /\ row.failure # "expired_on_chain"
      BY <2>2, <3>1 DEF SettlementInv, VerdictIsTrue
    <3>. QED
      BY <1>1, <3>2 DEF VerdictIsTrue
  <2>. QED
    BY <2>1, <2>2
<1>7. DriverIsSpared'
  BY <1>1, DriverStays DEF SettlementInv
<1>. QED
  BY <1>1, <1>3, <1>4, <1>5, <1>6, <1>7 DEF SettlementInv

-----------------------------------------------------------------------------
(* The workers                                                             *)

LEMMA GotoFacts ==
    ASSUME TypeOK, NEW p \in Workers, NEW s \in WorkerStep, Goto(p, s)
    PROVE  \E e \in WorkerType : /\ worker' = [worker EXCEPT ![p] = e]
                                 /\ e.step = s /\ e.seq = worker[p].seq
<1>. DEFINE e == [worker[p] EXCEPT !.step = s]
<1>1. worker[p] \in WorkerType /\ worker' = [worker EXCEPT ![p] = e]
  BY DEF TypeOK, Goto, WorkerType
<1>2. e \in WorkerType /\ e.step = s /\ e.seq = worker[p].seq
  BY <1>1 DEF WorkerType
<1>. QED
  BY <1>1, <1>2

\* A worker that goes on without finishing takes no row away.
LEMMA WorkerDriver ==
    ASSUME SettlementInv, NEW p \in Workers, NEW e \in WorkerType,
           worker' = [worker EXCEPT ![p] = e], UNCHANGED <<row, outbox, dead>>,
           e.step \in {"done", "dead"} => row.status # "paid" \/ row.job # NULL
    PROVE  DriverIsSpared'
<1>1. worker \in [Workers -> WorkerType]
  BY DEF SettlementInv, TypeOK, WorkerType
<1>2. CASE e.step \in {"done", "dead"}
  BY <1>2 DEF DriverIsSpared
<1>3. CASE e.step \notin {"done", "dead"}
  <2>1. \A w \in Workers : worker'[w].step \in {"done", "dead"} =>
               worker[w].step \in {"done", "dead"} /\ worker'[w].seq = worker[w].seq
    BY <1>1, <1>3
  <2>. QED
    BY <2>1, DriverStays DEF SettlementInv
<1>. QED
  BY <1>2, <1>3

\* The last statement of a job hits its own row, which is not the spared one.
LEMMA FinishDriver ==
    ASSUME SettlementInv, NEW p \in Workers, FinishJob(p)
    PROVE  DriverIsSpared'
<1>0. worker \in [Workers -> WorkerType] /\ worker' = [worker EXCEPT ![p] = IdleWorker]
      /\ row' = row
  BY DEF SettlementInv, TypeOK, WorkerType, FinishJob, delete_row, retry_later, mark_dead
<1>1. SUFFICES ASSUME row.status = "paid" /\ row.job = NULL
               PROVE  \E r \in outbox' : Spared(r)'
  BY <1>0 DEF DriverIsSpared
<1>2. PICK r \in outbox : Spared(r)
  BY <1>1 DEF SettlementInv, DriverIsSpared
<1>3. r \in outbox' \ dead'
  <2>1. CASE worker[p].step = "retry" /\ retry_later(RowOf(p))
    BY <1>2, <2>1 DEF retry_later, Spared
  <2>2. CASE worker[p].step \in {"done", "dead"} /\ (delete_row(RowOf(p)) \/ mark_dead(RowOf(p)))
    <3>1. r # RowOf(p)
      BY <1>2, <2>2 DEF Spared, RowOf, OutboxJob
    <3>. QED
      BY <1>2, <2>2, <3>1 DEF Spared, delete_row, mark_dead
  <2>. QED
    BY <2>1, <2>2 DEF FinishJob
<1>4. \A w \in Workers : worker'[w].step \in {"done", "dead"} => worker'[w] = worker[w]
  BY <1>0 DEF IdleWorker
<1>. QED
  BY <1>2, <1>3, <1>4 DEF Spared

LEMMA WorkerPreserves ==
    ASSUME SettlementInv, NEW p \in Workers, WorkerNext(p)
    PROVE  SettlementInv'
<1>0. /\ StoreInv' /\ event_seq \in Nat /\ event_seq' \in Nat /\ event_seq' >= event_seq
  <2>1. Next
    BY DEF Next
  <2>. QED
    BY <2>1, StoreSteps, StoreGrows DEF SettlementInv
<1>1. /\ TypeOK /\ StoreTypeOK /\ budget \in BudgetType
      /\ worker[p] \in WorkerType
      /\ IdleWorker \in WorkerType /\ IdleWorker.step = "idle"
      /\ jobs \in [DOMAIN jobs -> JobState]
  BY DEF SettlementInv, TypeOK, BudgetType, WorkerType, WorkerStep, IdleWorker
<1>2. /\ DOMAIN jobs \subseteq 1..event_seq /\ row.job \in DOMAIN jobs \cup {NULL}
      /\ worker[p].step # "idle" => worker[p].seq \in 1..event_seq
      /\ worker[p].step = "mark" => worker[p].seq \in DOMAIN jobs
  BY DEF SettlementInv, JobsAreKnown
<1>3. \A s \in {"submit", "done", "mark", "retry", "reject", "dead"} : s \in WorkerStep
  BY DEF WorkerStep
\* The frame lemma where the engine's jobs and the deposit are left alone ..
<1>4. ASSUME NEW e \in WorkerType, worker' = [worker EXCEPT ![p] = e],
             UNCHANGED <<row, outbox, dead, actor, engineVars, inbound>>, budget' \in BudgetType,
             e.step # "idle" => e.seq \in 1..event_seq, e.step # "mark",
             e.step \in {"done", "dead"} => row.status # "paid" \/ row.job # NULL
      PROVE  SettlementInv'
  <2>1. UNCHANGED <<jobs, sent, chain>>
    BY <1>4 DEF engineVars
  <2>2. VerdictIsTrue'
    BY <1>4, <2>1, VerdictStays DEF SettlementInv
  <2>3. DriverIsSpared'
    BY <1>4, WorkerDriver
  <2>. QED
    BY <1>0, <1>1, <1>2, <1>4, <2>1, <2>2, <2>3, WorkerKeeps
\* .. and where the worker only goes on to another step.
<1>5. ASSUME NEW s \in {"submit", "done", "retry", "reject"}, Goto(p, s), worker[p].step # "idle",
             UNCHANGED <<storeVars, actor, engineVars, inbound>>, budget' \in BudgetType,
             s = "done" => row.status # "paid" \/ row.job # NULL
      PROVE  SettlementInv'
  <2>1. PICK e \in WorkerType : /\ worker' = [worker EXCEPT ![p] = e]
                                /\ e.step = s /\ e.seq = worker[p].seq
    BY <1>1, <1>3, <1>5, GotoFacts
  <2>2. UNCHANGED <<row, outbox, dead, actor, engineVars, inbound>>
    BY <1>5 DEF storeVars
  <2>. QED
    BY <1>2, <1>4, <1>5, <2>1, <2>2
<1>6. CASE ClaimJob(p)
  <2>1. PICK r \in outbox : claim(r) /\ worker' =
           [worker EXCEPT ![p] = [step |-> "load", seq |-> r.seq, replayed |-> FALSE]]
    BY <1>6 DEF ClaimJob
  <2>. DEFINE e == [step |-> "load", seq |-> r.seq, replayed |-> FALSE]
  <2>2. r.seq \in 1..event_seq
    BY Zenon DEF SettlementInv, StoreInv, RowsHaveCauses, event_seq
  <2>3. e \in WorkerType /\ e.step = "load" /\ e.seq = r.seq
    BY <1>0, <2>2 DEF WorkerType, WorkerStep
  <2>4. worker' = [worker EXCEPT ![p] = e]
    BY <2>1
  <2>. HIDE DEF e
  <2>5. UNCHANGED <<row, outbox, dead, actor, engineVars, inbound>> /\ budget' \in BudgetType
    BY <1>1, <1>6, <2>1 DEF ClaimJob, claim
  <2>. QED
    BY <1>4, <2>2, <2>3, <2>4, <2>5
<1>7. CASE LoadDeposit(p)
  BY <1>1, <1>5, <1>7 DEF LoadDeposit
<1>8. CASE SubmitRejected(p)
  BY <1>1, <1>5, <1>8, Spending DEF SubmitRejected
<1>9. CASE AbandonJob(p)
  BY <1>1, <1>5, <1>9, Spending DEF AbandonJob
<1>10. CASE WorkerCrash(p)
  <2>1. UNCHANGED <<row, outbox, dead, actor, engineVars, inbound>> /\ budget' \in BudgetType
    BY <1>1, <1>10, Spending DEF WorkerCrash, storeVars
  <2>. QED
    BY <1>1, <1>4, <1>10, <2>1 DEF WorkerCrash
<1>11. CASE SubmitAccepted(p) \/ SubmitAnswerLost(p)
  <2>. DEFINE k == worker[p].seq
  <2>1. worker[p].step = "submit" /\ k \in 1..event_seq /\ AcceptJob(k)
    BY <1>2, <1>11 DEF SubmitAccepted, SubmitAnswerLost
  <2>2. /\ DOMAIN jobs' = DOMAIN jobs \cup {k}
        /\ \A j \in DOMAIN jobs' : jobs'[j] = IF j \in DOMAIN jobs THEN jobs[j] ELSE "queued"
    BY <2>1 DEF AcceptJob
  <2>3. jobs' \in [DOMAIN jobs' -> JobState]
    <3>1. "queued" \in JobState
      BY DEF JobState
    <3>. QED
      BY <1>1, <2>1, <2>2, <3>1 DEF AcceptJob
  <2>4. PICK e \in WorkerType : /\ worker' = [worker EXCEPT ![p] = e]
                                /\ e.step \in {"mark", "retry"} /\ e.seq = k
    <3>1. CASE SubmitAccepted(p)
      <4>. DEFINE known == k \in DOMAIN jobs
                  e == [worker[p] EXCEPT !.step = "mark", !.replayed = known]
      <4>1. worker' = [worker EXCEPT ![p] = e]
        BY <1>1, <3>1 DEF SubmitAccepted, TypeOK
      <4>2. known \in BOOLEAN
        OBVIOUS
      <4>. HIDE DEF known
      <4>3. e \in WorkerType /\ e.step = "mark" /\ e.seq = k
        BY <1>1, <1>3, <4>2 DEF WorkerType
      <4>. QED
        BY <4>1, <4>3
    <3>2. CASE SubmitAnswerLost(p)
      BY <1>1, <1>3, <3>2, GotoFacts DEF SubmitAnswerLost
    <3>. QED
      BY <1>11, <3>1, <3>2
  <2>5. UNCHANGED <<storeVars, actor, sent, chain, inbound>> /\ budget' \in BudgetType
    BY <1>1, <1>11, Spending DEF SubmitAccepted, SubmitAnswerLost
  <2>6. UNCHANGED <<row, outbox, dead>>
    BY <2>5 DEF storeVars
  <2>7. VerdictIsTrue'
    BY <2>5, <2>6, VerdictStays DEF SettlementInv
  <2>8. DriverIsSpared'
    BY <2>4, <2>6, WorkerDriver
  <2>. HIDE DEF k
  <2>. QED
    BY <1>0, <1>2, <2>1, <2>2, <2>3, <2>4, <2>5, <2>6, <2>7, <2>8, WorkerKeeps
<1>12. CASE MarkSubmitted(p)
  <2>1. worker[p].seq \in DOMAIN jobs /\ worker[p].seq \in Nat \ {NULL} /\ worker[p].replayed \in BOOLEAN
    BY <1>0, <1>1, <1>2, <1>12 DEF MarkSubmitted, WorkerType, NULL
  <2>2. /\ row'.status = row.status /\ row'.tx = row.tx /\ row'.failure = row.failure
        /\ row'.job \in {row.job, worker[p].seq}
        /\ row'.status = "paid" => row'.job # NULL
    BY <1>1, <1>12, <2>1, MarkFacts DEF MarkSubmitted
  <2>3. PICK e \in WorkerType : /\ worker' = [worker EXCEPT ![p] = e]
                                /\ e.step = "done" /\ e.seq = worker[p].seq
    BY <1>1, <1>3, <1>12, GotoFacts DEF MarkSubmitted
  <2>4. UNCHANGED <<actor, jobs, sent, chain, inbound>> /\ budget' \in BudgetType
    BY <1>1, <1>12 DEF MarkSubmitted, engineVars
  <2>5. VerdictIsTrue'
    BY <2>2, <2>4, VerdictStays DEF SettlementInv
  <2>6. DriverIsSpared'
    BY <2>2 DEF DriverIsSpared
  <2>. QED
    BY <1>0, <1>1, <1>2, <2>1, <2>2, <2>3, <2>4, <2>5, <2>6, WorkerKeeps
<1>13. CASE RecordRejection(p)
  <2>1. "engine_rejected" \in FailureCode /\ NULL \in Nat
    BY DEF FailureCode, NULL
  <2>2. /\ row'.status # "paid" /\ row'.job = row.job
        /\ row' = row \/ (row'.status = "failed" /\ row'.failure = "engine_rejected")
    BY <1>1, <1>13, <2>1, FailedFacts DEF RecordRejection
  <2>3. PICK e \in WorkerType : /\ worker' = [worker EXCEPT ![p] = e]
                                /\ e.step = "dead" /\ e.seq = worker[p].seq
    BY <1>1, <1>3, <1>13, GotoFacts DEF RecordRejection
  <2>4. UNCHANGED <<actor, jobs, sent, chain, inbound>> /\ budget' \in BudgetType
        /\ worker[p].step # "idle"
    BY <1>1, <1>13 DEF RecordRejection, engineVars
  <2>5. VerdictIsTrue'
    BY <2>2, <2>4, VerdictStays DEF SettlementInv
  <2>6. DriverIsSpared'
    BY <2>2 DEF DriverIsSpared
  <2>. QED
    BY <1>0, <1>1, <1>2, <2>2, <2>3, <2>4, <2>5, <2>6, WorkerKeeps
<1>14. CASE FinishJob(p)
  <2>1. UNCHANGED <<row, actor, jobs, sent, chain, inbound>> /\ budget' \in BudgetType
        /\ worker' = [worker EXCEPT ![p] = IdleWorker]
    BY <1>1, <1>14 DEF FinishJob, engineVars, delete_row, retry_later, mark_dead
  <2>2. VerdictIsTrue'
    BY <2>1, VerdictStays DEF SettlementInv
  <2>3. DriverIsSpared'
    BY <1>14, FinishDriver
  <2>. QED
    BY <1>0, <1>1, <1>2, <2>1, <2>2, <2>3, WorkerKeeps
<1>. QED
  BY <1>6, <1>7, <1>8, <1>9, <1>10, <1>11, <1>12, <1>13, <1>14 DEF WorkerNext

-----------------------------------------------------------------------------
(* The engine, the handlers and the reconciler, the operator               *)

LEMMA EnginePreserves ==
    ASSUME SettlementInv, NEW k \in DOMAIN jobs, EngineNext(k)
    PROVE  SettlementInv'
<1>0. /\ TypeOK /\ budget \in BudgetType /\ k \in Nat /\ jobs[k] \in JobState
      /\ jobs = [jobs EXCEPT ![k] = jobs[k]] /\ Witnessed(jobs[k], k)
  BY DEF SettlementInv, TypeOK, BudgetType, ReportsAreTrue
<1>1. \A o \in Outcome \cup {"included"} : [job |-> k, what |-> o] \in Event
  BY <1>0 DEF Event, Report
<1>2. Outcome \subseteq JobState /\ "unknown" \in JobState
  BY DEF JobState
<1>3. ASSUME NEW o \in Outcome, EndJob(k, o), budget' \in BudgetType, Witnessed(o, k)',
             \/ chain' = chain
             \/ chain.deployed = "no" /\ chain' \in [deployed: Deployments \cup {"no"}, by: Nat]
      PROVE  SettlementInv'
  <2>. DEFINE x == [job |-> k, what |-> o]
  <2>1. x \in Event /\ x.job = k /\ x.what = o
    BY <1>1
  <2>2. UNCHANGED <<storeVars, worker, actor, inbound>> /\ jobs' = [jobs EXCEPT ![k] = o]
        /\ sent' = sent \cup {x}
    BY <1>3 DEF EndJob
  <2>3. \A y \in {x} : y.job = k /\ Witnessed(y.what, k)'
    BY <1>3, <2>1
  <2>. HIDE DEF x
  <2>4. {x} \in SUBSET Event /\ o \in JobState
    BY <1>2, <2>1
  <2>. QED
    BY <1>3, <2>2, <2>3, <2>4, EngineKeeps
<1>4. CASE EngineInclude(k)
  <2>. DEFINE x == [job |-> k, what |-> "included"]
  <2>1. x \in Event /\ x.job = k /\ x.what = "included"
    BY <1>1
  <2>2. UNCHANGED <<storeVars, worker, actor, inbound, jobs, chain, budget>> /\ sent' = sent \cup {x}
    BY <1>4 DEF EngineInclude
  <2>3. \A y \in {x} : y.job = k /\ Witnessed(y.what, k)'
    BY <2>1 DEF Witnessed
  <2>. HIDE DEF x
  <2>4. {x} \in SUBSET Event /\ budget' \in BudgetType
    BY <1>0, <2>1, <2>2
  <2>5. PICK state \in JobState : state = jobs[k]
    BY <1>0
  <2>6. Witnessed(state, k)' /\ jobs' = [jobs EXCEPT ![k] = state]
    BY <1>0, <2>2, <2>5 DEF Witnessed
  <2>. QED
    BY <2>2, <2>3, <2>4, <2>6, EngineKeeps
<1>5. CASE EngineConfirm(k)
  <2>1. PICK o \in Deployments : chain' = [deployed |-> o, by |-> k] /\ EndJob(k, o)
    BY <1>5 DEF EngineConfirm
  <2>2. o \in Outcome
    BY DEF Outcome
  <2>3. Witnessed(o, k)'
    BY <2>1 DEF Witnessed
  <2>4. chain.deployed = "no" /\ chain' \in [deployed: Deployments \cup {"no"}, by: Nat]
        /\ budget' \in BudgetType
    BY <1>0, <1>5, <2>1 DEF EngineConfirm
  <2>. QED
    BY <1>3, <2>1, <2>2, <2>3, <2>4
<1>6. CASE EngineAlreadyDeployed(k)
  <2>1. "refused" \in Outcome /\ Witnessed("refused", k)'
    BY DEF Outcome, Witnessed
  <2>. QED
    BY <1>0, <1>3, <1>6, <2>1 DEF EngineAlreadyDeployed
<1>7. CASE EngineFail(k)
  <2>1. PICK o \in {"reverted", "dropped", "refused"} : EndJob(k, o)
    BY <1>7 DEF EngineFail
  <2>2. o \in Outcome /\ Witnessed(o, k)'
    BY DEF Outcome, Witnessed
  <2>3. chain' = chain /\ budget' \in BudgetType
    BY <1>0, <1>7, Spending DEF EngineFail
  <2>. QED
    BY <1>3, <2>1, <2>2, <2>3
<1>8. CASE EngineForget(k)
  <2>1. UNCHANGED <<storeVars, worker, actor, inbound, chain>> /\ sent' = sent \cup {}
        /\ jobs' = [jobs EXCEPT ![k] = "unknown"] /\ budget' \in BudgetType
    BY <1>0, <1>8, Spending DEF EngineForget
  <2>2. Witnessed("unknown", k)' /\ {} \in SUBSET Event
        /\ \A x \in {} : x.job = k /\ Witnessed(x.what, k)'
    BY DEF Witnessed
  <2>. QED
    BY <1>2, <2>1, <2>2, EngineKeeps
<1>. QED
  BY <1>4, <1>5, <1>6, <1>7, <1>8 DEF EngineNext

\* A row nobody holds is there as soon as a deposit is detached from its job.
LEMMA OrderedPreserves ==
    ASSUME SettlementInv, resubmit \/ retry_settlement, UNCHANGED <<worker, chain>>
    PROVE  row'.job \in {row.job, NULL} /\ VerdictIsTrue' /\ DriverIsSpared'
<1>0. StoreTypeOK /\ RowsHaveCauses /\ event_seq \in Nat /\ JobsAreKnown
  BY DEF SettlementInv, StoreInv, StoreTypeOK, event_seq
<1>1. CASE UNCHANGED storeVars
  <2>1. UNCHANGED <<row, outbox, dead>>
    BY <1>1 DEF storeVars
  <2>. QED
    BY <2>1, VerdictStays, DriverStays DEF SettlementInv
<1>2. CASE /\ row'.status = "paid" /\ row'.job = NULL /\ row'.failure \in {row.failure, "none"}
           /\ OutboxJob("submit_execute", event_seq + 1) \in outbox' \ dead'
           /\ event_seq' = event_seq + 1
  <2>0. PICK r : r = OutboxJob("submit_execute", event_seq + 1)
    OBVIOUS
  <2>1. VerdictIsTrue'
    BY <1>2, VerdictStays DEF SettlementInv
  <2>2. r.kind = "submit_execute" /\ r.seq = event_seq + 1
    BY <2>0 DEF OutboxJob
  <2>3. \A w \in Workers : worker[w].step \in {"done", "dead"} => worker[w].seq # event_seq + 1
    BY <1>0 DEF JobsAreKnown
  <2>4. r \in outbox' \ dead'
    BY <1>2, <2>0
  <2>5. Spared(r)'
    BY <2>2, <2>3, <2>4 DEF Spared
  <2>. QED
    BY <1>2, <2>1, <2>4, <2>5 DEF DriverIsSpared
<1>. QED
  BY <1>0, <1>1, <1>2, OrderedFacts

\* Applying a report says what happened on chain, and strands nothing.
LEMMA AppliedPreserves ==
    ASSUME SettlementInv, UNCHANGED <<worker, chain>>,
           NEW job \in Nat, NEW what, Witnessed(what, job), apply_settlement(job, what)
    PROVE  row'.job \in {row.job, NULL} /\ VerdictIsTrue' /\ DriverIsSpared'
<1>0. StoreTypeOK /\ VerdictIsTrue
  BY DEF SettlementInv, StoreInv
<1>1. CASE what = "included" /\ apply_settlement_included(job)
  <2>1. /\ row'.status = row.status /\ row'.failure = row.failure /\ row'.job = row.job
        /\ row.status # "paid" => row' = row
        /\ dead' = dead /\ outbox \subseteq outbox'
    BY <1>0, <1>1, IncludedFacts
  <2>2. VerdictIsTrue'
    BY <1>0, <2>1 DEF VerdictIsTrue
  <2>3. outbox \ dead \subseteq outbox' \ dead' /\ UNCHANGED worker
    BY <2>1
  <2>4. DriverIsSpared'
    BY <2>1, <2>3, DriverStays DEF SettlementInv
  <2>. QED
    BY <2>1, <2>2, <2>4
<1>2. CASE what = "settled" /\ apply_settled(job)
  <2>1. /\ row'.status # "paid" /\ row'.failure = row.failure /\ row'.job = row.job
        /\ row' = row \/ (row'.status = "settled" /\ row'.tx = job)
    BY <1>0, <1>2, SettledFacts
  <2>2. chain = [deployed |-> "settled", by |-> job]
    BY <1>2 DEF Witnessed
  <2>3. VerdictIsTrue'
    BY <1>0, <2>1, <2>2 DEF VerdictIsTrue
  <2>. QED
    BY <2>1, <2>3 DEF DriverIsSpared
<1>3. CASE what = "resubmit" /\ resubmit
  BY <1>3, OrderedPreserves
<1>4. ASSUME NEW f \in Failures, f.what = what, apply_failed(f.code, IF f.mined THEN job ELSE NULL)
      PROVE  row'.job \in {row.job, NULL} /\ VerdictIsTrue' /\ DriverIsSpared'
  <2>1. f.code \in FailureCode /\ (f.code = "expired_on_chain" => f.what = "recovered")
        /\ (IF f.mined THEN job ELSE NULL) \in Nat
    BY DEF Failures, FailureCode, NULL
  <2>2. PICK tx \in Nat : apply_failed(f.code, tx)
    BY <1>4, <2>1
  <2>3. /\ row'.status # "paid" /\ row'.job = row.job
        /\ row' = row \/ (row'.status = "failed" /\ row'.failure = f.code)
    BY <1>0, <2>1, <2>2, FailedFacts
  <2>4. f.code = "expired_on_chain" => chain.deployed = "recovered"
    BY <1>4, <2>1 DEF Witnessed
  <2>5. VerdictIsTrue'
    BY <1>0, <2>3, <2>4 DEF VerdictIsTrue
  <2>. QED
    BY <2>3, <2>5 DEF DriverIsSpared
<1>. QED
  BY <1>1, <1>2, <1>3, <1>4 DEF apply_settlement

LEMMA ActorPreserves ==
    ASSUME SettlementInv, Next, NEW p \in Actors,
           \/ CountRetries(p) \/ ApplySettlement(p) \/ ActorAborts(p)
           \/ \E e \in sent : ReceiveEvent(p, e)
           \/ SelectStale(p) \/ PollJob(p)
    PROVE  SettlementInv'
<1>0. /\ StoreInv' /\ event_seq \in Nat /\ event_seq' \in Nat /\ event_seq' >= event_seq
  BY StoreSteps, StoreGrows DEF SettlementInv
<1>1. /\ TypeOK /\ StoreTypeOK /\ budget \in BudgetType /\ inbound \subseteq Event
      /\ actor \in [Actors -> ActorType] /\ actor[p] \in ActorType
      /\ jobs \in [DOMAIN jobs -> JobState] /\ DOMAIN jobs \subseteq Nat /\ sent \subseteq Event
  BY DEF SettlementInv, TypeOK, BudgetType, ActorType, NULL
<1>2. /\ row.job \in DOMAIN jobs \cup {NULL}
      /\ actor[p].step # "idle" =>
            actor[p].job \in DOMAIN jobs /\ Witnessed(actor[p].what, actor[p].job)
      /\ \A e \in sent : e.job \in DOMAIN jobs /\ Witnessed(e.what, e.job)
      /\ \A k \in DOMAIN jobs : Witnessed(jobs[k], k)
  BY DEF SettlementInv, JobsAreKnown, ReportsAreTrue
<1>3. IdleActor \in ActorType /\ IdleActor.step = "idle"
  BY DEF IdleActor, ActorType, ActorStep, Plan, NULL
<1>4. /\ \A what : NextStep(what) \in {"count", "apply"}
      /\ {"poll", "count", "apply"} \subseteq ActorStep
      /\ Report \subseteq Plan /\ Outcome \subseteq Plan /\ {"resubmit", "dropped", "none"} \subseteq Plan
  BY DEF NextStep, ActorStep, Plan, Report, Outcome
\* A step that only changes what this process knows.
<1>5. ASSUME NEW e \in ActorType, actor' = [actor EXCEPT ![p] = e],
             UNCHANGED <<storeVars, worker, engineVars, inbound>>, budget' \in BudgetType,
             e.step # "idle" => e.job \in DOMAIN jobs /\ Witnessed(e.what, e.job)
      PROVE  SettlementInv'
  <2>1. UNCHANGED <<row, outbox, dead, worker, chain>>
    BY <1>5 DEF storeVars, engineVars
  <2>2. VerdictIsTrue'
    BY <2>1, VerdictStays DEF SettlementInv
  <2>3. DriverIsSpared'
    BY <2>1, DriverStays DEF SettlementInv
  <2>. QED
    BY <1>0, <1>1, <1>2, <1>5, <2>1, <2>2, <2>3, ActorKeeps
<1>6. CASE CountRetries(p)
  <2>. DEFINE v == IF Retries < MAX_AUTO_RETRIES THEN "resubmit" ELSE "dropped"
              e == [actor[p] EXCEPT !.step = "apply", !.what = v]
  <2>1. v \in {"resubmit", "dropped"}
    OBVIOUS
  <2>2. actor' = [actor EXCEPT ![p] = e] /\ actor[p].step = "count"
    BY <1>1, <1>6 DEF CountRetries
  <2>. HIDE DEF v
  <2>3. e \in ActorType /\ e.job = actor[p].job /\ e.what = v
    BY <1>1, <1>4, <2>1 DEF ActorType
  <2>. HIDE DEF e
  <2>4. Witnessed(e.what, e.job)
    BY <2>1, <2>3 DEF Witnessed
  <2>5. UNCHANGED <<storeVars, worker, engineVars, inbound>> /\ budget' \in BudgetType
    BY <1>1, <1>6 DEF CountRetries
  <2>. QED
    BY <1>2, <1>5, <2>2, <2>3, <2>4, <2>5
<1>7. CASE ActorAborts(p)
  <2>1. UNCHANGED <<storeVars, worker, engineVars, inbound>> /\ budget' \in BudgetType
        /\ actor' = [actor EXCEPT ![p] = IdleActor]
    BY <1>1, <1>7, Spending DEF ActorAborts
  <2>. QED
    BY <1>3, <1>5, <2>1
<1>8. ASSUME NEW x \in sent, ReceiveEvent(p, x) PROVE SettlementInv'
  <2>. DEFINE e == [step |-> NextStep(x.what), job |-> x.job, what |-> x.what]
  <2>1. x.job \in Nat /\ x.what \in Report
    BY <1>1 DEF Event
  <2>2. e \in ActorType /\ e.job = x.job /\ e.what = x.what
    BY <1>4, <2>1 DEF ActorType
  <2>3. actor' = [actor EXCEPT ![p] = e] /\ budget' \in BudgetType
        /\ UNCHANGED <<storeVars, worker, engineVars, inbound>>
    BY <1>1, <1>8 DEF ReceiveEvent
  <2>. HIDE DEF e
  <2>. QED
    BY <1>2, <1>5, <2>2, <2>3
<1>9. CASE SelectStale(p)
  <2>. DEFINE e == [step |-> "poll", job |-> row.job, what |-> "none"]
  <2>1. row.job \in DOMAIN jobs
    BY <1>2, <1>9 DEF SelectStale
  <2>2. e \in ActorType /\ e.job = row.job /\ e.what = "none"
    BY <1>1, <1>4, <2>1 DEF ActorType
  <2>3. actor' = [actor EXCEPT ![p] = e] /\ budget' \in BudgetType
        /\ UNCHANGED <<storeVars, worker, engineVars, inbound>>
    BY <1>1, <1>9 DEF SelectStale
  <2>. HIDE DEF e
  <2>4. Witnessed(e.what, e.job)
    BY <2>2 DEF Witnessed
  <2>. QED
    BY <1>5, <2>1, <2>2, <2>3, <2>4
<1>10. CASE PollJob(p)
  <2>. DEFINE state == jobs[actor[p].job]
  <2>1. actor[p].step = "poll" /\ actor[p].job \in DOMAIN jobs /\ state \in JobState
        /\ Witnessed(state, actor[p].job)
    BY <1>1, <1>2, <1>10 DEF PollJob
  <2>2. UNCHANGED <<storeVars, worker, engineVars, inbound>> /\ budget' \in BudgetType
    BY <1>1, <1>10 DEF PollJob
  <2>3. CASE state = "queued"
    <3>1. actor' = [actor EXCEPT ![p] = IdleActor]
      BY <1>10, <2>3 DEF PollJob
    <3>. QED
      BY <1>3, <1>5, <2>2, <3>1
  <2>4. CASE state = "unknown"
    <3>. DEFINE e == [actor[p] EXCEPT !.step = "apply", !.what = "resubmit"]
    <3>1. actor' = [actor EXCEPT ![p] = e]
      BY <1>1, <1>10, <2>4 DEF PollJob
    <3>2. e \in ActorType /\ e.job = actor[p].job /\ e.what = "resubmit"
      BY <1>1, <1>4 DEF ActorType
    <3>. HIDE DEF e
    <3>3. Witnessed(e.what, e.job)
      BY <3>2 DEF Witnessed
    <3>. QED
      BY <1>5, <2>1, <2>2, <3>1, <3>2, <3>3
  <2>5. CASE state \notin {"queued", "unknown"}
    <3>. DEFINE s == NextStep(state)
                e == [actor[p] EXCEPT !.step = s, !.what = state]
    <3>1. actor' = [actor EXCEPT ![p] = e]
      BY <1>1, <1>10, <2>5 DEF PollJob
    <3>2. state \in Plan /\ s \in ActorStep
      BY <1>4, <2>1, <2>5 DEF JobState
    <3>. HIDE DEF s, state
    <3>3. e \in ActorType /\ e.job = actor[p].job /\ e.what = state
      BY <1>1, <3>2 DEF ActorType
    <3>. HIDE DEF e
    <3>. QED
      BY <1>5, <2>1, <2>2, <3>1, <3>3
  <2>. QED
    BY <2>3, <2>4, <2>5
<1>11. CASE ApplySettlement(p)
  <2>1. actor[p].job \in DOMAIN jobs /\ actor[p].job \in Nat /\ Witnessed(actor[p].what, actor[p].job)
        /\ apply_settlement(actor[p].job, actor[p].what)
    BY <1>1, <1>2, <1>11 DEF ApplySettlement
  <2>2. UNCHANGED <<worker, engineVars, budget>> /\ actor' = [actor EXCEPT ![p] = IdleActor]
        /\ UNCHANGED <<jobs, chain>>
    BY <1>11 DEF ApplySettlement, engineVars
  <2>3. row'.job \in {row.job, NULL} /\ VerdictIsTrue' /\ DriverIsSpared'
    BY <2>1, <2>2, AppliedPreserves
  <2>4. actor[p].what \in Report \cup {"resubmit"}
    BY <2>1 DEF apply_settlement, Failures, Report, Outcome
  <2>5. EventOf(p) \in Event
    <3>. DEFINE o == IF actor[p].what = "resubmit" THEN "dropped" ELSE actor[p].what
    <3>1. o \in Report /\ EventOf(p) = [job |-> actor[p].job, what |-> o]
      BY <2>4 DEF EventOf, Report, Outcome
    <3>. HIDE DEF o
    <3>. QED
      BY <2>1, <3>1 DEF Event
  <2>6. inbound' \subseteq Event
    BY <1>1, <1>11, <2>5 DEF ApplySettlement
  <2>. QED
    BY <1>0, <1>1, <1>2, <1>3, <2>2, <2>3, <2>6, ActorKeeps
<1>. QED
  BY <1>6, <1>7, <1>8, <1>9, <1>10, <1>11

LEMMA OtherPreserves ==
    ASSUME SettlementInv, Next,
           \/ \E r \in outbox : LockExpires(r) \/ OperatorRequeue(r)
           \/ \E e \in sent : DropUnknownEvent(e) \/ PruneInbound(e)
           \/ OperatorRetry
    PROVE  SettlementInv'
<1>0. /\ StoreInv' /\ event_seq \in Nat /\ event_seq' \in Nat /\ event_seq' >= event_seq
  BY StoreSteps, StoreGrows DEF SettlementInv
<1>1. TypeOK /\ budget \in BudgetType /\ inbound \subseteq Event /\ sent \subseteq Event
  BY DEF SettlementInv, TypeOK, BudgetType
<1>2. ASSUME UNCHANGED <<row, worker, actor, engineVars>>, outbox \ dead \subseteq outbox' \ dead',
             budget' \in BudgetType, inbound' \subseteq Event
      PROVE  SettlementInv'
  <2>1. chain' = chain
    BY <1>2 DEF engineVars
  <2>2. VerdictIsTrue'
    BY <1>2, <2>1, VerdictStays DEF SettlementInv
  <2>3. DriverIsSpared'
    BY <1>2, DriverStays DEF SettlementInv
  <2>. QED
    BY <1>0, <1>2, <2>2, <2>3, OtherKeeps
<1>3. ASSUME NEW r \in outbox, LockExpires(r) PROVE SettlementInv'
  BY <1>1, <1>2, <1>3, Spending DEF LockExpires, lock_expires
<1>4. ASSUME NEW r \in outbox, OperatorRequeue(r) PROVE SettlementInv'
  BY <1>1, <1>2, <1>4, Spending DEF OperatorRequeue, admin_requeue
<1>5. ASSUME NEW e \in sent, DropUnknownEvent(e) PROVE SettlementInv'
  BY <1>1, <1>2, <1>5, Spending DEF DropUnknownEvent, storeVars
<1>6. ASSUME NEW e \in sent, PruneInbound(e) PROVE SettlementInv'
  BY <1>1, <1>2, <1>6, Spending DEF PruneInbound, storeVars
<1>7. CASE OperatorRetry
  <2>1. UNCHANGED <<worker, actor, engineVars, inbound>> /\ budget' \in BudgetType /\ retry_settlement
        /\ chain' = chain
    BY <1>1, <1>7, Spending DEF OperatorRetry, engineVars
  <2>2. row'.job \in {row.job, NULL} /\ VerdictIsTrue' /\ DriverIsSpared'
    BY <2>1, OrderedPreserves
  <2>. QED
    BY <1>0, <1>1, <2>1, <2>2, OtherKeeps
<1>. QED
  BY <1>3, <1>4, <1>5, <1>6, <1>7

-----------------------------------------------------------------------------
\* The invariant of settlement holds whatever the processes, the engine and the
\* operator do.
THEOREM SettlementCorrect == Spec => []SettlementInv
<1>1. Init => SettlementInv
  <2>. SUFFICES ASSUME Init PROVE SettlementInv
    OBVIOUS
  <2>1. /\ row \in Deposit /\ row.status = "paid" /\ row.job = NULL /\ row.failure = "none"
    BY StoreAssumption DEF Init, NewDeposit, Deposit, Status, Open, FailureCode, NULL
  <2>2. /\ Len(timeline) = 3 /\ timeline[3] = "ready" /\ timeline \in Seq(EventType)
    BY DEF Init, EventType, AppFacing
  <2>3. /\ outbox \subseteq OutboxRow /\ dead = {} /\ locked = {}
        /\ \A r \in outbox : r.seq = 3 /\ r.kind \in {"submit_execute", "notify_app"}
    BY DEF Init, OutboxRow, OutboxJob, Kind
  <2>4. StoreInv
    <3>1. StoreTypeOK
      BY <2>1, <2>2, <2>3 DEF StoreTypeOK
    <3>2. StatusMatchesTimeline
      BY <2>1, <2>2 DEF StatusMatchesTimeline, Moves
    <3>3. RowsHaveCauses
      BY <2>2, <2>3 DEF RowsHaveCauses, Causes, AppFacing
    <3>. QED
      BY <3>1, <3>2, <3>3 DEF StoreInv
  <2>5. TypeOK
    BY <2>4 DEF Init, StoreInv, TypeOK, IdleWorker, WorkerStep, IdleActor, ActorStep, Plan, NULL
  <2>6. JobsAreKnown /\ ReportsAreTrue
    BY <2>1 DEF Init, JobsAreKnown, ReportsAreTrue, IdleWorker, IdleActor
  <2>7. VerdictIsTrue
    BY <2>1 DEF VerdictIsTrue
  <2>8. DriverIsSpared
    <3>1. OutboxJob("submit_execute", 3) \in outbox \ dead
          /\ OutboxJob("submit_execute", 3).kind = "submit_execute"
      BY DEF Init, OutboxJob
    <3>2. \A w \in Workers : worker[w].step = "idle"
      BY DEF Init, IdleWorker
    <3>. QED
      BY <3>1, <3>2 DEF DriverIsSpared, Spared
  <2>. QED
    BY <2>4, <2>5, <2>6, <2>7, <2>8 DEF SettlementInv
<1>2. SettlementInv /\ [Next]_vars => SettlementInv'
  <2>1. CASE SettlementInv /\ UNCHANGED vars
    <3>1. /\ UNCHANGED <<row, timeline, outbox, dead, worker, actor, jobs, sent, chain, inbound, budget>>
          /\ StoreInv' /\ event_seq' = event_seq
      BY <2>1, StoreGrows DEF vars, engineVars, storeVars, SettlementInv, event_seq
    <3>. QED
      BY <2>1, <3>1 DEF SettlementInv, TypeOK, StoreInv, JobsAreKnown, ReportsAreTrue, Witnessed,
             VerdictIsTrue, DriverIsSpared, Spared
  <2>2. CASE SettlementInv /\ Next
    BY <2>2, WorkerPreserves, EnginePreserves, ActorPreserves, OtherPreserves DEF Next, Actors
  <2>. QED
    BY <2>1, <2>2
<1>. QED
  BY <1>1, <1>2, PTL DEF Spec

\* No paid deposit is stranded without a live outbox row (submit_execute,
\* execute_job, resubmit, retry_settlement).
THEOREM PaidIsDriven == Spec => []PaidHasDriver
<1>1. SettlementInv => PaidHasDriver
  BY DEF SettlementInv, DriverIsSpared, Spared, PaidHasDriver
<1>. QED
  BY <1>1, SettlementCorrect, PTL

\* The verdict is what happened on chain (from_receipt, apply_settled,
\* apply_failed).
THEOREM VerdictCorrect == Spec => []VerdictIsTrue
<1>1. SettlementInv => VerdictIsTrue
  BY DEF SettlementInv
<1>. QED
  BY <1>1, SettlementCorrect, PTL

\* Whatever the workers, the handlers, the reconciler and the operator do
\* together, the deposit moves along the lifecycle's edges.
THEOREM SettlementFollowsLifecycle ==
    Spec => [][Lifecycle!Next]_(Lifecycle!lifecycleVars)
<1>1. SettlementInv /\ [Next]_vars => [Lifecycle!Next]_(Lifecycle!lifecycleVars)
  <2>1. SettlementInv /\ [Next]_vars => StoreInv /\ (StoreNext \/ UNCHANGED storeVars)
    BY StoreSteps DEF SettlementInv, vars
  <2>2. UNCHANGED storeVars => UNCHANGED Lifecycle!lifecycleVars
    BY DEF storeVars, Lifecycle!lifecycleVars, Asking
  <2>3. OutboxStep => UNCHANGED Lifecycle!lifecycleVars
    BY DEF OutboxStep, claim, delete_row, retry_later, mark_dead, admin_requeue, lock_expires,
           Lifecycle!lifecycleVars, Asking
  <2>. QED
    BY <2>1, <2>2, <2>3, DetectionRefines, SettlementRefines DEF StoreNext
<1>. QED
  BY <1>1, SettlementCorrect, PTL DEF Spec

-----------------------------------------------------------------------------
(* A retry is a new job                                                    *)

BudgetKind == {"worker", "actor", "engine", "operator", "requeue"}

Busy(w) == worker[w].step # "idle"

\* As long as nothing has gone wrong with a worker and the operator has not
\* requeued a row:
Calm == budget.worker = MaxWorkerFaults /\ budget.requeue = MaxRequeues

\* a row is locked exactly while one worker holds it, and a row that can still
\* be claimed, or whose worker has not submitted it yet, has an unused key.
\* RetryIsNewJob says the last only of workers that have submitted.
KeysAreFresh ==
    /\ \A w \in Workers : ~worker[w].replayed /\ worker[w].step # "retry"
    /\ \A w \in Workers : Busy(w) => RowOf(w) \in locked
    /\ \A v, w \in Workers : Busy(v) /\ Busy(w) /\ worker[v].seq = worker[w].seq => v = w
    /\ \A r \in locked : r.kind = "submit_execute" => Held(r)
    /\ \A r \in outbox \ (dead \cup locked) :
          r.kind = "submit_execute" => r.seq \notin DOMAIN jobs
    /\ \A w \in Workers :
          worker[w].step \in {"load", "submit"} => worker[w].seq \notin DOMAIN jobs

KeyInv ==
    /\ budget.worker <= MaxWorkerFaults /\ budget.requeue <= MaxRequeues
    /\ Calm => KeysAreFresh

\* A budget is only ever spent.
LEMMA BudgetShrinks ==
    ASSUME Next
    PROVE  UNCHANGED budget \/ \E kind \in BudgetKind : Spend(kind)
<1>0. \A kind \in {"worker", "actor", "engine", "operator", "requeue"} : kind \in BudgetKind
  BY DEF BudgetKind
<1>1. ASSUME NEW w \in Workers, WorkerNext(w)
      PROVE  UNCHANGED budget \/ \E kind \in BudgetKind : Spend(kind)
  BY <1>0, <1>1, Zenon DEF WorkerNext, ClaimJob, LoadDeposit, SubmitAccepted, SubmitAnswerLost,
     SubmitRejected, MarkSubmitted, RecordRejection, FinishJob, AbandonJob, WorkerCrash
<1>2. ASSUME NEW r \in outbox, LockExpires(r) \/ OperatorRequeue(r)
      PROVE  UNCHANGED budget \/ \E kind \in BudgetKind : Spend(kind)
  BY <1>0, <1>2, Zenon DEF LockExpires, OperatorRequeue
<1>3. ASSUME NEW k \in DOMAIN jobs, EngineNext(k)
      PROVE  UNCHANGED budget \/ \E kind \in BudgetKind : Spend(kind)
  BY <1>0, <1>3, Zenon DEF EngineNext, EngineInclude, EngineConfirm, EngineAlreadyDeployed, EngineFail,
         EngineForget
<1>4. ASSUME NEW a \in Actors, CountRetries(a) \/ ApplySettlement(a) \/ ActorAborts(a)
      PROVE  UNCHANGED budget \/ \E kind \in BudgetKind : Spend(kind)
  BY <1>0, <1>4, Zenon DEF CountRetries, ApplySettlement, ActorAborts
<1>5. CASE OperatorRetry
  BY <1>0, <1>5, Zenon DEF OperatorRetry
<1>6. CASE \/ \E h \in Handlers, e \in sent : ReceiveEvent(h, e)
           \/ \E e \in sent : DropUnknownEvent(e) \/ PruneInbound(e)
           \/ \E p \in Reconcilers : SelectStale(p) \/ PollJob(p)
  BY <1>0, <1>6, Zenon DEF ReceiveEvent, DropUnknownEvent, PruneInbound, SelectStale, PollJob
<1>. QED
  BY <1>1, <1>2, <1>3, <1>4, <1>5, <1>6, Zenon DEF Next

\* A step after which things are still calm found them calm, and spent nothing
\* on a worker or on a requeue.
LEMMA CalmSteps ==
    ASSUME TypeOK, budget.worker <= MaxWorkerFaults, budget.requeue <= MaxRequeues, Next
    PROVE  /\ budget'.worker <= MaxWorkerFaults /\ budget'.requeue <= MaxRequeues
           /\ Calm' => Calm /\ ~Spend("worker") /\ ~Spend("requeue")
<1>0. MaxWorkerFaults \in Nat /\ MaxRequeues \in Nat
  OBVIOUS
<1>1. budget \in BudgetType /\ budget.worker \in Nat /\ budget.requeue \in Nat
  BY DEF TypeOK, BudgetType, BudgetKind
<1>2. /\ Spend("worker") => budget'.worker = budget.worker - 1
      /\ Spend("requeue") => budget'.requeue = budget.requeue - 1
  BY <1>1 DEF Spend, BudgetKind, BudgetType
<1>3. CASE UNCHANGED budget
  BY <1>0, <1>1, <1>2, <1>3 DEF Calm
<1>4. ASSUME NEW kind \in BudgetKind, Spend(kind)
      PROVE  /\ budget'.worker <= MaxWorkerFaults /\ budget'.requeue <= MaxRequeues
             /\ Calm' => Calm /\ ~Spend("worker") /\ ~Spend("requeue")
  <2>1. budget'.worker \in {budget.worker, budget.worker - 1}
        /\ budget'.requeue \in {budget.requeue, budget.requeue - 1}
    BY <1>1, <1>4 DEF Spend, BudgetKind, BudgetType
  <2>. QED
    BY <1>0, <1>1, <1>2, <2>1 DEF Calm
<1>. QED
  BY <1>3, <1>4, BudgetShrinks

\* The rows a step adds are keyed by its own event, which no job is.
LEMMA AddedRows ==
    ASSUME SettlementInv, RecordsOrSkips
    PROVE  /\ UNCHANGED <<dead, locked>> /\ outbox \subseteq outbox'
           /\ \A r \in outbox' \ outbox : r.seq \notin 1..event_seq
<1>1. event_seq \in Nat
  BY DEF SettlementInv, StoreInv, StoreTypeOK, event_seq
<1>. QED
  BY <1>1 DEF RecordsOrSkips, Records

\* Steps that leave every worker with the row it holds, if any, and add keys to
\* the engine only for rows that are locked.
LEMMA KeysStay ==
    ASSUME KeysAreFresh, StoreTypeOK, UNCHANGED <<dead, locked>>, outbox \subseteq outbox',
           \A r \in outbox' \ outbox : r.seq \notin DOMAIN jobs',
           \A r \in outbox \ locked :
               r.kind = "submit_execute" /\ r.seq \in DOMAIN jobs' => r.seq \in DOMAIN jobs,
           \A w \in Workers :
               /\ worker'[w].seq = worker[w].seq /\ Busy(w)' = Busy(w)
               /\ ~worker'[w].replayed /\ worker'[w].step # "retry"
               /\ worker'[w].step \in {"load", "submit"} => worker[w].seq \notin DOMAIN jobs'
    PROVE  KeysAreFresh'
<1>1. \A w \in Workers : RowOf(w)' = RowOf(w) /\ (Busy(w)' <=> Busy(w))
  BY DEF RowOf
<1>2. \A w \in Workers : Busy(w)' => RowOf(w)' \in locked'
  BY <1>1 DEF KeysAreFresh
<1>3. \A v, w \in Workers : Busy(v)' /\ Busy(w)' /\ worker'[v].seq = worker'[w].seq => v = w
  BY <1>1 DEF KeysAreFresh
<1>4. \A r \in locked' : r.kind = "submit_execute" => Held(r)'
  BY <1>1 DEF KeysAreFresh, Held, Busy
<1>5. \A r \in outbox' \ (dead' \cup locked') :
          r.kind = "submit_execute" => r.seq \notin DOMAIN jobs'
  BY DEF KeysAreFresh
<1>6. \A w \in Workers :
          worker'[w].step \in {"load", "submit"} => worker'[w].seq \notin DOMAIN jobs'
  OBVIOUS
<1>. QED
  BY <1>2, <1>3, <1>4, <1>5, <1>6 DEF KeysAreFresh

\* A worker on its way with its row.
LEMMA WorkerKeys ==
    ASSUME SettlementInv, KeysAreFresh, NEW p \in Workers, WorkerNext(p),
           ~Spend("worker"), ~Spend("requeue")
    PROVE  KeysAreFresh'
<1>0. Next
  BY DEF Next
<1>1. /\ worker \in [Workers -> WorkerType] /\ worker[p] \in WorkerType /\ StoreTypeOK
      /\ outbox \subseteq OutboxRow /\ dead \subseteq outbox /\ locked \subseteq outbox
      /\ IdleWorker \in WorkerType /\ IdleWorker.step = "idle" /\ ~IdleWorker.replayed
  BY DEF SettlementInv, StoreInv, StoreTypeOK, TypeOK, WorkerType, WorkerStep, IdleWorker
<1>2. DOMAIN jobs \subseteq 1..event_seq /\ (Busy(p) => worker[p].seq \in 1..event_seq)
  BY DEF SettlementInv, JobsAreKnown, Busy
\* A row of the kind is the one its key names.
<1>3. \A r \in outbox : r.kind = "submit_execute" => r = OutboxJob("submit_execute", r.seq)
  BY <1>1 DEF OutboxRow, OutboxJob
\* Where the worker keeps its row.
<1>4. ASSUME NEW e \in WorkerType, worker' = [worker EXCEPT ![p] = e],
             e.seq = worker[p].seq, Busy(p), e.step # "idle", e.step # "retry", ~e.replayed,
             RecordsOrSkips,
             \/ DOMAIN jobs' = DOMAIN jobs
             \/ DOMAIN jobs' = DOMAIN jobs \cup {e.seq},
             e.step \in {"load", "submit"} =>
                 worker[p].step \in {"load", "submit"} /\ DOMAIN jobs' = DOMAIN jobs
      PROVE  KeysAreFresh'
  <2>1. /\ UNCHANGED <<dead, locked>> /\ outbox \subseteq outbox'
        /\ \A r \in outbox' \ outbox : r.seq \notin DOMAIN jobs'
    BY <1>2, <1>4, AddedRows
  <2>2. \A r \in outbox \ locked :
            r.kind = "submit_execute" /\ r.seq \in DOMAIN jobs' => r.seq \in DOMAIN jobs
    <3>1. RowOf(p) \in locked
      BY <1>4 DEF KeysAreFresh
    <3>. QED
      BY <1>3, <1>4, <3>1 DEF RowOf
  <2>3. ASSUME NEW w \in Workers
        PROVE  /\ worker'[w].seq = worker[w].seq /\ Busy(w)' = Busy(w)
               /\ ~worker'[w].replayed /\ worker'[w].step # "retry"
               /\ worker'[w].step \in {"load", "submit"} => worker[w].seq \notin DOMAIN jobs'
    <3>1. CASE w = p
      BY <1>1, <1>4, <3>1 DEF Busy, KeysAreFresh
    <3>2. CASE w # p
      <4>1. worker'[w] = worker[w]
        BY <1>1, <1>4, <3>2
      <4>2. worker[w].step \in {"load", "submit"} => Busy(w) /\ worker[w].seq # e.seq
        BY <1>4, <3>2 DEF Busy, KeysAreFresh
      <4>. QED
        BY <1>4, <4>1, <4>2 DEF Busy, KeysAreFresh
    <3>. QED
      BY <3>1, <3>2
  <2>. QED
    BY <1>1, <2>1, <2>2, <2>3, KeysStay
<1>5. UNCHANGED storeVars => RecordsOrSkips
  BY DEF storeVars, RecordsOrSkips
\* Where it only goes on to another step.
<1>6. ASSUME NEW s \in {"submit", "done", "reject", "dead"}, Goto(p, s), Busy(p), RecordsOrSkips,
             jobs' = jobs, s = "submit" => worker[p].step = "load"
      PROVE  KeysAreFresh'
  <2>. DEFINE e == [worker[p] EXCEPT !.step = s]
  <2>1. /\ e \in WorkerType /\ e.step = s /\ e.seq = worker[p].seq
        /\ e.replayed = worker[p].replayed
    BY <1>1, <1>6 DEF WorkerType, WorkerStep
  <2>2. worker' = [worker EXCEPT ![p] = e] /\ ~worker[p].replayed
    BY <1>6 DEF Goto, KeysAreFresh
  <2>. HIDE DEF e
  <2>. QED
    BY <1>4, <1>6, <2>1, <2>2
<1>7. CASE ClaimJob(p)
  <2>1. PICK r \in outbox :
            /\ r.kind = "submit_execute" /\ claim(r)
            /\ worker' = [worker EXCEPT ![p] = [step |-> "load", seq |-> r.seq, replayed |-> FALSE]]
    BY <1>7 DEF ClaimJob
  <2>2. /\ r \notin locked /\ r \notin dead /\ locked' = locked \cup {r} /\ outbox' = outbox
        /\ dead' = dead /\ jobs' = jobs /\ ~Busy(p)
    BY <1>7, <2>1 DEF claim, Claimable, ClaimJob, engineVars, Busy
  <2>. DEFINE e == [step |-> "load", seq |-> r.seq, replayed |-> FALSE]
  <2>3. e.step = "load" /\ e.seq = r.seq /\ ~e.replayed /\ worker' = [worker EXCEPT ![p] = e]
    BY <2>1
  <2>. HIDE DEF e
  <2>4. worker'[p] = e /\ \A w \in Workers : w # p => worker'[w] = worker[w]
    BY <1>1, <2>3
  <2>5. RowOf(p)' = r /\ Busy(p)' /\ r.seq \notin DOMAIN jobs
    BY <1>3, <2>1, <2>2, <2>3, <2>4 DEF RowOf, Busy, KeysAreFresh
  <2>6. ASSUME NEW w \in Workers, w # p
        PROVE  /\ RowOf(w)' = RowOf(w) /\ (Busy(w)' <=> Busy(w))
               /\ Busy(w) => RowOf(w) \in locked /\ worker[w].seq # r.seq
    BY <1>3, <2>1, <2>2, <2>4, <2>6 DEF RowOf, Busy, KeysAreFresh
  <2>7. \A w \in Workers : ~worker'[w].replayed /\ worker'[w].step # "retry"
    BY <2>3, <2>4 DEF KeysAreFresh
  <2>8. \A w \in Workers : Busy(w)' => RowOf(w)' \in locked'
    BY <2>2, <2>5, <2>6
  <2>9. \A v, w \in Workers : Busy(v)' /\ Busy(w)' /\ worker'[v].seq = worker'[w].seq => v = w
    BY <2>3, <2>4, <2>6 DEF KeysAreFresh
  <2>10. \A q \in locked' : q.kind = "submit_execute" => Held(q)'
    BY <2>2, <2>4, <2>5, <2>6 DEF KeysAreFresh, Held, Busy
  <2>11. \A q \in outbox' \ (dead' \cup locked') :
            q.kind = "submit_execute" => q.seq \notin DOMAIN jobs'
    BY <2>2 DEF KeysAreFresh
  <2>12. \A w \in Workers :
            worker'[w].step \in {"load", "submit"} => worker'[w].seq \notin DOMAIN jobs'
    BY <2>2, <2>3, <2>4, <2>5 DEF KeysAreFresh
  <2>. QED
    BY <2>7, <2>8, <2>9, <2>10, <2>11, <2>12 DEF KeysAreFresh
<1>8. CASE LoadDeposit(p)
  BY <1>5, <1>6, <1>8 DEF LoadDeposit, Busy, engineVars
<1>9. CASE SubmitAccepted(p)
  <2>. DEFINE k == worker[p].seq
              known == k \in DOMAIN jobs
              e == [worker[p] EXCEPT !.step = "mark", !.replayed = known]
  <2>1. /\ worker[p].step = "submit" /\ Busy(p) /\ worker' = [worker EXCEPT ![p] = e]
        /\ UNCHANGED storeVars /\ DOMAIN jobs' = DOMAIN jobs \cup {k}
    BY <1>9 DEF SubmitAccepted, AcceptJob, Busy
  <2>2. known = FALSE
    <3>1. ~ (k \in DOMAIN jobs)
      BY <2>1 DEF KeysAreFresh
    <3>. QED
      BY <3>1
  <2>. HIDE DEF known
  <2>3. e \in WorkerType /\ e.step = "mark" /\ e.seq = k /\ ~e.replayed
    BY <1>1, <2>2 DEF WorkerType, WorkerStep
  <2>. HIDE DEF e
  <2>. QED
    BY <1>4, <1>5, <2>1, <2>3
<1>10. CASE SubmitRejected(p)
  BY <1>5, <1>6, <1>10 DEF SubmitRejected, Busy, engineVars
<1>11. CASE MarkSubmitted(p)
  <2>1. SettlementStep
    BY <1>1, <1>2, <1>11, Zenon DEF MarkSubmitted, SettlementStep, Busy, WorkerType
  <2>. QED
    BY <1>6, <1>11, <2>1, StepRecords DEF MarkSubmitted, Busy, engineVars
<1>12. CASE RecordRejection(p)
  <2>1. RecordsOrSkips
    <3>1. "failed" \in EventType /\ {} \in SUBSET {"register_watch", "submit_execute"}
      BY DEF EventType, AppFacing
    <3>. QED
      BY <1>12, <3>1, TransitionRecords, Zenon DEF RecordRejection, apply_failed
  <2>. QED
    BY <1>6, <1>12, <2>1 DEF RecordRejection, Busy, engineVars
\* The worker lets its row go, deleted or dead.
<1>13. CASE FinishJob(p)
  <2>. DEFINE r == RowOf(p)
  <2>1. /\ worker' = [worker EXCEPT ![p] = IdleWorker] /\ jobs' = jobs
        /\ delete_row(r) \/ mark_dead(r)
        /\ Busy(p) /\ r \in locked
    BY <1>13 DEF FinishJob, Busy, KeysAreFresh, engineVars
  <2>2. /\ locked' = locked \ {r} /\ outbox' \subseteq outbox
        /\ \A q \in outbox' \ dead' : q # r /\ q \notin dead
    BY <1>1, <2>1 DEF delete_row, mark_dead
  <2>3. worker'[p] = IdleWorker /\ \A w \in Workers : w # p => worker'[w] = worker[w]
    BY <1>1, <2>1
  <2>4. ~Busy(p)'
    BY <1>1, <2>3 DEF Busy
  <2>5. ASSUME NEW w \in Workers, w # p
        PROVE  /\ RowOf(w)' = RowOf(w) /\ (Busy(w)' <=> Busy(w))
               /\ Busy(w) => RowOf(w) \in locked /\ RowOf(w) # r
    BY <2>1, <2>3, <2>5 DEF RowOf, OutboxJob, Busy, KeysAreFresh
  <2>6. \A w \in Workers : ~worker'[w].replayed /\ worker'[w].step # "retry"
    BY <1>1, <2>3 DEF KeysAreFresh
  <2>7. \A w \in Workers : Busy(w)' => RowOf(w)' \in locked'
    BY <2>2, <2>4, <2>5
  <2>8. \A v, w \in Workers : Busy(v)' /\ Busy(w)' /\ worker'[v].seq = worker'[w].seq => v = w
    BY <2>3, <2>4, <2>5 DEF KeysAreFresh
  <2>9. ASSUME NEW q \in locked', q.kind = "submit_execute" PROVE Held(q)'
    <3>1. PICK w \in Workers : Busy(w) /\ RowOf(w) = q
      BY <2>2, <2>9 DEF KeysAreFresh, Held, Busy
    <3>2. w # p /\ Busy(w)' /\ RowOf(w)' = q
      BY <2>2, <2>5, <3>1
    <3>. QED
      BY <3>2 DEF Held, Busy
  <2>10. \A q \in outbox' \ (dead' \cup locked') :
            q.kind = "submit_execute" => q.seq \notin DOMAIN jobs'
    BY <2>1, <2>2 DEF KeysAreFresh
  <2>11. \A w \in Workers :
            worker'[w].step \in {"load", "submit"} => worker'[w].seq \notin DOMAIN jobs'
    BY <1>1, <2>1, <2>3 DEF KeysAreFresh
  <2>. QED
    BY <2>6, <2>7, <2>8, <2>9, <2>10, <2>11 DEF KeysAreFresh
<1>. QED
  BY <1>7, <1>8, <1>9, <1>10, <1>11, <1>12, <1>13
     DEF WorkerNext, SubmitAnswerLost, AbandonJob, WorkerCrash

LEMMA KeysPreserved ==
    ASSUME SettlementInv, KeysAreFresh, Next, ~Spend("worker"), ~Spend("requeue")
    PROVE  KeysAreFresh'
<1>1. /\ StoreTypeOK /\ locked \subseteq outbox /\ DOMAIN jobs \subseteq 1..event_seq
  BY DEF SettlementInv, StoreInv, StoreTypeOK, JobsAreKnown
\* The deposit and the engine may move on, the workers and the keys do not.
<1>2. ASSUME RecordsOrSkips, worker' = worker, DOMAIN jobs' = DOMAIN jobs
      PROVE  KeysAreFresh'
  <2>1. \A w \in Workers :
            /\ worker'[w].seq = worker[w].seq /\ Busy(w)' = Busy(w)
            /\ ~worker'[w].replayed /\ worker'[w].step # "retry"
            /\ worker'[w].step \in {"load", "submit"} => worker[w].seq \notin DOMAIN jobs'
    BY <1>2 DEF Busy, KeysAreFresh
  <2>. QED
    BY <1>1, <1>2, <2>1, AddedRows, KeysStay
<1>3. UNCHANGED storeVars => RecordsOrSkips
  BY DEF storeVars, RecordsOrSkips
<1>4. ASSUME NEW r \in outbox, LockExpires(r)
      PROVE  KeysAreFresh'
  <2>1. /\ ~Held(r) /\ r \in locked /\ locked' = locked \ {r} /\ UNCHANGED <<outbox, dead>>
        /\ UNCHANGED <<worker, jobs>>
    BY <1>4 DEF LockExpires, lock_expires, engineVars
  <2>2. r.kind # "submit_execute"
    BY <2>1 DEF KeysAreFresh
  <2>3. \A w \in Workers : RowOf(w)' = RowOf(w) /\ RowOf(w) # r /\ (Busy(w)' <=> Busy(w))
    BY <2>1, <2>2 DEF RowOf, OutboxJob, Busy
  <2>4. \A w \in Workers : Busy(w)' => RowOf(w)' \in locked'
    BY <2>1, <2>3 DEF KeysAreFresh
  <2>5. \A q \in locked' : q.kind = "submit_execute" => Held(q)'
    BY <2>1, <2>3 DEF KeysAreFresh, Held
  <2>6. \A q \in outbox' \ (dead' \cup locked') :
            q.kind = "submit_execute" => q.seq \notin DOMAIN jobs'
    BY <2>1, <2>2 DEF KeysAreFresh
  <2>. QED
    BY <2>1, <2>3, <2>4, <2>5, <2>6 DEF KeysAreFresh
<1>5. ASSUME NEW k \in DOMAIN jobs, EngineNext(k)
      PROVE  KeysAreFresh'
  <2>1. UNCHANGED storeVars /\ worker' = worker /\ DOMAIN jobs' = DOMAIN jobs
    BY <1>5 DEF EngineNext, EngineInclude, EngineConfirm, EngineAlreadyDeployed, EngineFail,
         EngineForget, EndJob
  <2>. QED
    BY <1>2, <1>3, <2>1
<1>6. ASSUME NEW a \in Actors, CountRetries(a) \/ ApplySettlement(a) \/ ActorAborts(a)
      PROVE  KeysAreFresh'
  <2>1. CASE ApplySettlement(a)
    <3>1. /\ actor[a].job \in 1..event_seq /\ apply_settlement(actor[a].job, actor[a].what)
          /\ worker' = worker /\ jobs' = jobs
      BY <2>1 DEF ApplySettlement, SettlementInv, JobsAreKnown, engineVars
    <3>. QED
      BY <1>2, <3>1, AppliesStore, StepRecords
  <2>2. CASE CountRetries(a) \/ ActorAborts(a)
    BY <1>2, <1>3, <2>2 DEF CountRetries, ActorAborts, engineVars
  <2>. QED
    BY <1>6, <2>1, <2>2
<1>7. CASE OperatorRetry
  <2>1. SettlementStep /\ worker' = worker /\ jobs' = jobs
    BY <1>7 DEF OperatorRetry, SettlementStep, engineVars
  <2>. QED
    BY <1>2, <2>1, StepRecords
<1>8. CASE \/ \E h \in Handlers, e \in sent : ReceiveEvent(h, e)
           \/ \E e \in sent : DropUnknownEvent(e) \/ PruneInbound(e)
           \/ \E p \in Reconcilers : SelectStale(p) \/ PollJob(p)
  <2>1. UNCHANGED storeVars /\ worker' = worker /\ jobs' = jobs
    BY <1>8, Zenon DEF ReceiveEvent, DropUnknownEvent, PruneInbound, SelectStale, PollJob, engineVars
  <2>. QED
    BY <1>2, <1>3, <2>1
<1>. QED
  BY <1>4, <1>5, <1>6, <1>7, <1>8, WorkerKeys DEF Next, OperatorRequeue

\* Without worker faults and requeues, whatever else happens and however often
\* the deposit is retried, no submission replays a job the engine knows
\* (enqueue_execute, resubmit, retry_settlement, submit_execute).
THEOREM RetriesAreNew == Spec => []RetryIsNewJob
<1>1. Init => KeyInv
  <2>. SUFFICES ASSUME Init PROVE KeyInv
    OBVIOUS
  <2>1. /\ budget.worker = MaxWorkerFaults /\ budget.requeue = MaxRequeues
        /\ MaxWorkerFaults \in Nat /\ MaxRequeues \in Nat
    BY DEF Init
  <2>2. /\ locked = {} /\ DOMAIN jobs = {}
        /\ \A w \in Workers : worker[w].step = "idle" /\ ~worker[w].replayed
    BY DEF Init, IdleWorker
  <2>. QED
    BY <2>1, <2>2 DEF KeyInv, KeysAreFresh, Busy
<1>2. SettlementInv /\ KeyInv /\ [Next]_vars => KeyInv'
  <2>1. CASE SettlementInv /\ KeyInv /\ UNCHANGED vars
    BY <2>1 DEF vars, engineVars, storeVars, KeyInv, Calm, KeysAreFresh, Busy, RowOf, Held
  <2>2. CASE SettlementInv /\ KeyInv /\ Next
    BY <2>2, CalmSteps, KeysPreserved DEF KeyInv, SettlementInv
  <2>. QED
    BY <2>1, <2>2
<1>3. KeyInv => RetryIsNewJob
  BY DEF KeyInv, Calm, KeysAreFresh, RetryIsNewJob
<1>. QED
  BY <1>1, <1>2, <1>3, SettlementCorrect, PTL DEF Spec
=============================================================================
