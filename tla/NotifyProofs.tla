---------------------------- MODULE NotifyProofs ----------------------------
(***************************************************************************)
(* The app's webhooks for any number of workers, events, refusals, faults, *)
(* given-up rows and requeues: an app that dedupes sees the events in the  *)
(* order they were recorded, and when nothing is left to send it knows the *)
(* deposit's verdict.                                                      *)
(***************************************************************************)
EXTENDS Notify, DepositStoreProofs

WorkerType == [step: {"idle", "post", "done", "retry"}, seq: Nat]
BudgetType == [{"worker", "app", "age", "operator"} -> Nat]

\* An event the app is to be told of.
ForApp(q) == q \in 1..event_seq /\ timeline[q] \in AppFacing

DeliveredBy(n, q) == \E k \in 1..n : delivered[k] = q
Reached(q) == q \in gaveup \/ DeliveredBy(Len(delivered), q)

\* Nothing of the app's before s is still to come.
InTurn(s) ==
    /\ AppWebhook /\ ForApp(s)
    /\ \A q \in 1..(s - 1) : ForApp(q) => Reached(q)

RowsNeedWebhook == \A r \in outbox : r.kind = "notify_app" => AppWebhook

\* A row leaves the table only after its event was delivered or given up on.
AwaitedOrReached ==
    AppWebhook => \A q \in 1..event_seq :
        ForApp(q) => Reached(q) \/ OutboxJob("notify_app", q) \in outbox \ dead

DeadIsGivenUp == \A r \in dead : r.kind = "notify_app" => r.seq \in gaveup

\* InOrder is about what has arrived.  What makes it inductive is that a request
\* on its way, in a worker's hands or abandoned by it, was claimed in its turn.
HeldInTurn == \A w \in Workers : worker[w].step # "idle" => InTurn(worker[w].seq)
LateInTurn == \A s \in late : InTurn(s)
DoneIsReached == \A w \in Workers : worker[w].step = "done" => Reached(worker[w].seq)

DeliveredInTurn ==
    \A i \in 1..Len(delivered) :
        /\ AppWebhook /\ ForApp(delivered[i])
        /\ \A q \in 1..(delivered[i] - 1) :
              ForApp(q) => q \in gaveup \/ DeliveredBy(i - 1, q)

\* What was delivered was fresh once.
EachIsSeen == \A i \in 1..Len(delivered) : \E k \in Seen : delivered[k] = delivered[i]

NotifyInv ==
    /\ StoreInv /\ TypeOK
    /\ RowsNeedWebhook /\ AwaitedOrReached /\ DeadIsGivenUp
    /\ HeldInTurn /\ LateInTurn /\ DoneIsReached
    /\ DeliveredInTurn /\ EachIsSeen

USE NotifyAssumption

-----------------------------------------------------------------------------
(* Time only adds                                                          *)

\* Every step: events are only added, to the timeline and to what the app has
\* received, and a row given up on stays so in the history.
Extends ==
    /\ event_seq' >= event_seq
    /\ \A q \in 1..event_seq : timeline'[q] = timeline[q]
    /\ gaveup \subseteq gaveup'
    /\ Len(delivered') >= Len(delivered)
    /\ \A i \in 1..Len(delivered) : delivered'[i] = delivered[i]

Counts ==
    /\ event_seq \in Nat /\ event_seq' \in Nat
    /\ Len(delivered) \in Nat /\ Len(delivered') \in Nat

LEMMA ReachedStays ==
    ASSUME Extends, Counts, NEW q, Reached(q)
    PROVE  Reached(q)'
<1>1. CASE q \in gaveup
  BY <1>1 DEF Reached, Extends
<1>2. CASE DeliveredBy(Len(delivered), q)
  <2>1. PICK k \in 1..Len(delivered) : delivered[k] = q
    BY <1>2 DEF DeliveredBy
  <2>2. k \in 1..Len(delivered') /\ delivered'[k] = q
    BY <2>1 DEF Extends, Counts
  <2>. QED
    BY <2>2 DEF Reached, DeliveredBy
<1>. QED
  BY <1>1, <1>2 DEF Reached

LEMMA ForAppStays ==
    ASSUME Extends, Counts, NEW q \in 1..event_seq
    PROVE  ForApp(q)' <=> ForApp(q)
BY DEF Extends, Counts, ForApp

LEMMA InTurnStays ==
    ASSUME Extends, Counts, NEW s, InTurn(s)
    PROVE  InTurn(s)'
<1>1. s \in 1..event_seq /\ ForApp(s) /\ ForApp(s)'
  BY ForAppStays DEF InTurn, ForApp
<1>2. ASSUME NEW q \in 1..(s - 1), ForApp(q)' PROVE Reached(q)'
  <2>1. q \in 1..event_seq
    BY <1>1 DEF Counts
  <2>. QED
    BY <1>2, <2>1, ForAppStays, ReachedStays DEF InTurn
<1>. QED
  BY <1>1, <1>2 DEF InTurn

LEMMA SeqElements ==
    ASSUME NEW S, NEW T, NEW s \in Seq(S)
    PROVE  /\ \A i \in 1..Len(s) : s[i] \in S
           /\ (\A i \in 1..Len(s) : s[i] \in T) => s \in Seq(T)
OBVIOUS

\* One worker goes on.
LEMMA WorkerKeeps ==
    ASSUME NotifyInv, Extends, Counts, NEW p \in Workers, NEW e \in WorkerType,
           worker' = [worker EXCEPT ![p] = e],
           e.step # "idle" => InTurn(e.seq), e.step = "done" => Reached(e.seq)'
    PROVE  worker' \in [Workers -> WorkerType] /\ HeldInTurn' /\ DoneIsReached'
<1>1. worker \in [Workers -> WorkerType]
  BY DEF NotifyInv, TypeOK, WorkerType
<1>2. ASSUME NEW w \in Workers
      PROVE  /\ worker'[w].step # "idle" => InTurn(worker[w].seq)'
             /\ worker'[w].step = "done" => Reached(worker[w].seq)'
  <2>. DEFINE s == worker'[w].seq
  <2>1. PICK x : x = s
    OBVIOUS
  <2>2. worker'[w].step # "idle" => InTurn(x)
    BY <1>1, <2>1 DEF NotifyInv, HeldInTurn
  <2>3. worker'[w].step # "idle" => InTurn(x)'
    BY <2>2, InTurnStays
  <2>4. worker'[w].step = "done" => Reached(x)'
    <3>1. CASE w = p
      BY <1>1, <2>1, <3>1
    <3>2. CASE w # p
      BY <1>1, <2>1, <3>2, ReachedStays DEF NotifyInv, DoneIsReached
    <3>. QED
      BY <3>1, <3>2
  <2>. QED
    BY <2>1, <2>3, <2>4
<1>. QED
  BY <1>1, <1>2 DEF HeldInTurn, DoneIsReached

\* Nobody goes on.
LEMMA WorkersKeep ==
    ASSUME NotifyInv, Extends, Counts, worker' = worker
    PROVE  worker' \in [Workers -> WorkerType] /\ HeldInTurn' /\ DoneIsReached'
<1>1. worker' \in [Workers -> WorkerType]
  BY DEF NotifyInv, TypeOK, WorkerType
<1>2. ASSUME NEW w \in Workers
      PROVE  /\ worker'[w].step # "idle" => InTurn(worker[w].seq)'
             /\ worker'[w].step = "done" => Reached(worker[w].seq)'
  <2>1. PICK x : x = worker[w].seq
    OBVIOUS
  <2>2. /\ worker[w].step # "idle" => InTurn(x)'
        /\ worker[w].step = "done" => Reached(x)'
    BY <2>1, InTurnStays, ReachedStays DEF NotifyInv, HeldInTurn, DoneIsReached
  <2>. QED
    BY <2>1, <2>2
<1>. QED
  BY <1>1, <1>2 DEF HeldInTurn, DoneIsReached

LEMMA LateKeeps ==
    ASSUME NotifyInv, Extends, Counts, \A s \in late' : InTurn(s)
    PROVE  late' \subseteq 1..event_seq' /\ LateInTurn'
<1>1. ASSUME NEW s \in late' PROVE s \in 1..event_seq' /\ InTurn(s)'
  BY InTurnStays DEF InTurn, ForApp
<1>. QED
  BY <1>1 DEF LateInTurn

\* Nothing arrives at the app.
LEMMA DeliveredKeeps ==
    ASSUME NotifyInv, Extends, Counts, delivered' = delivered
    PROVE  delivered' \in Seq(1..event_seq') /\ DeliveredInTurn' /\ EachIsSeen'
<1>1. delivered \in Seq(1..event_seq) /\ \A i \in 1..Len(delivered) : delivered[i] \in 1..event_seq
  BY SeqElements DEF NotifyInv, TypeOK
<1>2. delivered' \in Seq(1..event_seq')
  <2>1. \A i \in 1..Len(delivered) : delivered[i] \in 1..event_seq'
    BY <1>1 DEF Extends, Counts
  <2>. QED
    BY <1>1, <2>1, SeqElements
<1>3. ASSUME NEW i \in 1..Len(delivered)
      PROVE  /\ AppWebhook /\ ForApp(delivered[i])'
             /\ \A q \in 1..(delivered'[i] - 1) :
                   ForApp(q)' => q \in gaveup' \/ DeliveredBy(i - 1, q)'
  <2>1. PICK s \in 1..event_seq : s = delivered[i]
    BY <1>1
  <2>2. AppWebhook /\ ForApp(s)'
    BY <2>1, ForAppStays DEF NotifyInv, DeliveredInTurn
  <2>3. ASSUME NEW q \in 1..(s - 1), ForApp(q)'
        PROVE  q \in gaveup' \/ DeliveredBy(i - 1, q)'
    <3>1. q \in 1..event_seq
      BY <2>1 DEF Counts
    <3>2. q \in gaveup \/ DeliveredBy(i - 1, q)
      BY <2>1, <2>3, <3>1, ForAppStays DEF NotifyInv, DeliveredInTurn
    <3>. QED
      BY <3>2 DEF Extends, DeliveredBy
  <2>. QED
    BY <2>1, <2>2, <2>3
<1>4. DeliveredInTurn'
  BY <1>3 DEF DeliveredInTurn
<1>5. EachIsSeen'
  BY DEF NotifyInv, EachIsSeen, Seen, Fresh
<1>. QED
  BY <1>2, <1>4, <1>5

\* A request that was claimed in its turn arrives.
LEMMA Delivers ==
    ASSUME NotifyInv, Extends, Counts, NEW s, InTurn(s), delivered' = Append(delivered, s),
           UNCHANGED <<timeline, gaveup>>
    PROVE  /\ delivered' \in Seq(1..event_seq') /\ DeliveredInTurn' /\ EachIsSeen'
           /\ Reached(s)'
<1>. DEFINE n == Len(delivered)
<1>1. /\ s \in 1..event_seq /\ event_seq' = event_seq /\ delivered \in Seq(1..event_seq)
      /\ n \in Nat
  BY DEF InTurn, ForApp, NotifyInv, TypeOK, event_seq
<1>2. /\ delivered' \in Seq(1..event_seq') /\ Len(delivered') = n + 1 /\ delivered'[n + 1] = s
      /\ \A i \in 1..n : delivered'[i] = delivered[i]
  BY <1>1
<1>3. \A q : ForApp(q)' <=> ForApp(q)
  BY <1>1 DEF ForApp
<1>4. ASSUME NEW i \in 1..(n + 1), NEW q, DeliveredBy(i - 1, q) PROVE DeliveredBy(i - 1, q)'
  BY <1>1, <1>2, <1>4 DEF DeliveredBy
<1>5. ASSUME NEW i \in 1..(n + 1)
      PROVE  /\ AppWebhook /\ ForApp(delivered[i])'
             /\ \A q \in 1..(delivered'[i] - 1) :
                   ForApp(q)' => q \in gaveup' \/ DeliveredBy(i - 1, q)'
  <2>1. CASE i = n + 1
    <3>1. delivered'[i] = s /\ i - 1 = n
      BY <1>1, <1>2, <2>1
    <3>2. AppWebhook /\ ForApp(s)'
      BY <1>3 DEF InTurn
    <3>3. ASSUME NEW q \in 1..(s - 1), ForApp(q)'
          PROVE  q \in gaveup' \/ DeliveredBy(i - 1, q)'
      <4>1. q \in gaveup \/ DeliveredBy(n, q)
        BY <1>3, <3>3 DEF InTurn, Reached
      <4>. QED
        BY <1>4, <3>1, <4>1
    <3>. QED
      BY <3>1, <3>2, <3>3
  <2>2. CASE i \in 1..n
    <3>1. PICK x : x = delivered[i] /\ x = delivered'[i]
      BY <1>2, <2>2
    <3>2. AppWebhook /\ ForApp(x)'
      BY <1>3, <2>2, <3>1 DEF NotifyInv, DeliveredInTurn
    <3>3. ASSUME NEW q \in 1..(x - 1), ForApp(q)'
          PROVE  q \in gaveup' \/ DeliveredBy(i - 1, q)'
      BY <1>3, <1>4, <2>2, <3>1, <3>3 DEF NotifyInv, DeliveredInTurn
    <3>. QED
      BY <3>1, <3>2, <3>3
  <2>. QED
    BY <1>1, <2>1, <2>2
<1>6. DeliveredInTurn'
  BY <1>2, <1>5 DEF DeliveredInTurn
<1>7. \A k \in Seen : k \in Seen' /\ delivered'[k] = delivered[k]
  BY <1>1, <1>2 DEF Seen, Fresh
<1>8. \E k \in Seen' : delivered'[k] = s
  <2>1. CASE \E i \in 1..n : delivered[i] = s
    BY <1>7, <2>1 DEF NotifyInv, EachIsSeen
  <2>2. CASE ~ \E i \in 1..n : delivered[i] = s
    <3>1. n + 1 \in Seen'
      BY <1>1, <1>2, <2>2 DEF Seen, Fresh
    <3>. QED
      BY <1>2, <3>1
  <2>. QED
    BY <2>1, <2>2
<1>9. EachIsSeen'
  <2>1. ASSUME NEW i \in 1..(n + 1) PROVE \E k \in Seen' : delivered'[k] = delivered'[i]
    <3>1. CASE i = n + 1
      BY <1>2, <1>8, <3>1
    <3>2. CASE i \in 1..n
      BY <1>2, <1>7, <3>2 DEF NotifyInv, EachIsSeen
    <3>3. i = n + 1 \/ i \in 1..n
      BY <1>1
    <3>. QED
      BY <3>1, <3>2, <3>3
  <2>. QED
    BY <1>2, <2>1 DEF EachIsSeen
<1>10. Reached(s)'
  BY <1>1, <1>2 DEF Reached, DeliveredBy
<1>. QED
  BY <1>2, <1>6, <1>9, <1>10

\* Rows go only when their event has been reached.
LEMMA RowsKeep ==
    ASSUME NotifyInv, Extends, Counts, timeline' = timeline, outbox' \subseteq outbox,
           \A r \in dead' : r.kind = "notify_app" => r \in dead \/ r.seq \in gaveup',
           \A r \in outbox \ dead : r.kind = "notify_app" =>
               r \in outbox' \ dead' \/ Reached(r.seq)'
    PROVE  RowsNeedWebhook' /\ AwaitedOrReached' /\ DeadIsGivenUp'
<1>1. RowsNeedWebhook'
  BY DEF NotifyInv, RowsNeedWebhook
<1>2. DeadIsGivenUp'
  BY DEF NotifyInv, DeadIsGivenUp, Extends
<1>3. ASSUME AppWebhook, NEW q \in 1..event_seq, ForApp(q)'
      PROVE  Reached(q)' \/ OutboxJob("notify_app", q) \in outbox' \ dead'
  <2>1. Reached(q) \/ OutboxJob("notify_app", q) \in outbox \ dead
    BY <1>3, ForAppStays DEF NotifyInv, AwaitedOrReached
  <2>2. OutboxJob("notify_app", q).kind = "notify_app" /\ OutboxJob("notify_app", q).seq = q
    BY DEF OutboxJob
  <2>. QED
    BY <2>1, <2>2, ReachedStays
<1>4. AwaitedOrReached'
  <2>1. event_seq' = event_seq
    BY DEF event_seq
  <2>. QED
    BY <1>3, <2>1 DEF AwaitedOrReached
<1>. QED
  BY <1>1, <1>2, <1>4

LEMMA Combines ==
    ASSUME StoreInv', worker' \in [Workers -> WorkerType],
           delivered' \in Seq(1..event_seq'), late' \subseteq 1..event_seq',
           gaveup' \subseteq 1..event_seq', budget' \in BudgetType,
           RowsNeedWebhook', AwaitedOrReached', DeadIsGivenUp', HeldInTurn', LateInTurn',
           DoneIsReached', DeliveredInTurn', EachIsSeen'
    PROVE  NotifyInv'
BY DEF NotifyInv, TypeOK, StoreInv, WorkerType, BudgetType

-----------------------------------------------------------------------------
(* The steps                                                               *)

LEMMA ProgressStep ==
    ASSUME NotifyInv, Progress
    PROVE  DetectionStep \/ SettlementStep
<1>1. 1 \in 1..event_seq
  BY DEF NotifyInv, StoreInv, StoreTypeOK, StatusMatchesTimeline, event_seq
<1>2. row \in Located /\ "engine_refused" \in FailureCode \ {"none"}
  BY DEF Located, FailureCode
<1>. QED
  BY <1>1, <1>2, Zenon DEF Progress, DetectionStep, SettlementStep

LEMMA StoreSteps ==
    ASSUME NotifyInv, Next \/ UNCHANGED vars
    PROVE  StoreNext \/ UNCHANGED storeVars
<1>0. StoreTypeOK
  BY DEF NotifyInv, StoreInv
<1>1. CASE Progress
  BY <1>1, ProgressStep DEF StoreNext
<1>2. ASSUME NEW w \in Workers, WorkerNext(w)
      PROVE  OutboxStep \/ UNCHANGED storeVars
  <2>1. CASE ClaimJob(w)
    BY <2>1, Zenon DEF ClaimJob, OutboxStep
  <2>2. CASE DeleteJob(w) \/ RetryJob(w) \/ GiveUp(w)
    BY <1>0, <2>2, FinishedRow, Zenon DEF DeleteJob, RetryJob, GiveUp
  <2>. QED
    BY <1>2, <2>1, <2>2, Zenon DEF WorkerNext, PostAccepted, PostRejected, PostLost, AbandonJob
<1>3. ASSUME NEW r \in outbox, LockExpires(r) \/ OperatorRequeue(r)
      PROVE  OutboxStep
  BY <1>3, Zenon DEF LockExpires, OperatorRequeue, OutboxStep
<1>4. ASSUME NEW s \in late, LateArrives(s) PROVE UNCHANGED storeVars
  BY <1>4 DEF LateArrives
<1>. QED
  BY <1>1, <1>2, <1>3, <1>4 DEF Next, StoreNext, vars

LEMMA Spending ==
    ASSUME TypeOK, NEW kind \in {"worker", "app", "age", "operator"}, Spend(kind)
    PROVE  budget' \in BudgetType
BY DEF TypeOK, Spend, BudgetType

LEMMA Before ==
    ASSUME NotifyInv, Next \/ UNCHANGED vars
    PROVE  /\ StoreInv' /\ event_seq \in Nat /\ event_seq' \in Nat /\ event_seq' >= event_seq
           /\ Len(delivered) \in Nat /\ TypeOK /\ gaveup \subseteq 1..event_seq
           /\ worker \in [Workers -> WorkerType] /\ budget \in BudgetType
           /\ \A s \in late : InTurn(s)
<1>1. StoreInv' /\ event_seq \in Nat /\ event_seq' \in Nat /\ event_seq' >= event_seq
  BY StoreSteps, StoreGrows DEF NotifyInv
<1>2. /\ Len(delivered) \in Nat /\ TypeOK /\ gaveup \subseteq 1..event_seq
      /\ worker \in [Workers -> WorkerType] /\ budget \in BudgetType
  BY DEF NotifyInv, TypeOK, WorkerType, BudgetType
<1>. QED
  BY <1>1, <1>2 DEF NotifyInv, LateInTurn

\* A step on the outbox, whatever it is: nothing is recorded or delivered.
LEMMA Quietly ==
    ASSUME NotifyInv, Next \/ UNCHANGED vars, UNCHANGED <<timeline, delivered>>,
           gaveup \subseteq gaveup', gaveup' \subseteq 1..event_seq, budget' \in BudgetType,
           \A s \in late' : InTurn(s), outbox' \subseteq outbox,
           \A r \in dead' : r.kind = "notify_app" => r \in dead \/ r.seq \in gaveup',
           \A r \in outbox \ dead : r.kind = "notify_app" =>
               r \in outbox' \ dead' \/ Reached(r.seq) \/ r.seq \in gaveup',
           \/ worker' = worker
           \/ \E p \in Workers, e \in WorkerType :
                /\ worker' = [worker EXCEPT ![p] = e]
                /\ e.step # "idle" => InTurn(e.seq)
                /\ e.step = "done" => Reached(e.seq)
    PROVE  NotifyInv'
<1>1. /\ StoreInv' /\ event_seq \in Nat /\ event_seq' = event_seq /\ Len(delivered) \in Nat
  BY Before DEF event_seq
<1>2. Extends /\ Counts
  BY <1>1 DEF Extends, Counts
<1>3. worker' \in [Workers -> WorkerType] /\ HeldInTurn' /\ DoneIsReached'
  <2>1. CASE worker' = worker
    BY <1>2, <2>1, WorkersKeep
  <2>2. ASSUME NEW p \in Workers, NEW e \in WorkerType,
               worker' = [worker EXCEPT ![p] = e],
               e.step # "idle" => InTurn(e.seq), e.step = "done" => Reached(e.seq)
        PROVE  worker' \in [Workers -> WorkerType] /\ HeldInTurn' /\ DoneIsReached'
    <3>1. e.step = "done" => Reached(e.seq)'
      BY <1>2, <2>2, ReachedStays
    <3>. QED
      BY <1>2, <2>2, <3>1, WorkerKeeps
  <2>. QED
    BY <2>1, <2>2
<1>4. late' \subseteq 1..event_seq' /\ LateInTurn'
  BY <1>2, LateKeeps
<1>5. delivered' \in Seq(1..event_seq') /\ DeliveredInTurn' /\ EachIsSeen'
  BY <1>2, DeliveredKeeps
<1>6. \A r \in outbox \ dead : r.kind = "notify_app" => r \in outbox' \ dead' \/ Reached(r.seq)'
  <2>1. ASSUME NEW r \in outbox \ dead, r.kind = "notify_app", r \notin outbox' \ dead'
        PROVE  Reached(r.seq)'
    <3>1. PICK q : q = r.seq
      OBVIOUS
    <3>2. Reached(q)'
      BY <1>2, <2>1, <3>1, ReachedStays DEF Reached
    <3>. QED
      BY <3>1, <3>2
  <2>. QED
    BY <2>1
<1>7. RowsNeedWebhook' /\ AwaitedOrReached' /\ DeadIsGivenUp'
  BY <1>2, <1>6, RowsKeep
<1>. QED
  BY <1>1, <1>3, <1>4, <1>5, <1>7, Combines

\* The app receives a request: the worker's own, or one that was on its way.
LEMMA Receives ==
    ASSUME NotifyInv, Next, NEW s, InTurn(s), delivered' = Append(delivered, s),
           UNCHANGED <<storeVars, gaveup, budget>>, late' \subseteq late,
           \/ worker' = worker
           \/ \E p \in Workers, e \in WorkerType :
                worker' = [worker EXCEPT ![p] = e] /\ e.seq = s
    PROVE  NotifyInv'
<1>1. /\ StoreInv' /\ event_seq \in Nat /\ event_seq' = event_seq /\ Len(delivered) \in Nat
      /\ UNCHANGED <<timeline, outbox, dead>> /\ budget' \in BudgetType
      /\ gaveup' \subseteq 1..event_seq'
  BY Before DEF event_seq, storeVars
<1>2. s \in 1..event_seq /\ delivered \in Seq(1..event_seq)
  BY DEF NotifyInv, TypeOK, InTurn, ForApp
<1>3. /\ Len(delivered') = Len(delivered) + 1
      /\ \A i \in 1..Len(delivered) : delivered'[i] = delivered[i]
  BY <1>2
<1>4. Extends /\ Counts
  BY <1>1, <1>3 DEF Extends, Counts
<1>5. /\ delivered' \in Seq(1..event_seq') /\ DeliveredInTurn' /\ EachIsSeen' /\ Reached(s)'
  BY <1>1, <1>4, Delivers
<1>6. worker' \in [Workers -> WorkerType] /\ HeldInTurn' /\ DoneIsReached'
  BY <1>4, <1>5, WorkersKeep, WorkerKeeps
<1>7. late' \subseteq 1..event_seq' /\ LateInTurn'
  BY <1>4, Before, LateKeeps
<1>8. RowsNeedWebhook' /\ AwaitedOrReached' /\ DeadIsGivenUp'
  BY <1>1, <1>4, RowsKeep
<1>. QED
  BY <1>1, <1>5, <1>6, <1>7, <1>8, Combines

\* claim's NOT EXISTS, with rows that stay until they are reached: whoever
\* claims a row has the app's next event in its hands.
LEMMA ClaimedInTurn ==
    ASSUME NotifyInv, NEW r \in outbox, r.kind = "notify_app", claim(r)
    PROVE  InTurn(r.seq)
<1>1. AppWebhook
  BY DEF NotifyInv, RowsNeedWebhook
<1>2. ForApp(r.seq) /\ event_seq \in Nat
  <2>1. r.seq \in 1..event_seq /\ <<timeline[r.seq], r.kind>> \in Causes
    BY Zenon DEF NotifyInv, StoreInv, RowsHaveCauses, event_seq
  <2>2. timeline[r.seq] \in AppFacing
    BY <2>1 DEF Causes
  <2>. QED
    BY <2>1, <2>2 DEF ForApp, NotifyInv, StoreInv, StoreTypeOK, event_seq
<1>3. ASSUME NEW q \in 1..(r.seq - 1), ForApp(q) PROVE Reached(q)
  <2>1. q \in 1..event_seq /\ q < r.seq
    BY <1>2 DEF ForApp
  <2>2. OutboxJob("notify_app", q) \notin outbox \ dead
    BY <2>1 DEF claim, Claimable, OutboxJob
  <2>. QED
    BY <1>1, <1>3, <2>1, <2>2 DEF NotifyInv, AwaitedOrReached
<1>. QED
  BY <1>1, <1>2, <1>3 DEF InTurn

LEMMA WorkerPreserves ==
    ASSUME NotifyInv, NEW p \in Workers, WorkerNext(p)
    PROVE  NotifyInv'
<1>0. Next
  BY DEF Next
<1>1. /\ worker[p] \in WorkerType /\ budget \in BudgetType /\ TypeOK
      /\ gaveup \subseteq 1..event_seq /\ \A s \in late : InTurn(s)
      /\ IdleWorker \in WorkerType /\ IdleWorker.step = "idle"
  BY <1>0, Before DEF IdleWorker, WorkerType
<1>2. worker[p].step # "idle" => InTurn(worker[p].seq) /\ worker[p].seq \in 1..event_seq
  BY DEF NotifyInv, HeldInTurn, InTurn, ForApp
\* Where the outbox is left alone ..
<1>3. ASSUME NEW e \in WorkerType, worker' = [worker EXCEPT ![p] = e],
             e.step # "idle" => InTurn(e.seq), e.step # "done",
             UNCHANGED <<timeline, delivered, gaveup, outbox, dead>>, budget' \in BudgetType,
             \A s \in late' : InTurn(s)
      PROVE  NotifyInv'
  <2>1. \E v \in Workers, d \in WorkerType :
            /\ worker' = [worker EXCEPT ![v] = d]
            /\ d.step # "idle" => InTurn(d.seq)
            /\ d.step = "done" => Reached(d.seq)
    BY <1>3
  <2>. QED
    BY <1>0, <1>1, <1>3, <2>1, Quietly
\* .. and where the worker then goes on with its row.
<1>4. ASSUME Goto(p, "retry"), worker[p].step # "idle",
             UNCHANGED <<storeVars, delivered, gaveup>>, budget' \in BudgetType,
             \A s \in late' : InTurn(s)
      PROVE  NotifyInv'
  <2>. DEFINE e == [worker[p] EXCEPT !.step = "retry"]
  <2>1. e \in WorkerType /\ e.step = "retry" /\ e.seq = worker[p].seq
    BY <1>1 DEF WorkerType
  <2>2. worker' = [worker EXCEPT ![p] = e] /\ UNCHANGED <<timeline, outbox, dead>>
    BY <1>4 DEF Goto, storeVars
  <2>. HIDE DEF e
  <2>. QED
    BY <1>2, <1>3, <1>4, <2>1, <2>2
<1>5. CASE ClaimJob(p)
  <2>1. PICK r \in outbox :
            /\ r.kind = "notify_app" /\ claim(r)
            /\ worker' = [worker EXCEPT ![p] = [step |-> "post", seq |-> r.seq]]
    BY <1>5 DEF ClaimJob
  <2>. DEFINE e == [step |-> "post", seq |-> r.seq]
  <2>2. InTurn(r.seq) /\ r.seq \in Nat
    BY <2>1, ClaimedInTurn DEF NotifyInv, StoreInv, StoreTypeOK, OutboxRow
  <2>3. e \in WorkerType /\ e.step = "post" /\ e.seq = r.seq /\ worker' = [worker EXCEPT ![p] = e]
    BY <2>1, <2>2 DEF WorkerType
  <2>. HIDE DEF e
  <2>4. UNCHANGED <<timeline, delivered, gaveup, outbox, dead, late, budget>>
    BY <1>5, <2>1 DEF ClaimJob, claim
  <2>. QED
    BY <1>1, <1>3, <2>2, <2>3, <2>4
<1>6. CASE PostAccepted(p)
  <2>. DEFINE e == [worker[p] EXCEPT !.step = "done"]
  <2>1. e \in WorkerType /\ e.seq = worker[p].seq
    BY <1>1 DEF WorkerType
  <2>2. worker' = [worker EXCEPT ![p] = e] /\ InTurn(worker[p].seq)
    BY <1>2, <1>6 DEF PostAccepted, Goto
  <2>. HIDE DEF e
  <2>3. PICK s : s = worker[p].seq
    OBVIOUS
  <2>4. InTurn(s) /\ delivered' = Append(delivered, s)
        /\ UNCHANGED <<storeVars, gaveup, budget>> /\ late' \subseteq late
    BY <1>6, <2>2, <2>3 DEF PostAccepted
  <2>. QED
    BY <1>0, <2>1, <2>2, <2>3, <2>4, Receives
<1>7. CASE PostRejected(p)
  BY <1>1, <1>4, <1>7, Spending DEF PostRejected
<1>8. CASE PostLost(p)
  <2>1. \A s \in late' : InTurn(s)
    BY <1>1, <1>2, <1>8 DEF PostLost
  <2>. QED
    BY <1>1, <1>4, <1>8, <2>1, Spending DEF PostLost
\* The rows a worker puts an end to.
<1>9. ASSUME worker' = [worker EXCEPT ![p] = IdleWorker],
             UNCHANGED <<timeline, delivered, late>>,
             gaveup \subseteq gaveup', gaveup' \subseteq 1..event_seq, budget' \in BudgetType,
             outbox' \subseteq outbox,
             \A r \in dead' : r.kind = "notify_app" => r \in dead \/ r.seq \in gaveup',
             \A r \in outbox \ dead : r.kind = "notify_app" =>
                 r \in outbox' \ dead' \/ Reached(r.seq) \/ r.seq \in gaveup'
      PROVE  NotifyInv'
  <2>1. \E v \in Workers, d \in WorkerType :
            /\ worker' = [worker EXCEPT ![v] = d]
            /\ d.step # "idle" => InTurn(d.seq)
            /\ d.step = "done" => Reached(d.seq)
    BY <1>1, <1>9
  <2>. QED
    BY <1>0, <1>1, <1>9, <2>1, Quietly
<1>10. CASE DeleteJob(p)
  <2>1. Reached(RowOf(p).seq)
    BY <1>10 DEF DeleteJob, NotifyInv, DoneIsReached, RowOf, OutboxJob
  <2>2. /\ outbox' = outbox \ {RowOf(p)} /\ dead' = dead \ {RowOf(p)} /\ timeline' = timeline
        /\ UNCHANGED <<delivered, late, gaveup, budget>>
        /\ worker' = [worker EXCEPT ![p] = IdleWorker]
    BY <1>10 DEF DeleteJob, delete_row
  <2>. QED
    BY <1>1, <1>9, <2>1, <2>2
<1>11. CASE RetryJob(p)
  <2>1. /\ UNCHANGED <<timeline, delivered, late, gaveup, budget, outbox, dead>>
        /\ worker' = [worker EXCEPT ![p] = IdleWorker]
    BY <1>11 DEF RetryJob, retry_later
  <2>. QED
    BY <1>1, <1>9, <2>1
<1>12. CASE GiveUp(p)
  <2>1. /\ outbox' = outbox /\ dead' = dead \cup ({RowOf(p)} \cap outbox) /\ timeline' = timeline
        /\ gaveup' = gaveup \cup {r.seq : r \in {RowOf(p)} \cap outbox}
        /\ UNCHANGED <<delivered, late>> /\ budget' \in BudgetType
        /\ worker' = [worker EXCEPT ![p] = IdleWorker] /\ worker[p].step = "retry"
    BY <1>1, <1>12, Spending DEF GiveUp, mark_dead
  <2>2. RowOf(p).seq \in 1..event_seq
    BY <1>2, <2>1 DEF RowOf, OutboxJob
  <2>. QED
    BY <1>1, <1>9, <2>1, <2>2
<1>13. CASE AbandonJob(p)
  <2>1. CASE Goto(p, "retry")
    BY <1>1, <1>4, <1>13, <2>1, Spending DEF AbandonJob
  <2>2. CASE worker' = [worker EXCEPT ![p] = IdleWorker]
    BY <1>1, <1>9, <1>13, <2>2, Spending DEF AbandonJob, storeVars
  <2>. QED
    BY <1>13, <2>1, <2>2 DEF AbandonJob
<1>. QED
  BY <1>5, <1>6, <1>7, <1>8, <1>10, <1>11, <1>12, <1>13 DEF WorkerNext

LEMMA ProgressPreserves ==
    ASSUME NotifyInv, Progress
    PROVE  NotifyInv'
<1>0. Next
  BY DEF Next
<1>1. /\ StoreInv' /\ event_seq \in Nat /\ event_seq' \in Nat /\ event_seq' > event_seq
      /\ Len(delivered) \in Nat /\ gaveup \subseteq 1..event_seq /\ budget \in BudgetType
      /\ \A s \in late : InTurn(s)
      /\ UNCHANGED <<worker, delivered, late, gaveup, budget>>
  BY <1>0, Before DEF Progress
<1>2. PICK type \in EventType : Records(type)
  <2>1. RecordsOrSkips
    BY ProgressStep, StepRecords
  <2>. QED
    BY <1>1, <2>1 DEF RecordsOrSkips, event_seq
<1>3. /\ event_seq' = event_seq + 1 /\ timeline'[event_seq + 1] = type
      /\ \A q \in 1..event_seq : timeline'[q] = timeline[q]
  BY <1>2 DEF Records, event_seq, NotifyInv, StoreInv, StoreTypeOK
<1>4. Extends /\ Counts
  BY <1>1, <1>3 DEF Extends, Counts
<1>5. worker' \in [Workers -> WorkerType] /\ HeldInTurn' /\ DoneIsReached'
  BY <1>1, <1>4, WorkersKeep
<1>6. late' \subseteq 1..event_seq' /\ LateInTurn'
  BY <1>1, <1>4, LateKeeps
<1>7. delivered' \in Seq(1..event_seq') /\ DeliveredInTurn' /\ EachIsSeen'
  BY <1>1, <1>4, DeliveredKeeps
<1>8. RowsNeedWebhook'
  BY <1>2 DEF Records, NotifyInv, RowsNeedWebhook
<1>9. DeadIsGivenUp'
  BY <1>1, <1>2 DEF Records, NotifyInv, DeadIsGivenUp
<1>10. ASSUME AppWebhook, NEW q \in 1..event_seq', ForApp(q)'
       PROVE  Reached(q)' \/ OutboxJob("notify_app", q) \in outbox' \ dead'
  <2>1. CASE q \in 1..event_seq
    <3>1. Reached(q) \/ OutboxJob("notify_app", q) \in outbox \ dead
      BY <1>4, <1>10, <2>1, ForAppStays DEF NotifyInv, AwaitedOrReached
    <3>. QED
      BY <1>2, <1>4, <3>1, ReachedStays DEF Records
  <2>2. CASE q = event_seq + 1
    <3>1. type \in AppFacing
      BY <1>3, <1>10, <2>2 DEF ForApp
    <3>2. OutboxJob("notify_app", q) \in outbox'
      BY <1>2, <1>10, <2>2, <3>1 DEF Records
    <3>3. \A r \in dead : r.seq \in 1..event_seq
      BY Zenon DEF NotifyInv, StoreInv, StoreTypeOK, RowsHaveCauses, event_seq
    <3>4. OutboxJob("notify_app", q) \notin dead'
      BY <1>1, <1>2, <2>2, <3>3 DEF Records, OutboxJob
    <3>. QED
      BY <3>2, <3>4
  <2>. QED
    BY <1>1, <1>3, <2>1, <2>2
<1>11. AwaitedOrReached'
  BY <1>10 DEF AwaitedOrReached
<1>12. gaveup' \subseteq 1..event_seq' /\ budget' \in BudgetType
  BY <1>1
<1>. QED
  BY <1>1, <1>5, <1>6, <1>7, <1>8, <1>9, <1>11, <1>12, Combines

LEMMA OtherPreserves ==
    ASSUME NotifyInv, Next,
           \/ \E s \in late : LateArrives(s)
           \/ \E r \in outbox : LockExpires(r) \/ OperatorRequeue(r)
    PROVE  NotifyInv'
<1>1. /\ budget \in BudgetType /\ TypeOK /\ gaveup \subseteq 1..event_seq
      /\ \A s \in late : InTurn(s)
  BY Before
<1>2. ASSUME NEW s \in late, LateArrives(s) PROVE NotifyInv'
  <2>1. /\ InTurn(s) /\ delivered' = Append(delivered, s) /\ late' \subseteq late
        /\ UNCHANGED <<storeVars, gaveup, budget>> /\ worker' = worker
    BY <1>1, <1>2 DEF LateArrives
  <2>. QED
    BY <2>1, Receives
<1>3. ASSUME NEW r \in outbox, LockExpires(r) \/ OperatorRequeue(r) PROVE NotifyInv'
  <2>1. /\ UNCHANGED <<timeline, outbox, worker, delivered, late, gaveup>> /\ dead' \subseteq dead
        /\ budget' \in BudgetType
    BY <1>1, <1>3, Spending DEF LockExpires, OperatorRequeue, lock_expires, admin_requeue
  <2>. QED
    BY <1>1, <2>1, Quietly
<1>. QED
  BY <1>2, <1>3

-----------------------------------------------------------------------------
\* The invariant of the app's webhooks.
THEOREM NotifyCorrect == Spec => []NotifyInv
<1>1. Init => NotifyInv
  <2>. SUFFICES ASSUME Init PROVE NotifyInv
    OBVIOUS
  <2>1. StoreInv
    BY DEF Init, StoreInit, StoreInv, StoreTypeOK, StatusMatchesTimeline, RowsHaveCauses,
           NewDeposit, Deposit, NULL, OutboxJob, OutboxRow, EventType, AppFacing, Kind, Open,
           Terminal, Status, FailureCode, Moves, Still, Causes
  <2>2. /\ timeline = <<"created">> /\ event_seq = 1 /\ dead = {}
        /\ \A r \in outbox : r.kind = "register_watch"
        /\ \A w \in Workers : worker[w].step = "idle"
        /\ delivered = <<>> /\ Len(delivered) = 0 /\ late = {} /\ gaveup = {}
    BY DEF Init, StoreInit, OutboxJob, IdleWorker, event_seq
  <2>3. TypeOK
    <3>1. {MaxWorkerFaults, MaxAppFaults, MaxGiveUps, MaxOperator} \subseteq Nat
      OBVIOUS
    <3>2. budget \in [{"worker", "app", "age", "operator"} -> Nat]
      BY <3>1 DEF Init
    <3>3. worker \in [Workers -> [step: {"idle", "post", "done", "retry"}, seq: Nat]]
      BY DEF Init, IdleWorker
    <3>. QED
      BY <2>1, <2>2, <3>2, <3>3 DEF TypeOK, StoreInv
  <2>4. \A q : ~ForApp(q)
    BY <2>2 DEF ForApp, AppFacing
  <2>5. RowsNeedWebhook /\ AwaitedOrReached /\ DeadIsGivenUp
    BY <2>2, <2>4 DEF RowsNeedWebhook, AwaitedOrReached, DeadIsGivenUp
  <2>6. HeldInTurn /\ LateInTurn /\ DoneIsReached
    BY <2>2 DEF HeldInTurn, LateInTurn, DoneIsReached
  <2>7. DeliveredInTurn /\ EachIsSeen
    BY <2>2 DEF DeliveredInTurn, EachIsSeen
  <2>. QED
    BY <2>1, <2>3, <2>5, <2>6, <2>7 DEF NotifyInv
<1>2. NotifyInv /\ [Next]_vars => NotifyInv'
  <2>1. CASE NotifyInv /\ UNCHANGED vars
    <3>1. UNCHANGED <<timeline, outbox, dead, worker, delivered, late, gaveup, budget>>
      BY <2>1 DEF vars, storeVars
    <3>2. /\ gaveup \subseteq 1..event_seq /\ budget \in BudgetType
          /\ \A s \in late : InTurn(s)
      BY <2>1, Before
    <3>. QED
      BY <2>1, <3>1, <3>2, Quietly
  <2>2. CASE NotifyInv /\ Next
    BY <2>2, ProgressPreserves, WorkerPreserves, OtherPreserves DEF Next
  <2>. QED
    BY <2>1, <2>2
<1>. QED
  BY <1>1, <1>2, PTL DEF Spec

\* An app that dedupes sees the events in the order of `sequence`, except one
\* whose row was given up on and came back (claim, execute_job, schedule).
THEOREM AppSeesOrder == Spec => []InOrder
<1>1. NotifyInv => InOrder
  <2>. SUFFICES ASSUME NotifyInv, NEW i \in Seen, NEW j \in Seen, i < j, delivered[i] > delivered[j]
                PROVE  delivered[j] \in gaveup
    BY DEF InOrder
  <2>1. /\ i \in 1..Len(delivered) /\ j \in 1..Len(delivered) /\ Len(delivered) \in Nat
        /\ delivered[i] \in 1..event_seq /\ delivered[j] \in 1..event_seq /\ event_seq \in Nat
        /\ ForApp(delivered[j])
    <3>1. /\ delivered \in Seq(1..event_seq) /\ Len(delivered) \in Nat /\ event_seq \in Nat
          /\ i \in 1..Len(delivered) /\ j \in 1..Len(delivered)
      BY DEF Seen, NotifyInv, TypeOK, StoreInv, StoreTypeOK, event_seq
    <3>2. delivered[i] \in 1..event_seq /\ delivered[j] \in 1..event_seq
      BY <3>1, SeqElements
    <3>. QED
      BY <3>1, <3>2 DEF NotifyInv, DeliveredInTurn
  <2>2. delivered[j] \in gaveup \/ DeliveredBy(i - 1, delivered[j])
    BY <2>1 DEF NotifyInv, DeliveredInTurn
  <2>3. ~DeliveredBy(i - 1, delivered[j])
    BY <2>1 DEF DeliveredBy, Seen, Fresh
  <2>. QED
    BY <2>2, <2>3
<1>. QED
  BY <1>1, NotifyCorrect, PTL

\* Once nothing is left to send and nothing was given up on, an app that
\* dedupes has learned the verdict, and learned it last (record_event,
\* notify_app, execute_job).
THEOREM AppKnowsVerdict == Spec => []AppLearnsVerdict
<1>1. NotifyInv => AppLearnsVerdict
  <2>. SUFFICES ASSUME NotifyInv, AppWebhook, row.status \in Terminal, gaveup = {},
                       \A r \in outbox : r.kind # "notify_app"
                PROVE  \E i \in Seen :
                          /\ <<timeline[delivered[i]], row.status>> \in Moves
                          /\ \A j \in Seen : j > i => timeline[delivered[j]] \in Still
    BY DEF AppLearnsVerdict
  <2>0. event_seq \in Nat /\ Len(delivered) \in Nat
    BY DEF NotifyInv, TypeOK, StoreInv, StoreTypeOK, event_seq
  <2>1. PICK m \in 1..event_seq : /\ <<timeline[m], row.status>> \in Moves
                                  /\ \A j \in (m + 1)..event_seq : timeline[j] \in Still
    BY DEF NotifyInv, StoreInv, StatusMatchesTimeline, event_seq
  <2>2. ForApp(m)
    BY <2>1 DEF Moves, Terminal, ForApp, AppFacing
  <2>3. Reached(m)
    <3>1. OutboxJob("notify_app", m) \notin outbox
      BY DEF OutboxJob
    <3>. QED
      BY <2>2, <3>1 DEF NotifyInv, AwaitedOrReached
  <2>4. PICK i \in Seen : delivered[i] = m
    <3>1. PICK k \in 1..Len(delivered) : delivered[k] = m
      BY <2>3 DEF Reached, DeliveredBy
    <3>. QED
      BY <3>1 DEF NotifyInv, EachIsSeen
  <2>5. ASSUME NEW j \in Seen, j > i PROVE timeline[delivered[j]] \in Still
    <3>1. /\ i \in 1..Len(delivered) /\ j \in 1..Len(delivered)
          /\ delivered[j] \in 1..event_seq /\ ForApp(delivered[j])
      BY SeqElements DEF Seen, NotifyInv, TypeOK, DeliveredInTurn
    <3>2. delivered[j] # m
      BY <2>0, <2>4, <2>5, <3>1 DEF Seen, Fresh
    <3>3. ~(delivered[j] < m)
      <4>1. SUFFICES ASSUME delivered[j] < m PROVE FALSE
        OBVIOUS
      <4>2. DeliveredBy(i - 1, delivered[j])
        BY <2>0, <2>4, <3>1, <4>1 DEF NotifyInv, DeliveredInTurn
      <4>. QED
        BY <2>0, <2>5, <3>1, <4>2 DEF DeliveredBy, Seen, Fresh
    <3>4. delivered[j] \in (m + 1)..event_seq
      BY <2>0, <2>1, <3>1, <3>2, <3>3
    <3>. QED
      BY <2>1, <3>4
  <2>. QED
    BY <2>1, <2>4, <2>5
<1>. QED
  BY <1>1, NotifyCorrect, PTL

\* The app's notifications are only ever the store's steps.
THEOREM NotifyImplementsStore == Spec => StoreSpec
<1>1. Init => StoreInit
  BY DEF Init
<1>2. NotifyInv /\ [Next]_vars => [StoreNext]_storeVars
  BY StoreSteps DEF vars
<1>. QED
  BY <1>1, <1>2, NotifyCorrect, PTL DEF Spec, StoreSpec
=============================================================================
