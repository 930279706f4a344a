-------------------------- MODULE DetectionProofs ---------------------------
(***************************************************************************)
(* Detection for any number of workers, handlers and reconcilers, any      *)
(* amount, any number of watches, payments and faults: no open deposit is  *)
(* left unwatched, `paid` is backed by the chain, nothing expires early    *)
(* but after a watch was cancelled, and the processes together only take   *)
(* the store's steps.                                                      *)
(***************************************************************************)
EXTENDS Detection, DepositStoreProofs

WorkerType == [step: WorkerStep, seq: Nat, watch: Nat]
ActorType  == [step: {"idle", "poll", "apply"}, report: Report, fill: BOOLEAN, ours: Nat]
WatchType  == [state: WatchState, total: Nat, known: BOOLEAN]

Ids == 1..Len(watches)

\* Time, or the indexer, has given the deposit up.
MayExpire == clock # "open" \/ \E i \in Ids : watches[i].state = "cancelled"

\* What gum-indexer holds is true of the chain and of time.
WatchesAreTrue ==
    /\ onchain <= MaxOnchain
    /\ \A i \in Ids :
        /\ i \in Watches
        /\ watches[i].total <= onchain
        /\ watches[i].state = "completed" => watches[i].total >= Amount
        /\ watches[i].state = "expired" => clock # "open"

\* And what is said of a watch, then or later, is true of it.
IsTrue(e) ==
    /\ e.watch \in Ids
    /\ e.total <= watches[e.watch].total
    /\ e.type \in {"payment.confirmed", "threshold.reached"} => e.total >= 1
    /\ e.type = "threshold.reached" => e.total >= Amount
    /\ e.type = "watch.expired" => clock # "open" \/ watches[e.watch].state = "cancelled"

ReportsAreTrue ==
    /\ \A e \in sent : IsTrue(e)
    /\ \A a \in Actors :
        /\ actor[a].step = "apply" => IsTrue(actor[a].report)
        /\ actor[a].step = "poll" => actor[a].report.watch \in Ids
    /\ \A h \in Handlers : actor[h].step # "idle" => actor[h].step = "apply" /\ actor[h].report \in sent

\* A worker's row is one of the timeline's, its watch one of the indexer's.
WorkersAreRight ==
    /\ row.watch \in {NULL} \cup Ids
    /\ \A w \in Workers :
        /\ worker[w].step # "idle" => worker[w].seq \in 1..event_seq
        /\ worker[w].step = "mark" => worker[w].watch \in Ids
        /\ worker[w].step = "expire" => clock # "open"

Ready == \E i \in 1..Len(timeline) : timeline[i] = "ready"

\* PaidIsFunded by itself is not inductive: a later confirmation would lower
\* the total if the deposit could be open again, and a reorganisation would
\* take the units away if no watch had counted them.
ReadyIsFunded ==
    Ready => /\ row.status \notin Open /\ row.confirmed >= Amount
             /\ \E i \in Ids : watches[i].total >= Amount

\* A row that no worker is about to delete or to mark dead.
Spared(r) ==
    /\ r \in outbox \ dead
    /\ r.kind = "register_watch"
    /\ \A w \in Workers : worker[w].step \in {"done", "dead"} => worker[w].seq # r.seq

\* OpenIsWatched by itself is not inductive: the one live row might belong to a
\* worker that has finished with it.
WatchIsSpared ==
    row.status \in Open /\ row.watch = NULL => \E r \in outbox : Spared(r)

DetectionInv ==
    /\ StoreInv /\ TypeOK /\ WatchesAreTrue /\ ReportsAreTrue /\ WorkersAreRight
    /\ ReadyIsFunded /\ ExpiredAfterExpiry /\ WatchIsSpared

USE DetectionAssumption, StoreAssumption

-----------------------------------------------------------------------------
(* What the store's operators do to an open deposit                        *)

\* The row that a transition may find: with the event's watch filled in.
Found(d) ==
    /\ d \in Deposit /\ d.status = row.status /\ d.confirmed = row.confirmed
    /\ d.watch = row.watch \/ row.watch = NULL

\* The register_watch row that comes with the next event.
NextRow == OutboxJob("register_watch", event_seq + 1)

LEMMA NextRowIsNew ==
    ASSUME StoreTypeOK, RowsHaveCauses
    PROVE  NextRow \notin dead /\ NextRow.kind = "register_watch" /\ NextRow.seq = event_seq + 1
<1>1. event_seq \in Nat /\ dead \subseteq outbox
  BY DEF StoreTypeOK, event_seq
<1>2. \A r \in outbox : r.seq \in 1..event_seq
  BY Zenon DEF RowsHaveCauses, event_seq
<1>3. NextRow.kind = "register_watch" /\ NextRow.seq = event_seq + 1
  BY DEF OutboxJob, NextRow
<1>. QED
  BY <1>1, <1>2, <1>3

\* Only the event "ready" makes a deposit one that was ready.
LEMMA ReadyIsRecorded ==
    ASSUME StoreTypeOK,
           NEW type, timeline' = timeline \/ timeline' = Append(timeline, type),
           type # "ready"
    PROVE  Ready' => Ready
<1>1. timeline \in Seq(EventType)
  BY DEF StoreTypeOK
<1>2. CASE timeline' = timeline
  BY <1>2 DEF Ready
<1>3. CASE timeline' = Append(timeline, type)
  <2>1. /\ Len(timeline) \in Nat /\ Len(timeline') = Len(timeline) + 1
        /\ timeline'[Len(timeline) + 1] = type
        /\ \A i \in 1..Len(timeline) : timeline'[i] = timeline[i]
    BY <1>1, <1>3
  <2>. SUFFICES ASSUME NEW i \in 1..Len(timeline'), timeline'[i] = "ready" PROVE Ready
    BY DEF Ready
  <2>2. i \in 1..Len(timeline)
    BY <2>1
  <2>. QED
    BY <2>1, <2>2 DEF Ready
<1>. QED
  BY <1>2, <1>3

\* What a step of the store may do to what detection watches over: c is the
\* total with which it reports the deposit ready.
Detects(c) ==
    /\ row.status \notin Open =>
          /\ row'.status \notin Open /\ row'.confirmed = row.confirmed /\ (Ready' => Ready)
    /\ Ready' /\ ~Ready => row'.status \notin Open /\ row'.confirmed = c
    /\ row'.status = "expired" => row.status = "expired" \/ MayExpire

LEMMA RecordedDetects ==
    ASSUME StoreTypeOK, NEW updated, NEW type, NEW c \in Nat,
           row' = updated, timeline' = Append(timeline, type),
           row.status \notin Open =>
              updated.status \notin Open /\ updated.confirmed = row.confirmed /\ type # "ready",
           type = "ready" => updated.status \notin Open /\ updated.confirmed = c,
           updated.status = "expired" => row.status = "expired" \/ MayExpire
    PROVE  Detects(c) /\ (type # "ready" => (Ready' => Ready))
<1>1. CASE type = "ready"
  BY <1>1 DEF Detects
<1>2. CASE type # "ready"
  BY <1>2, ReadyIsRecorded DEF Detects
<1>. QED
  BY <1>1, <1>2

LEMMA SkippedDetects ==
    ASSUME NEW d, Found(d), NEW c, row' = d, timeline' = timeline
    PROVE  Detects(c) /\ (Ready' => Ready)
BY DEF Detects, Found, Ready

\* An applied report: a total that makes the deposit ready was reported, the
\* watch is kept, filled in or, when it is lost, dropped together with a row
\* that registers another.
LEMMA AppliedDetects ==
    ASSUME StoreTypeOK, NEW d, Found(d), NEW e \in Report, apply_report(d, e),
           e.type = "watch.expired" => MayExpire
    PROVE  /\ Detects(e.total)
           /\ Ready' /\ ~Ready => e.type = "threshold.reached"
           /\ dead' = dead /\ outbox \subseteq outbox'
           /\ \/ row'.watch \in {d.watch, row.watch}
              \/ row'.watch = NULL /\ NextRow \in outbox'
<1>1. /\ d \in Deposit /\ row \in Deposit /\ Found(row) /\ e.total \in Nat
      /\ (d.status \in Open) \in BOOLEAN /\ (row.status \in Open) \in BOOLEAN
  BY DEF Found, StoreTypeOK, Report
<1>2. CASE e.type = "payment.pending"
  <2>. DEFINE u == [d EXCEPT !.status = "partial_paid"]
  <2>1. u.status = "partial_paid" /\ u.watch = d.watch
    BY <1>1 DEF Deposit
  <2>2. Transition(d, d.status \in Open, u, "detected", {})
    BY <1>2 DEF apply_report, apply_payment_pending
  <2>. HIDE DEF u
  <2>3. \/ /\ d.status \in Open /\ row' = u /\ event_seq' = event_seq + 1
           /\ timeline' = Append(timeline, "detected")
           /\ dead' = dead /\ outbox \subseteq outbox'
           /\ \A k \in {} : OutboxJob(k, event_seq + 1) \in outbox'
        \/ ~(d.status \in Open) /\ row' = d /\ UNCHANGED <<timeline, outbox, dead, locked>>
    BY <1>1, <2>2, LocatedFacts, Zenon
  <2>4. CASE d.status \in Open
    <3>1. Detects(e.total) /\ (Ready' => Ready)
      BY <1>1, <1>2, <2>1, <2>3, <2>4, RecordedDetects DEF Open, Found
    <3>. QED
      BY <1>2, <2>1, <2>3, <2>4, <3>1
  <2>5. CASE ~(d.status \in Open)
    BY <1>1, <2>3, <2>5, SkippedDetects
  <2>. QED
    BY <2>4, <2>5
<1>3. CASE e.type = "payment.confirmed"
  <2>. DEFINE u == [d EXCEPT !.status = "partial_paid", !.confirmed = e.total]
  <2>1. u.status = "partial_paid" /\ u.watch = d.watch
    BY <1>1 DEF Deposit
  <2>2. Transition(d, d.status \in Open, u, "payment_confirmed", {})
    BY <1>3 DEF apply_report, apply_payment_confirmed
  <2>. HIDE DEF u
  <2>3. \/ /\ d.status \in Open /\ row' = u /\ event_seq' = event_seq + 1
           /\ timeline' = Append(timeline, "payment_confirmed")
           /\ dead' = dead /\ outbox \subseteq outbox'
           /\ \A k \in {} : OutboxJob(k, event_seq + 1) \in outbox'
        \/ ~(d.status \in Open) /\ row' = d /\ UNCHANGED <<timeline, outbox, dead, locked>>
    BY <1>1, <2>2, LocatedFacts, Zenon
  <2>4. CASE d.status \in Open
    <3>1. Detects(e.total) /\ (Ready' => Ready)
      BY <1>1, <1>3, <2>1, <2>3, <2>4, RecordedDetects DEF Open, Found
    <3>. QED
      BY <1>3, <2>1, <2>3, <2>4, <3>1
  <2>5. CASE ~(d.status \in Open)
    BY <1>1, <2>3, <2>5, SkippedDetects
  <2>. QED
    BY <2>4, <2>5
<1>4. CASE e.type = "payment.orphaned"
  <2>1. Transition(d, TRUE, d, "payment_orphaned", {})
    BY <1>4 DEF apply_report, apply_payment_orphaned
  <2>2. /\ row' = d /\ timeline' = Append(timeline, "payment_orphaned")
        /\ dead' = dead /\ outbox \subseteq outbox'
    BY <2>1, Zenon DEF Transition, record_event
  <2>3. Detects(e.total) /\ (Ready' => Ready)
    BY <1>1, <2>2, RecordedDetects DEF Found
  <2>. QED
    BY <1>4, <2>2, <2>3
<1>5. CASE e.type = "threshold.reached"
  <2>. DEFINE u == [d EXCEPT !.status = "paid", !.confirmed = e.total]
  <2>1. u.status = "paid" /\ u.watch = d.watch /\ u.confirmed = e.total
    BY <1>1 DEF Deposit
  <2>2. Transition(d, d.status \in Open, u, "ready", {"submit_execute"})
    BY <1>5 DEF apply_report, apply_threshold_reached
  <2>. HIDE DEF u
  <2>3. \/ /\ d.status \in Open /\ row' = u /\ event_seq' = event_seq + 1
           /\ timeline' = Append(timeline, "ready")
           /\ dead' = dead /\ outbox \subseteq outbox'
           /\ \A k \in {"submit_execute"} : OutboxJob(k, event_seq + 1) \in outbox'
        \/ ~(d.status \in Open) /\ row' = d /\ UNCHANGED <<timeline, outbox, dead, locked>>
    BY <1>1, <2>2, LocatedFacts, Zenon
  <2>4. CASE d.status \in Open
    <3>1. Detects(e.total)
      BY <1>1, <1>5, <2>1, <2>3, <2>4, RecordedDetects DEF Open, Found
    <3>. QED
      BY <1>5, <2>1, <2>3, <2>4, <3>1
  <2>5. CASE ~(d.status \in Open)
    BY <1>1, <2>3, <2>5, SkippedDetects
  <2>. QED
    BY <2>4, <2>5
<1>6. CASE e.type = "watch.expired"
  <2>. DEFINE u == [d EXCEPT !.status = "expired"]
  <2>1. u.status = "expired" /\ u.watch = d.watch
    BY <1>1 DEF Deposit
  <2>2. Transition(d, d.status \in Open, u, "expired", {})
    BY <1>6 DEF apply_report, apply_expired
  <2>. HIDE DEF u
  <2>3. \/ /\ d.status \in Open /\ row' = u /\ event_seq' = event_seq + 1
           /\ timeline' = Append(timeline, "expired")
           /\ dead' = dead /\ outbox \subseteq outbox'
           /\ \A k \in {} : OutboxJob(k, event_seq + 1) \in outbox'
        \/ ~(d.status \in Open) /\ row' = d /\ UNCHANGED <<timeline, outbox, dead, locked>>
    BY <1>1, <2>2, LocatedFacts, Zenon
  <2>4. CASE d.status \in Open
    <3>1. Detects(e.total) /\ (Ready' => Ready)
      BY <1>1, <1>6, <2>1, <2>3, <2>4, RecordedDetects DEF Open, Found
    <3>. QED
      BY <1>6, <2>1, <2>3, <2>4, <3>1
  <2>5. CASE ~(d.status \in Open)
    BY <1>1, <2>3, <2>5, SkippedDetects
  <2>. QED
    BY <2>4, <2>5
<1>7. CASE e.type = "watch.lost"
  <2>. DEFINE u == [row EXCEPT !.watch = NULL]
  <2>1. u.status = row.status /\ u.watch = NULL
    BY <1>1 DEF Deposit
  <2>2. Transition(row, row.status \in Open, u, "watch_lost", {"register_watch"})
    BY <1>7 DEF apply_report, reregister_watch
  <2>. HIDE DEF u
  <2>3. \/ /\ row.status \in Open /\ row' = u /\ event_seq' = event_seq + 1
           /\ timeline' = Append(timeline, "watch_lost")
           /\ dead' = dead /\ outbox \subseteq outbox'
           /\ \A k \in {"register_watch"} : OutboxJob(k, event_seq + 1) \in outbox'
        \/ ~(row.status \in Open) /\ row' = row /\ UNCHANGED <<timeline, outbox, dead, locked>>
    BY <1>1, <2>2, LocatedFacts, Zenon
  <2>4. CASE row.status \in Open
    <3>1. Detects(e.total) /\ (Ready' => Ready)
      BY <1>1, <1>7, <2>1, <2>3, <2>4, RecordedDetects DEF Open, Found
    <3>. QED
      BY <1>7, <2>1, <2>3, <2>4, <3>1 DEF NextRow
  <2>5. CASE ~(row.status \in Open)
    BY <1>1, <2>3, <2>5, SkippedDetects
  <2>. QED
    BY <2>4, <2>5
<1>. QED
  BY <1>2, <1>3, <1>4, <1>5, <1>6, <1>7 DEF apply_report

LEMMA MarkedDetects ==
    ASSUME StoreTypeOK, NEW w \in Nat, mark_watch_registered(w)
    PROVE  /\ Detects(0) /\ (Ready' => Ready)
           /\ row'.watch = IF row.watch = NULL THEN w ELSE row.watch
           /\ dead' = dead /\ outbox \subseteq outbox'
<1>. DEFINE u == [row EXCEPT !.watch = w]
<1>1. row \in Deposit /\ Found(row) /\ (row.watch = NULL) \in BOOLEAN
  BY DEF StoreTypeOK, Found
<1>2. u.status = row.status /\ u.confirmed = row.confirmed /\ u.watch = w
  BY <1>1 DEF Deposit
<1>3. Transition(row, row.watch = NULL, u, "watch_registered", {})
  BY DEF mark_watch_registered
<1>. HIDE DEF u
<1>4. \/ /\ row.watch = NULL /\ row' = u /\ event_seq' = event_seq + 1
         /\ timeline' = Append(timeline, "watch_registered")
         /\ dead' = dead /\ outbox \subseteq outbox'
         /\ \A k \in {} : OutboxJob(k, event_seq + 1) \in outbox'
      \/ ~(row.watch = NULL) /\ row' = row /\ UNCHANGED <<timeline, outbox, dead, locked>>
  BY <1>1, <1>3, LocatedFacts, Zenon
<1>5. CASE row.watch = NULL
  <2>1. Detects(0) /\ (Ready' => Ready)
    BY <1>1, <1>2, <1>4, <1>5, RecordedDetects
  <2>. QED
    BY <1>2, <1>4, <1>5, <2>1
<1>6. CASE ~(row.watch = NULL)
  BY <1>1, <1>4, <1>6, SkippedDetects
<1>. QED
  BY <1>5, <1>6

\* The ways out of `open` and the operator's way back to `paid`.
LEMMA EndedDetects ==
    ASSUME StoreTypeOK,
           \/ fail_open
           \/ apply_expired(row) /\ MayExpire
           \/ retry_settlement /\ row.status = "failed"
    PROVE  /\ Detects(0) /\ (Ready' => Ready)
           /\ row'.status \notin Open /\ row'.watch = row.watch
           /\ dead' = dead /\ outbox \subseteq outbox'
<1>1. row \in Deposit /\ Found(row) /\ (row.status \in Open) \in BOOLEAN
      /\ (row.status = "failed") \in BOOLEAN
  BY DEF StoreTypeOK, Found
<1>2. CASE fail_open
  <2>. DEFINE u == [row EXCEPT !.status = "failed", !.failure = "watch_rejected"]
  <2>1. u.status = "failed" /\ u.watch = row.watch
    BY <1>1 DEF Deposit
  <2>2. Transition(row, row.status \in Open, u, "failed", {})
    BY <1>2 DEF fail_open
  <2>. HIDE DEF u
  <2>3. \/ /\ row.status \in Open /\ row' = u /\ event_seq' = event_seq + 1
           /\ timeline' = Append(timeline, "failed")
           /\ dead' = dead /\ outbox \subseteq outbox'
           /\ \A k \in {} : OutboxJob(k, event_seq + 1) \in outbox'
        \/ ~(row.status \in Open) /\ row' = row /\ UNCHANGED <<timeline, outbox, dead, locked>>
    BY <1>1, <2>2, LocatedFacts, Zenon
  <2>4. CASE row.status \in Open
    <3>1. Detects(0) /\ (Ready' => Ready)
      BY <1>1, <2>1, <2>3, <2>4, RecordedDetects DEF Open
    <3>. QED
      BY <2>1, <2>3, <2>4, <3>1 DEF Open
  <2>5. CASE ~(row.status \in Open)
    BY <1>1, <2>3, <2>5, SkippedDetects
  <2>. QED
    BY <2>4, <2>5
<1>3. CASE apply_expired(row) /\ MayExpire
  <2>. DEFINE u == [row EXCEPT !.status = "expired"]
  <2>1. u.status = "expired" /\ u.watch = row.watch
    BY <1>1 DEF Deposit
  <2>2. Transition(row, row.status \in Open, u, "expired", {})
    BY <1>3 DEF apply_expired
  <2>. HIDE DEF u
  <2>3. \/ /\ row.status \in Open /\ row' = u /\ event_seq' = event_seq + 1
           /\ timeline' = Append(timeline, "expired")
           /\ dead' = dead /\ outbox \subseteq outbox'
           /\ \A k \in {} : OutboxJob(k, event_seq + 1) \in outbox'
        \/ ~(row.status \in Open) /\ row' = row /\ UNCHANGED <<timeline, outbox, dead, locked>>
    BY <1>1, <2>2, LocatedFacts, Zenon
  <2>4. CASE row.status \in Open
    <3>1. Detects(0) /\ (Ready' => Ready)
      BY <1>1, <1>3, <2>1, <2>3, <2>4, RecordedDetects DEF Open
    <3>. QED
      BY <2>1, <2>3, <2>4, <3>1 DEF Open
  <2>5. CASE ~(row.status \in Open)
    BY <1>1, <2>3, <2>5, SkippedDetects
  <2>. QED
    BY <2>4, <2>5
<1>4. CASE retry_settlement /\ row.status = "failed"
  <2>. DEFINE u == [row EXCEPT !.status = "paid", !.job = NULL, !.failure = "none"]
  <2>1. u.status = "paid" /\ u.watch = row.watch /\ u.confirmed = row.confirmed
    BY <1>1 DEF Deposit
  <2>2. Transition(row, row.status = "failed", u, "settlement_retried", {"submit_execute"})
    BY <1>4 DEF retry_settlement
  <2>. HIDE DEF u
  <2>3. \/ /\ row.status = "failed" /\ row' = u /\ event_seq' = event_seq + 1
           /\ timeline' = Append(timeline, "settlement_retried")
           /\ dead' = dead /\ outbox \subseteq outbox'
           /\ \A k \in {"submit_execute"} : OutboxJob(k, event_seq + 1) \in outbox'
        \/ ~(row.status = "failed") /\ row' = row /\ UNCHANGED <<timeline, outbox, dead, locked>>
    BY <1>1, <2>2, LocatedFacts, Zenon
  <2>4. Detects(0) /\ (Ready' => Ready)
    BY <1>1, <1>4, <2>1, <2>3, RecordedDetects DEF Open
  <2>. QED
    BY <1>4, <2>1, <2>3, <2>4 DEF Open
<1>. QED
  BY <1>2, <1>3, <1>4

-----------------------------------------------------------------------------
(* The processes only take the store's steps                               *)

LEMMA FilledRow ==
    ASSUME DetectionInv, NEW a \in Actors, actor[a].step = "apply"
    PROVE  /\ Filled(a) \in Located /\ Found(Filled(a))
           /\ Filled(a).watch \in {row.watch, actor[a].report.watch}
           /\ actor[a].report \in Report
<1>1. /\ row \in Deposit /\ actor[a].report \in Report /\ actor[a].report.watch \in Watches
      /\ actor[a].report.watch \in Nat
  BY DEF DetectionInv, StoreInv, StoreTypeOK, TypeOK, ReportsAreTrue, IsTrue, WatchesAreTrue, Report
<1>. DEFINE d == [row EXCEPT !.watch = actor[a].report.watch]
<1>2. /\ d \in Deposit /\ d.status = row.status /\ d.confirmed = row.confirmed
      /\ d.watch = actor[a].report.watch
  BY <1>1 DEF Deposit
<1>3. row.watch = NULL => d \in Located
  BY <1>1 DEF Located
<1>4. row \in Located
  BY DEF Located
<1>5. Filled(a) = row \/ (row.watch = NULL /\ Filled(a) = d)
  BY DEF Filled
<1>. HIDE DEF d
<1>. QED
  BY <1>1, <1>2, <1>3, <1>4, <1>5 DEF Found

LEMMA AppliesStore ==
    ASSUME DetectionInv, NEW a \in Actors, ApplyReport(a)
    PROVE  DetectionStep
<1>1. actor[a].step = "apply" /\ apply_report(Filled(a), actor[a].report)
  BY DEF ApplyReport
<1>2. PICK e \in Report : e = actor[a].report /\ IsTrue(e)
  BY <1>1, FilledRow DEF DetectionInv, ReportsAreTrue
<1>3. PICK d \in Located : d = Filled(a)
  BY <1>1, FilledRow
<1>4. apply_report(d, e)
  BY <1>1, <1>2, <1>3
<1>5. e.type \in {"payment.confirmed", "threshold.reached"} => e.total \in Totals
  <2>1. e.total \in Nat /\ watches[e.watch].total \in Nat /\ onchain \in Nat /\ MaxOnchain \in Nat
    <3>1. MaxOnchain \in Nat /\ e.total \in Nat
      BY DEF Report
    <3>2. watches \in Seq(WatchType) /\ onchain \in Nat /\ e.watch \in 1..Len(watches)
      BY <1>2 DEF DetectionInv, TypeOK, IsTrue, Ids, WatchType, Watch
    <3>3. watches[e.watch] \in WatchType
      BY <3>2
    <3>. QED
      BY <3>1, <3>2, <3>3 DEF WatchType
  <2>2. e.total <= watches[e.watch].total /\ watches[e.watch].total <= onchain /\ onchain <= MaxOnchain
    BY <1>2 DEF DetectionInv, WatchesAreTrue, IsTrue
  <2>3. e.type \in {"payment.confirmed", "threshold.reached"} => e.total \in 1..MaxOnchain
    BY <1>2, <2>1, <2>2 DEF IsTrue
  <2>. QED
    BY <2>3
<1>. QED
  BY <1>4, <1>5, Zenon DEF apply_report, DetectionStep

LEMMA StoreSteps ==
    ASSUME DetectionInv, Next
    PROVE  StoreNext \/ UNCHANGED storeVars
<1>0. StoreTypeOK /\ WorkersAreRight /\ WatchesAreTrue
  BY DEF DetectionInv, StoreInv
<1>1. ASSUME NEW w \in Workers, WorkerNext(w)
      PROVE  StoreNext \/ UNCHANGED storeVars
  <2>1. CASE ClaimJob(w)
    BY <2>1, Zenon DEF ClaimJob, OutboxStep, StoreNext
  <2>2. CASE ExpireUnregistered(w)
    <3>1. row \in Located
      BY DEF Located
    <3>. QED
      BY <2>2, <3>1, Zenon DEF ExpireUnregistered, DetectionStep, StoreNext
  <2>3. CASE MarkRegistered(w)
    <3>1. worker[w].watch \in Watches
      BY <1>0, <2>3 DEF MarkRegistered, WorkersAreRight, WatchesAreTrue
    <3>. QED
      BY <2>3, <3>1, Zenon DEF MarkRegistered, DetectionStep, StoreNext
  <2>4. CASE RecordRejection(w)
    BY <2>4, Zenon DEF RecordRejection, DetectionStep, StoreNext
  <2>5. CASE FinishJob(w)
    BY <1>0, <2>5, FinishedRow DEF FinishJob, StoreNext
  <2>6. CASE LoadDeposit(w) \/ CreateAccepted(w) \/ CreateAnswerLost(w) \/ CreateRejected(w)
             \/ AbandonJob(w)
    BY <2>6, Zenon DEF LoadDeposit, CreateAccepted, CreateAnswerLost, CreateRejected, AbandonJob
  <2>. QED
    BY <1>1, <2>1, <2>2, <2>3, <2>4, <2>5, <2>6 DEF WorkerNext
<1>2. ASSUME NEW r \in outbox, LockExpires(r)
      PROVE  StoreNext
  BY <1>2, Zenon DEF LockExpires, OutboxStep, StoreNext
<1>3. ASSUME NEW i \in Ids, IndexerNext(i)
      PROVE  UNCHANGED storeVars
  BY <1>3, Zenon DEF IndexerNext, IndexerPending, IndexerConfirm, IndexerOrphan, IndexerExpire,
         IndexerCancel, IndexerLose
<1>4. ASSUME NEW a \in Actors, ApplyReport(a) \/ ActorAborts(a)
      PROVE  StoreNext \/ UNCHANGED storeVars
  BY <1>4, AppliesStore, Zenon DEF ActorAborts, StoreNext
<1>5. CASE ExpireOverdue
  <2>1. row \in Located
    BY DEF Located
  <2>. QED
    BY <1>5, <2>1, Zenon DEF ExpireOverdue, DetectionStep, StoreNext
<1>6. CASE OperatorRetry
  BY <1>6, Zenon DEF OperatorRetry, SettlementStep, StoreNext
<1>7. CASE \/ Pay \/ TimePasses
           \/ \E h \in Handlers, e \in sent : ReceiveEvent(h, e)
           \/ \E p \in Reconcilers : SelectStale(p) \/ PollWatch(p)
  BY <1>7, Zenon DEF Pay, TimePasses, ReceiveEvent, SelectStale, PollWatch
<1>. QED
  BY <1>1, <1>2, <1>3, <1>4, <1>5, <1>6, <1>7 DEF Next, Ids

-----------------------------------------------------------------------------
(* What each kind of step must show                                        *)

BudgetType == [{"worker", "actor", "indexer", "operator"} -> Nat]

LEMMA Spending ==
    ASSUME TypeOK, NEW kind \in {"worker", "actor", "indexer", "operator"}, Spend(kind)
    PROVE  budget' \in BudgetType
BY DEF TypeOK, Spend, BudgetType

LEMMA WatchTypes ==
    ASSUME TypeOK
    PROVE  /\ watches \in Seq(WatchType) /\ Len(watches) \in Nat
           /\ \A i \in Ids : watches[i] \in WatchType /\ watches[i].total \in Nat
           /\ onchain \in Nat /\ MaxOnchain \in Nat /\ Amount \in Nat /\ Amount >= 1
<1>1. watches \in Seq(WatchType) /\ Len(watches) \in Nat /\ onchain \in Nat
  BY DEF TypeOK, WatchType, Watch
<1>2. \A i \in Ids : watches[i] \in WatchType
  BY <1>1 DEF Ids
<1>3. \A i \in Ids : watches[i].total \in Nat
  BY <1>2 DEF WatchType
<1>4. MaxOnchain \in Nat
  BY DetectionAssumption
<1>5. Amount \in Nat /\ Amount >= 1
  BY StoreAssumption
<1>. QED
  BY <1>1, <1>2, <1>3, <1>4, <1>5

\* Watches are added, their totals grow and no cancellation is taken back; the
\* clock does not go back.
Onwards ==
    /\ watches' \in Seq(WatchType)
    /\ Ids \subseteq Ids' /\ \A i \in Ids : watches'[i].total >= watches[i].total
    /\ \A i \in Ids : watches[i].state = "cancelled" => watches'[i].state = "cancelled"
    /\ clock # "open" => clock' # "open"

LEMMA Standstill ==
    ASSUME TypeOK, UNCHANGED <<watches, clock>>
    PROVE  Onwards
BY WatchTypes DEF Onwards, Ids

\* So what was said stays true.
LEMMA ReportStays ==
    ASSUME TypeOK, Onwards, NEW e \in Report, IsTrue(e)
    PROVE  IsTrue(e)'
<1>1. e.watch \in Ids /\ e.watch \in Ids' /\ e.total \in Nat
  BY DEF IsTrue, Onwards, Report
<1>2. watches'[e.watch] \in WatchType /\ watches[e.watch].total \in Nat
  BY <1>1, WatchTypes DEF Onwards, Ids
<1>3. e.total <= watches'[e.watch].total
  <2>1. /\ e.total <= watches[e.watch].total /\ watches'[e.watch].total >= watches[e.watch].total
        /\ watches'[e.watch].total \in Nat
    BY <1>1, <1>2 DEF IsTrue, Onwards, WatchType
  <2>. QED
    BY <1>1, <1>2, <2>1
<1>. QED
  BY <1>1, <1>3 DEF IsTrue, Onwards

LEMMA FundedStays ==
    ASSUME TypeOK, ReadyIsFunded, Onwards, NEW c \in Nat, Detects(c),
           Ready' /\ ~Ready => c >= Amount /\ \E i \in Ids : c <= watches[i].total
    PROVE  ReadyIsFunded'
<1>. SUFFICES ASSUME Ready'
              PROVE  /\ row'.status \notin Open /\ row'.confirmed >= Amount
                     /\ \E i \in Ids' : watches'[i].total >= Amount
  BY DEF ReadyIsFunded
<1>1. ASSUME NEW i \in Ids, watches[i].total >= Amount
      PROVE  \E j \in Ids' : watches'[j].total >= Amount
  <2>1. i \in Ids' /\ watches'[i] \in WatchType /\ watches'[i].total >= watches[i].total
    BY DEF Onwards, Ids
  <2>. QED
    BY <1>1, <2>1, WatchTypes DEF WatchType
<1>2. CASE Ready
  BY <1>1, <1>2 DEF ReadyIsFunded, Detects
<1>3. CASE ~Ready
  <2>1. PICK i \in Ids : c <= watches[i].total
    BY <1>3
  <2>2. c >= Amount /\ watches[i].total >= Amount
    BY <1>3, <2>1, WatchTypes
  <2>. QED
    BY <1>1, <1>3, <2>2 DEF Detects
<1>. QED
  BY <1>2, <1>3

LEMMA ExpiryStays ==
    ASSUME ExpiredAfterExpiry, Onwards, NEW c, Detects(c)
    PROVE  ExpiredAfterExpiry'
<1>1. MayExpire => MayExpire'
  BY DEF MayExpire, Onwards
<1>2. (row.status = "expired" => MayExpire) /\ (row'.status = "expired" => row.status = "expired" \/ MayExpire)
  BY DEF ExpiredAfterExpiry, MayExpire, Ids, Detects
<1>3. (row'.status = "expired" => MayExpire') => ExpiredAfterExpiry'
  BY DEF ExpiredAfterExpiry, MayExpire, Ids
<1>. QED
  BY <1>1, <1>2, <1>3

\* A row that was spared still is, when nobody finishes with another one.
LEMMA SparedStays ==
    ASSUME WatchIsSpared,
           row'.status \in Open /\ row'.watch = NULL => row.status \in Open /\ row.watch = NULL,
           outbox \ dead \subseteq outbox' \ dead',
           \A w \in Workers : worker'[w].step \in {"done", "dead"} =>
               worker[w].step \in {"done", "dead"} /\ worker'[w].seq = worker[w].seq
    PROVE  WatchIsSpared'
<1>. SUFFICES ASSUME row'.status \in Open /\ row'.watch = NULL
              PROVE  \E r \in outbox' : Spared(r)'
  BY DEF WatchIsSpared
<1>1. PICK r \in outbox : Spared(r)
  BY DEF WatchIsSpared
<1>. QED
  BY <1>1 DEF Spared

\* A step of the store that moves no process.
LEMMA QuietStore ==
    ASSUME UNCHANGED storeVars, NEW c
    PROVE  Detects(c) /\ (Ready' => Ready)
BY DEF storeVars, Detects, Ready

LEMMA WorkerKeeps ==
    ASSUME DetectionInv, StoreInv', event_seq \in Nat, event_seq' \in Nat, event_seq' >= event_seq,
           NEW p \in Workers, NEW e \in WorkerType, worker' = [worker EXCEPT ![p] = e],
           UNCHANGED <<actor, sent, inbound, onchain, clock>>, budget' \in BudgetType,
           Onwards, WatchesAreTrue', row'.watch \in {NULL} \cup Ids',
           e.step # "idle" => e.seq \in 1..event_seq,
           e.step = "mark" => e.watch \in Ids',
           e.step = "expire" => clock # "open",
           Detects(0), Ready' => Ready, WatchIsSpared'
    PROVE  DetectionInv'
<1>0. /\ TypeOK /\ WorkersAreRight /\ ReportsAreTrue /\ worker \in [Workers -> WorkerType]
      /\ ReadyIsFunded /\ ExpiredAfterExpiry
  BY DEF DetectionInv, TypeOK, WorkerType
<1>1. worker' \in [Workers -> WorkerType] /\ worker'[p] = e
      /\ \A w \in Workers \ {p} : worker'[w] = worker[w]
  BY <1>0
<1>2. TypeOK'
  BY <1>0, <1>1 DEF TypeOK, StoreInv, WorkerType, WatchType, Watch, BudgetType, Onwards
<1>3. WorkersAreRight'
  <2>1. ASSUME NEW w \in Workers
        PROVE  /\ worker'[w].step # "idle" => worker'[w].seq \in 1..event_seq'
               /\ worker'[w].step = "mark" => worker'[w].watch \in Ids'
               /\ worker'[w].step = "expire" => clock' # "open"
    <3>1. CASE w = p
      BY <1>1, <3>1
    <3>2. CASE w # p
      BY <1>0, <1>1, <3>2 DEF WorkersAreRight, Onwards
    <3>. QED
      BY <3>1, <3>2
  <2>. QED
    BY <2>1 DEF WorkersAreRight
<1>4. ReportsAreTrue'
  <2>1. \A x \in sent' : IsTrue(x)'
    BY <1>0, ReportStays DEF ReportsAreTrue, TypeOK
  <2>2. ASSUME NEW a \in Actors, actor'[a].step = "apply"
        PROVE  IsTrue(actor[a].report)'
    <3>1. PICK x \in Report : x = actor[a].report
      BY <1>0 DEF TypeOK
    <3>2. IsTrue(x)
      BY <1>0, <2>2, <3>1 DEF ReportsAreTrue
    <3>3. IsTrue(x)'
      BY <1>0, <3>2, ReportStays
    <3>. QED
      BY <3>1, <3>3 DEF IsTrue
  <2>. QED
    BY <1>0, <2>1, <2>2 DEF ReportsAreTrue, Onwards, Actors
<1>5. ReadyIsFunded' /\ ExpiredAfterExpiry'
  BY <1>0, FundedStays, ExpiryStays
<1>. QED
  BY <1>2, <1>3, <1>4, <1>5 DEF DetectionInv

-----------------------------------------------------------------------------
(* Workers                                                                 *)

\* The steps of a worker that touch neither the store nor the indexer.
LEMMA WorkerMoves ==
    ASSUME DetectionInv, NEW p \in Workers, NEW step \in WorkerStep,
           worker[p].step # "idle", worker' = [worker EXCEPT ![p].step = step],
           UNCHANGED <<storeVars, actor, watches, sent, inbound, onchain, clock>>,
           budget' \in BudgetType,
           step # "mark", step = "expire" => clock # "open",
           step \in {"done", "dead"} => ~(row.status \in Open /\ row.watch = NULL)
    PROVE  DetectionInv'
<1>0. /\ TypeOK /\ WorkersAreRight /\ WatchesAreTrue /\ StoreInv /\ WatchIsSpared
      /\ worker \in [Workers -> WorkerType]
  BY DEF DetectionInv, TypeOK, WorkerType
<1>. DEFINE e == [worker[p] EXCEPT !.step = step]
<1>1. e \in WorkerType /\ e.step = step /\ e.seq = worker[p].seq /\ worker' = [worker EXCEPT ![p] = e]
  BY <1>0 DEF WorkerType
<1>. HIDE DEF e
<1>2. StoreInv' /\ event_seq \in Nat /\ event_seq' \in Nat /\ event_seq' >= event_seq
  BY <1>0, StoreGrows
<1>3. Onwards /\ Detects(0) /\ (Ready' => Ready)
  BY <1>0, Standstill, QuietStore
<1>4. WatchesAreTrue' /\ row'.watch \in {NULL} \cup Ids'
  BY <1>0 DEF WatchesAreTrue, WorkersAreRight, Ids, storeVars
<1>5. WatchIsSpared'
  <2>1. CASE step \in {"done", "dead"}
    BY <2>1 DEF WatchIsSpared, storeVars
  <2>2. CASE step \notin {"done", "dead"}
    <3>1. \A w \in Workers : worker'[w].step \in {"done", "dead"} =>
               worker[w].step \in {"done", "dead"} /\ worker'[w].seq = worker[w].seq
      BY <1>0, <1>1, <2>2
    <3>. QED
      BY <1>0, <3>1, SparedStays DEF storeVars
  <2>. QED
    BY <2>1, <2>2
<1>6. e.step # "idle" => e.seq \in 1..event_seq
  BY <1>0, <1>1 DEF WorkersAreRight
<1>. QED
  BY <1>1, <1>2, <1>3, <1>4, <1>5, <1>6, WorkerKeeps

LEMMA ClaimPreserves ==
    ASSUME DetectionInv, NEW p \in Workers, ClaimJob(p)
    PROVE  DetectionInv'
<1>0. /\ TypeOK /\ WorkersAreRight /\ WatchesAreTrue /\ StoreInv /\ WatchIsSpared
      /\ worker \in [Workers -> WorkerType]
  BY DEF DetectionInv, TypeOK, WorkerType
<1>1. PICK r \in outbox :
        /\ claim(r)
        /\ worker' = [worker EXCEPT ![p] = [IdleWorker EXCEPT !.step = "load", !.seq = r.seq]]
  BY DEF ClaimJob
<1>2. r.seq \in 1..event_seq /\ r.seq \in Nat
  <2>1. r.seq \in 1..event_seq
    BY <1>0, Zenon DEF StoreInv, RowsHaveCauses, event_seq
  <2>2. event_seq \in Nat
    BY <1>0 DEF StoreInv, StoreTypeOK, event_seq
  <2>. QED
    BY <2>1, <2>2
<1>. DEFINE e == [IdleWorker EXCEPT !.step = "load", !.seq = r.seq]
<1>3. e \in WorkerType /\ e.step = "load" /\ e.seq = r.seq
  BY <1>2 DEF WorkerType, IdleWorker, WorkerStep, NULL
<1>. HIDE DEF e
<1>4. /\ UNCHANGED <<row, timeline, outbox, dead, actor, watches, sent, inbound, onchain, clock, budget>>
      /\ StoreNext
  BY <1>1 DEF ClaimJob, claim, indexerVars, worldVars, StoreNext, OutboxStep
<1>5. StoreInv' /\ event_seq \in Nat /\ event_seq' \in Nat /\ event_seq' >= event_seq
  BY <1>0, <1>4, StoreGrows
<1>6. Onwards /\ Detects(0) /\ (Ready' => Ready) /\ budget' \in BudgetType
  BY <1>0, <1>4, Standstill DEF Detects, Ready, TypeOK, BudgetType
<1>7. WatchesAreTrue' /\ row'.watch \in {NULL} \cup Ids'
  BY <1>0, <1>4 DEF WatchesAreTrue, WorkersAreRight, Ids
<1>8. WatchIsSpared'
  <2>1. \A w \in Workers : worker'[w].step \in {"done", "dead"} =>
             worker[w].step \in {"done", "dead"} /\ worker'[w].seq = worker[w].seq
    BY <1>0, <1>1, <1>3 DEF e
  <2>. QED
    BY <1>0, <1>4, <2>1, SparedStays
<1>9. worker' = [worker EXCEPT ![p] = e]
  BY <1>1 DEF e
<1>. QED
  BY <1>2, <1>3, <1>4, <1>5, <1>6, <1>7, <1>8, <1>9, WorkerKeeps

\* create_watch was accepted: the indexer has a watch, and the worker knows its
\* id or will try again.
LEMMA AcceptPreserves ==
    ASSUME DetectionInv, NEW p \in Workers, worker[p].step = "create",
           NEW step \in {"mark", "retry"}, AcceptWatch(p, step),
           UNCHANGED <<storeVars, actor, sent, inbound, onchain, clock>>, budget' \in BudgetType
    PROVE  DetectionInv'
<1>0. /\ TypeOK /\ WorkersAreRight /\ WatchesAreTrue /\ StoreInv /\ WatchIsSpared
      /\ worker \in [Workers -> WorkerType] /\ clock = "open"
  BY DEF DetectionInv, TypeOK, WorkerType, AcceptWatch
<1>. DEFINE active == {i \in Ids : Active(i)}
            fresh == [state |-> "active", total |-> 0, known |-> TRUE]
<1>1. PICK id \in Watches :
        /\ \/ id \in Ids /\ watches' = watches
           \/ id = Len(watches) + 1 /\ watches' = Append(watches, fresh)
        /\ worker' = [worker EXCEPT ![p].step = step, ![p].watch = id]
  <2>1. CASE active = {}
    BY <2>1 DEF AcceptWatch, Ids
  <2>2. CASE active # {}
    <3>1. (CHOOSE i \in active : TRUE) \in active
      BY <2>2
    <3>. QED
      BY <2>2, <3>1 DEF AcceptWatch, Ids
  <2>. QED
    BY <2>1, <2>2
<1>2. id \in Nat
  BY StoreAssumption
<1>. DEFINE e == [worker[p] EXCEPT !.step = step, !.watch = id]
<1>3. /\ e \in WorkerType /\ e.step = step /\ e.seq = worker[p].seq /\ e.watch = id
      /\ worker' = [worker EXCEPT ![p] = e]
  BY <1>0, <1>1, <1>2 DEF WorkerType, WorkerStep
<1>. HIDE DEF e
<1>4. StoreInv' /\ event_seq \in Nat /\ event_seq' \in Nat /\ event_seq' >= event_seq
  BY <1>0, StoreGrows
<1>5. Onwards /\ WatchesAreTrue' /\ id \in Ids'
  <2>1. CASE id \in Ids /\ watches' = watches
    BY <1>0, <2>1, Standstill DEF WatchesAreTrue, Ids
  <2>2. CASE id = Len(watches) + 1 /\ watches' = Append(watches, fresh)
    <3>1. fresh \in WatchType /\ fresh.total = 0 /\ fresh.state = "active"
      BY DEF WatchType, WatchState
    <3>. HIDE DEF fresh
    <3>2. /\ watches' \in Seq(WatchType) /\ Len(watches') = Len(watches) + 1
          /\ watches'[Len(watches) + 1] = fresh
          /\ \A i \in Ids : watches'[i] = watches[i]
      BY <1>0, <2>2, <3>1, WatchTypes DEF Ids
    <3>3. Ids' = Ids \cup {id} /\ Ids \subseteq Ids' /\ id \in Ids'
      BY <1>0, <2>2, <3>2, WatchTypes DEF Ids
    <3>4. Onwards
      BY <1>0, <3>2, <3>3, WatchTypes DEF Onwards
    <3>5. WatchesAreTrue'
      <4>1. watches'[id] = fresh
        BY <2>2, <3>2
      <4>2. /\ id \in Watches /\ watches'[id].total <= onchain'
            /\ watches'[id].state # "completed" /\ watches'[id].state # "expired"
        BY <1>0, <1>1, <3>1, <4>1, WatchTypes
      <4>3. ASSUME NEW i \in Ids
            PROVE  /\ i \in Watches /\ watches'[i].total <= onchain'
                   /\ watches'[i].state = "completed" => watches'[i].total >= Amount
                   /\ watches'[i].state = "expired" => clock' # "open"
        BY <1>0, <3>2 DEF WatchesAreTrue
      <4>4. onchain' <= MaxOnchain
        BY <1>0 DEF WatchesAreTrue
      <4>. QED
        BY <3>3, <4>2, <4>3, <4>4 DEF WatchesAreTrue
    <3>. QED
      BY <3>3, <3>4, <3>5
  <2>. QED
    BY <1>1, <2>1, <2>2
<1>6. Detects(0) /\ (Ready' => Ready)
  BY QuietStore
<1>7. row'.watch \in {NULL} \cup Ids'
  BY <1>0, <1>5 DEF WorkersAreRight, Onwards, storeVars
<1>8. WatchIsSpared'
  <2>1. \A w \in Workers : worker'[w].step \in {"done", "dead"} =>
             worker[w].step \in {"done", "dead"} /\ worker'[w].seq = worker[w].seq
    BY <1>0, <1>3
  <2>. QED
    BY <1>0, <2>1, SparedStays DEF storeVars
<1>9. e.seq \in 1..event_seq
  BY <1>0, <1>3 DEF WorkersAreRight
<1>. QED
  BY <1>3, <1>4, <1>5, <1>6, <1>7, <1>8, <1>9, WorkerKeeps

\* The steps of a worker that write the deposit.
LEMMA WriterPreserves ==
    ASSUME DetectionInv, NEW p \in Workers, StoreNext,
           ExpireUnregistered(p) \/ MarkRegistered(p) \/ RecordRejection(p)
    PROVE  DetectionInv'
<1>0. /\ TypeOK /\ WorkersAreRight /\ WatchesAreTrue /\ StoreInv /\ StoreTypeOK
      /\ worker \in [Workers -> WorkerType]
  BY DEF DetectionInv, TypeOK, WorkerType, StoreInv
<1>1. PICK step \in {"done", "dead"} : worker' = [worker EXCEPT ![p].step = step]
  BY DEF ExpireUnregistered, MarkRegistered, RecordRejection, Goto
<1>2. /\ worker[p].step # "idle"
      /\ UNCHANGED <<actor, watches, sent, inbound, onchain, clock, budget>>
  BY DEF ExpireUnregistered, MarkRegistered, RecordRejection, indexerVars, worldVars
<1>. DEFINE e == [worker[p] EXCEPT !.step = step]
<1>3. e \in WorkerType /\ e.step = step /\ e.seq = worker[p].seq /\ worker' = [worker EXCEPT ![p] = e]
  BY <1>0, <1>1 DEF WorkerType, WorkerStep
<1>. HIDE DEF e
<1>4. StoreInv' /\ event_seq \in Nat /\ event_seq' \in Nat /\ event_seq' >= event_seq
  BY <1>0, StoreGrows
<1>5. Ids' = Ids /\ Onwards /\ WatchesAreTrue' /\ budget' \in BudgetType
  BY <1>0, <1>2, Standstill DEF WatchesAreTrue, Ids, TypeOK, BudgetType
<1>6. /\ Detects(0) /\ (Ready' => Ready) /\ row'.watch \in {NULL} \cup Ids
      /\ ~(row'.status \in Open /\ row'.watch = NULL)
  <2>1. CASE MarkRegistered(p)
    <3>1. /\ worker[p].watch \in Ids /\ worker[p].watch \in Nat /\ worker[p].watch # NULL
          /\ mark_watch_registered(worker[p].watch)
      BY <1>0, <2>1, WatchTypes DEF MarkRegistered, WorkersAreRight, WorkerType, Ids, NULL
    <3>2. PICK w \in Nat : w = worker[p].watch /\ mark_watch_registered(w)
      BY <3>1
    <3>3. /\ Detects(0) /\ (Ready' => Ready)
          /\ row'.watch = IF row.watch = NULL THEN w ELSE row.watch
      BY <1>0, <3>2, MarkedDetects
    <3>. QED
      BY <1>0, <3>1, <3>2, <3>3 DEF WorkersAreRight
  <2>2. CASE ExpireUnregistered(p) \/ RecordRejection(p)
    <3>1. fail_open \/ (apply_expired(row) /\ MayExpire)
      BY <1>0, <2>2 DEF ExpireUnregistered, RecordRejection, WorkersAreRight, MayExpire
    <3>2. /\ Detects(0) /\ (Ready' => Ready)
          /\ row'.status \notin Open /\ row'.watch = row.watch
      BY <1>0, <3>1, EndedDetects
    <3>. QED
      BY <1>0, <3>2 DEF WorkersAreRight
  <2>. QED
    BY <2>1, <2>2
<1>7. WatchIsSpared'
  BY <1>6 DEF WatchIsSpared
<1>8. e.seq \in 1..event_seq
  BY <1>0, <1>2, <1>3 DEF WorkersAreRight
<1>. QED
  BY <1>1, <1>2, <1>3, <1>4, <1>5, <1>6, <1>7, <1>8, WorkerKeeps

\* A worker takes away its own row, which was not the spared one.
LEMMA FinishPreserves ==
    ASSUME DetectionInv, NEW p \in Workers, StoreNext \/ UNCHANGED storeVars, FinishJob(p)
    PROVE  DetectionInv'
<1>0. /\ TypeOK /\ WorkersAreRight /\ WatchesAreTrue /\ StoreInv /\ StoreTypeOK /\ WatchIsSpared
      /\ worker \in [Workers -> WorkerType]
  BY DEF DetectionInv, TypeOK, WorkerType, StoreInv
<1>1. IdleWorker \in WorkerType /\ IdleWorker.step = "idle" /\ worker' = [worker EXCEPT ![p] = IdleWorker]
  BY DEF WorkerType, IdleWorker, WorkerStep, NULL, FinishJob
<1>2. UNCHANGED <<row, timeline, actor, watches, sent, inbound, onchain, clock, budget>>
  BY DEF FinishJob, delete_row, retry_later, mark_dead, indexerVars, worldVars
<1>3. StoreInv' /\ event_seq \in Nat /\ event_seq' \in Nat /\ event_seq' >= event_seq
  BY <1>0, StoreGrows
<1>4. /\ Onwards /\ Detects(0) /\ (Ready' => Ready) /\ budget' \in BudgetType
      /\ WatchesAreTrue' /\ row'.watch \in {NULL} \cup Ids'
  BY <1>0, <1>2, Standstill DEF Detects, Ready, TypeOK, BudgetType, WatchesAreTrue, WorkersAreRight, Ids
<1>5. WatchIsSpared'
  <2>. SUFFICES ASSUME row'.status \in Open /\ row'.watch = NULL
                PROVE  \E r \in outbox' : Spared(r)'
    BY DEF WatchIsSpared
  <2>1. PICK r \in outbox : Spared(r)
    BY <1>0, <1>2 DEF WatchIsSpared
  <2>2. r \in outbox' \ dead'
    <3>1. RowOf(p).seq = worker[p].seq
      BY DEF RowOf, OutboxJob
    <3>2. CASE worker[p].step \in {"done", "dead"}
      BY <2>1, <3>1, <3>2 DEF Spared, FinishJob, delete_row, mark_dead, retry_later
    <3>3. CASE worker[p].step \notin {"done", "dead"}
      BY <2>1, <3>3 DEF Spared, FinishJob, retry_later
    <3>. QED
      BY <3>2, <3>3
  <2>3. \A w \in Workers : worker'[w].step \in {"done", "dead"} => worker'[w] = worker[w]
    BY <1>0, <1>1
  <2>. QED
    BY <2>1, <2>2, <2>3 DEF Spared
<1>. QED
  BY <1>1, <1>2, <1>3, <1>4, <1>5, WorkerKeeps

LEMMA AbandonPreserves ==
    ASSUME DetectionInv, NEW p \in Workers, AbandonJob(p)
    PROVE  DetectionInv'
<1>0. /\ TypeOK /\ WorkersAreRight /\ WatchesAreTrue /\ StoreInv /\ WatchIsSpared
      /\ worker \in [Workers -> WorkerType]
  BY DEF DetectionInv, TypeOK, WorkerType
<1>1. /\ worker[p].step # "idle" /\ budget' \in BudgetType
      /\ UNCHANGED <<storeVars, actor, watches, sent, inbound, onchain, clock>>
  BY <1>0, Spending DEF AbandonJob, indexerVars, worldVars
<1>2. CASE Goto(p, "retry")
  BY <1>1, <1>2, WorkerMoves DEF Goto, WorkerStep
<1>3. CASE worker' = [worker EXCEPT ![p] = IdleWorker]
  <2>1. IdleWorker \in WorkerType /\ IdleWorker.step = "idle"
    BY DEF WorkerType, IdleWorker, WorkerStep, NULL
  <2>2. StoreInv' /\ event_seq \in Nat /\ event_seq' \in Nat /\ event_seq' >= event_seq
    BY <1>0, <1>1, StoreGrows
  <2>3. /\ Onwards /\ Detects(0) /\ (Ready' => Ready)
    BY <1>0, <1>1, Standstill, QuietStore
  <2>4. WatchesAreTrue' /\ row'.watch \in {NULL} \cup Ids'
    BY <1>0, <1>1 DEF WatchesAreTrue, WorkersAreRight, Ids, storeVars
  <2>5. WatchIsSpared'
    <3>1. \A w \in Workers : worker'[w].step \in {"done", "dead"} =>
               worker[w].step \in {"done", "dead"} /\ worker'[w].seq = worker[w].seq
      BY <1>0, <1>3, <2>1
    <3>. QED
      BY <1>0, <1>1, <3>1, SparedStays DEF storeVars
  <2>. QED
    BY <1>1, <1>3, <2>1, <2>2, <2>3, <2>4, <2>5, WorkerKeeps
<1>. QED
  BY <1>2, <1>3 DEF AbandonJob

LEMMA WorkerPreserves ==
    ASSUME DetectionInv, NEW p \in Workers, WorkerNext(p), StoreNext \/ UNCHANGED storeVars
    PROVE  DetectionInv'
<1>0. TypeOK /\ worker \in [Workers -> WorkerType] /\ budget \in BudgetType
  BY DEF DetectionInv, TypeOK, WorkerType, BudgetType
<1>1. CASE LoadDeposit(p)
  <2>1. PICK step \in {"done", "expire", "create"} :
          /\ worker' = [worker EXCEPT ![p].step = step]
          /\ step = "done" => row.watch # NULL \/ row.status \in Terminal
          /\ step = "expire" => clock # "open"
    BY <1>1 DEF LoadDeposit, Goto
  <2>2. /\ UNCHANGED <<storeVars, actor, watches, sent, inbound, onchain, clock, budget>>
        /\ worker[p].step # "idle"
    BY <1>1 DEF LoadDeposit, indexerVars, worldVars
  <2>3. step = "done" => ~(row.status \in Open /\ row.watch = NULL)
    BY <2>1 DEF Open, Terminal
  <2>4. step \in WorkerStep
    BY DEF WorkerStep
  <2>. QED
    BY <1>0, <2>1, <2>2, <2>3, <2>4, WorkerMoves
<1>2. CASE CreateAccepted(p)
  BY <1>0, <1>2, AcceptPreserves DEF CreateAccepted, worldVars
<1>3. CASE CreateAnswerLost(p)
  BY <1>0, <1>3, Spending, AcceptPreserves DEF CreateAnswerLost, worldVars
<1>4. CASE CreateRejected(p)
  <2>1. /\ UNCHANGED <<storeVars, actor, watches, sent, inbound, onchain, clock>>
        /\ worker[p].step # "idle" /\ worker' = [worker EXCEPT ![p].step = "reject"]
    BY <1>4 DEF CreateRejected, Goto, indexerVars, worldVars
  <2>2. budget' \in BudgetType
    BY <1>0, <1>4, Spending DEF CreateRejected
  <2>. QED
    BY <2>1, <2>2, WorkerMoves DEF WorkerStep
<1>5. CASE ExpireUnregistered(p) \/ MarkRegistered(p) \/ RecordRejection(p)
  <2>1. StoreNext
    <3>1. row \in Located
      BY DEF Located
    <3>2. worker[p].step = "mark" => worker[p].watch \in Watches
      BY DEF DetectionInv, WorkersAreRight, WatchesAreTrue
    <3>. QED
      BY <1>5, <3>1, <3>2, Zenon DEF ExpireUnregistered, MarkRegistered, RecordRejection,
         DetectionStep, StoreNext
  <2>. QED
    BY <1>5, <2>1, WriterPreserves
<1>. QED
  BY <1>1, <1>2, <1>3, <1>4, <1>5, ClaimPreserves, FinishPreserves, AbandonPreserves DEF WorkerNext

-----------------------------------------------------------------------------
(* The indexer, the payer and time                                         *)

LEMMA WorldKeeps ==
    ASSUME DetectionInv, UNCHANGED <<storeVars, worker, actor, inbound>>,
           Onwards, WatchesAreTrue', onchain' \in Nat, clock' \in Clock, budget' \in BudgetType,
           sent \subseteq sent', sent' \subseteq Report, \A e \in sent' : e \in sent \/ IsTrue(e)'
    PROVE  DetectionInv'
<1>0. /\ TypeOK /\ WorkersAreRight /\ ReportsAreTrue /\ StoreInv
      /\ ReadyIsFunded /\ ExpiredAfterExpiry /\ WatchIsSpared
  BY DEF DetectionInv
<1>1. StoreInv' /\ event_seq' = event_seq
  BY <1>0, StoreGrows DEF storeVars, event_seq
<1>2. TypeOK'
  BY <1>0, <1>1 DEF TypeOK, StoreInv, WatchType, Watch, BudgetType, Onwards
<1>3. WorkersAreRight'
  BY <1>0, <1>1 DEF WorkersAreRight, Onwards, storeVars
<1>4. ReportsAreTrue'
  <2>1. \A x \in sent' : IsTrue(x)'
    BY <1>0, ReportStays DEF ReportsAreTrue, TypeOK
  <2>2. ASSUME NEW a \in Actors, actor'[a].step = "apply"
        PROVE  IsTrue(actor[a].report)'
    <3>1. PICK x \in Report : x = actor[a].report
      BY <1>0 DEF TypeOK
    <3>2. IsTrue(x)
      BY <1>0, <2>2, <3>1 DEF ReportsAreTrue
    <3>3. IsTrue(x)'
      BY <1>0, <3>2, ReportStays
    <3>. QED
      BY <3>1, <3>3 DEF IsTrue
  <2>. QED
    BY <1>0, <2>1, <2>2 DEF ReportsAreTrue, Onwards, Actors
<1>5. ReadyIsFunded' /\ ExpiredAfterExpiry'
  <2>1. Detects(0) /\ (Ready' => Ready)
    BY QuietStore
  <2>. QED
    BY <1>0, <2>1, FundedStays, ExpiryStays
<1>6. WatchIsSpared'
  BY <1>0 DEF WatchIsSpared, Spared, storeVars
<1>. QED
  BY <1>1, <1>2, <1>3, <1>4, <1>5, <1>6 DEF DetectionInv

\* One watch is replaced by one that has counted no less.
LEMMA WatchReplaced ==
    ASSUME DetectionInv, NEW i \in Ids, NEW v \in WatchType, watches' = [watches EXCEPT ![i] = v],
           v.total >= watches[i].total, v.total <= onchain,
           v.state = "completed" => v.total >= Amount,
           v.state = "expired" => clock # "open",
           watches[i].state = "cancelled" => v.state = "cancelled",
           UNCHANGED <<onchain, clock>>
    PROVE  Onwards /\ WatchesAreTrue' /\ Ids' = Ids /\ watches'[i] = v
<1>0. TypeOK /\ WatchesAreTrue /\ watches \in Seq(WatchType) /\ i \in 1..Len(watches)
  BY WatchTypes DEF DetectionInv, Ids
<1>1. /\ watches' \in Seq(WatchType) /\ Len(watches') = Len(watches) /\ watches'[i] = v
      /\ \A j \in 1..Len(watches) : j # i => watches'[j] = watches[j]
  BY <1>0
<1>2. Ids' = Ids
  BY <1>1 DEF Ids
<1>3. Onwards
  BY <1>0, <1>1, <1>2, WatchTypes DEF Onwards, Ids
<1>4. WatchesAreTrue'
  <2>1. ASSUME NEW j \in Ids
        PROVE  /\ j \in Watches /\ watches'[j].total <= onchain'
               /\ watches'[j].state = "completed" => watches'[j].total >= Amount
               /\ watches'[j].state = "expired" => clock' # "open"
    <3>1. CASE j = i
      BY <1>0, <1>1, <3>1 DEF WatchesAreTrue
    <3>2. CASE j # i
      BY <1>0, <1>1, <3>2 DEF WatchesAreTrue, Ids
    <3>. QED
      BY <3>1, <3>2
  <2>. QED
    BY <1>0, <1>2, <2>1 DEF WatchesAreTrue
<1>. QED
  BY <1>1, <1>2, <1>3, <1>4

LEMMA IndexerPreserves ==
    ASSUME DetectionInv, NEW i \in Ids, IndexerNext(i)
    PROVE  DetectionInv'
<1>0. /\ TypeOK /\ WatchesAreTrue /\ budget \in BudgetType /\ sent \subseteq Report
      /\ onchain \in Nat /\ clock \in Clock
      /\ watches[i] \in WatchType /\ watches[i].total \in Nat /\ i \in Nat
      /\ watches[i].total <= onchain
  BY WatchTypes DEF DetectionInv, TypeOK, BudgetType, WatchesAreTrue, Ids
<1>1. \A type \in EventKind, total \in Nat :
        /\ Event(i, type, total) \in Report /\ Event(i, type, total).watch = i
        /\ Event(i, type, total).type = type /\ Event(i, type, total).total = total
  BY <1>0 DEF Event, Report
<1>2. CASE IndexerPending(i)
  <2>. DEFINE x == Event(i, "payment.pending", watches[i].total)
  <2>1. /\ sent \subseteq sent' /\ sent' \subseteq sent \cup {x}
        /\ UNCHANGED <<storeVars, worker, actor, inbound, watches, onchain, clock, budget>>
    BY <1>2 DEF IndexerPending, worldVars, Send
  <2>2. x \in Report /\ x.watch = i /\ x.type = "payment.pending" /\ x.total = watches[i].total
    BY <1>0, <1>1 DEF EventKind
  <2>. HIDE DEF x
  <2>3. Onwards /\ Ids' = Ids /\ WatchesAreTrue'
    BY <1>0, <2>1, Standstill DEF Ids, WatchesAreTrue
  <2>4. PICK y : y = x
    OBVIOUS
  <2>5. IsTrue(y)'
    BY <1>0, <2>1, <2>2, <2>3, <2>4 DEF IsTrue
  <2>. QED
    BY <1>0, <2>1, <2>2, <2>3, <2>4, <2>5, WorldKeeps
<1>3. CASE IndexerConfirm(i)
  <2>. DEFINE total == watches[i].total + 1
              done == total >= Amount
              v == [state |-> IF done THEN "completed" ELSE "active", total |-> total, known |-> TRUE]
              x == Event(i, "payment.confirmed", total)
              z == Event(i, "threshold.reached", total)
  <2>1. /\ watches' = [watches EXCEPT ![i] = v] /\ watches[i].total < onchain
        /\ watches[i].state = "active"
        /\ sent \subseteq sent' /\ sent' \subseteq sent \cup {x} \cup (IF done THEN {z} ELSE {})
        /\ UNCHANGED <<storeVars, worker, actor, inbound, onchain, clock, budget>>
    BY <1>3 DEF IndexerConfirm, worldVars, Send, Active
  <2>2. /\ v \in WatchType /\ v.total = total /\ total \in Nat /\ total >= 1
        /\ v.state = "completed" => total >= Amount
        /\ v.state # "expired" /\ total <= onchain /\ total >= watches[i].total
    BY <1>0, <2>1 DEF WatchType, WatchState
  <2>3. /\ x \in Report /\ x.watch = i /\ x.type = "payment.confirmed" /\ x.total = total
        /\ z \in Report /\ z.watch = i /\ z.type = "threshold.reached" /\ z.total = total
    BY <1>0, <1>1, <2>2 DEF EventKind
  <2>. HIDE DEF v, x, z
  <2>4. Onwards /\ WatchesAreTrue' /\ Ids' = Ids /\ watches'[i] = v
    BY <2>1, <2>2, WatchReplaced
  <2>5. PICK t \in Nat : t = total
    BY <2>2
  <2>6. PICK y : y = x
    OBVIOUS
  <2>7. PICK u : u = z
    OBVIOUS
  <2>. HIDE DEF total
  <2>8. IsTrue(y)'
    BY <2>2, <2>3, <2>4, <2>5, <2>6 DEF IsTrue
  <2>9. done => IsTrue(u)'
    BY <2>2, <2>3, <2>4, <2>5, <2>7 DEF IsTrue
  <2>10. sent' \subseteq Report /\ sent \subseteq sent' /\ \A e \in sent' : e \in sent \/ IsTrue(e)'
    BY <1>0, <2>1, <2>3, <2>6, <2>7, <2>8, <2>9
  <2>. QED
    BY <1>0, <2>1, <2>4, <2>10, WorldKeeps
<1>4. CASE IndexerOrphan(i)
  <2>. DEFINE x == Event(i, "payment.orphaned", watches[i].total)
  <2>1. /\ sent \subseteq sent' /\ sent' \subseteq sent \cup {x} /\ onchain' = onchain - 1
        /\ \A j \in 1..Len(watches) : watches[j].total < onchain
        /\ UNCHANGED <<storeVars, worker, actor, inbound, watches, clock>>
        /\ budget' \in BudgetType
    BY <1>0, <1>4, Spending DEF IndexerOrphan, Send
  <2>2. x \in Report /\ x.watch = i /\ x.type = "payment.orphaned" /\ x.total = watches[i].total
    BY <1>0, <1>1 DEF EventKind
  <2>. HIDE DEF x
  <2>3. Onwards /\ Ids' = Ids /\ onchain' \in Nat /\ onchain' <= MaxOnchain
    BY <1>0, <2>1, Standstill, WatchTypes DEF Ids, WatchesAreTrue
  <2>4. WatchesAreTrue'
    <3>1. \A j \in Ids : watches[j].total <= onchain'
      BY <1>0, <2>1, WatchTypes DEF Ids
    <3>. QED
      BY <1>0, <2>1, <2>3, <3>1 DEF WatchesAreTrue
  <2>5. PICK y : y = x
    OBVIOUS
  <2>6. IsTrue(y)'
    BY <1>0, <2>1, <2>2, <2>3, <2>5 DEF IsTrue
  <2>. QED
    BY <1>0, <2>1, <2>2, <2>3, <2>4, <2>5, <2>6, WorldKeeps
<1>5. CASE IndexerExpire(i)
  <2>. DEFINE v == [watches[i] EXCEPT !.state = "expired"]
              x == Event(i, "watch.expired", watches[i].total)
  <2>1. /\ watches' = [watches EXCEPT ![i] = v] /\ clock # "open" /\ watches[i].state = "active"
        /\ sent \subseteq sent' /\ sent' \subseteq sent \cup {x}
        /\ UNCHANGED <<storeVars, worker, actor, inbound, onchain, clock, budget>>
    BY <1>5 DEF IndexerExpire, worldVars, Send, Active
  <2>2. v \in WatchType /\ v.state = "expired" /\ v.total = watches[i].total
    BY <1>0 DEF WatchType, WatchState
  <2>7. v.total >= watches[i].total /\ v.total <= onchain
    BY <1>0, <2>2
  <2>3. x \in Report /\ x.watch = i /\ x.type = "watch.expired" /\ x.total = watches[i].total
    BY <1>0, <1>1 DEF EventKind
  <2>. HIDE DEF v, x
  <2>4. Onwards /\ WatchesAreTrue' /\ Ids' = Ids /\ watches'[i] = v
    BY <2>1, <2>2, <2>7, WatchReplaced
  <2>5. PICK y : y = x
    OBVIOUS
  <2>6. IsTrue(y)'
    BY <1>0, <2>1, <2>2, <2>3, <2>4, <2>5 DEF IsTrue
  <2>. QED
    BY <1>0, <2>1, <2>3, <2>4, <2>5, <2>6, WorldKeeps
<1>6. CASE IndexerCancel(i)
  <2>. DEFINE v == [watches[i] EXCEPT !.state = "cancelled"]
  <2>1. /\ watches' = [watches EXCEPT ![i] = v] /\ budget' \in BudgetType
        /\ UNCHANGED <<storeVars, worker, actor, inbound, onchain, clock, sent>>
    BY <1>0, <1>6, Spending DEF IndexerCancel, worldVars
  <2>2. v \in WatchType /\ v.state = "cancelled" /\ v.total = watches[i].total
    BY <1>0 DEF WatchType, WatchState
  <2>3. v.total >= watches[i].total /\ v.total <= onchain
    BY <1>0, <2>2
  <2>. HIDE DEF v
  <2>4. Onwards /\ WatchesAreTrue'
    BY <2>1, <2>2, <2>3, WatchReplaced
  <2>. QED
    BY <1>0, <2>1, <2>4, WorldKeeps
<1>7. CASE IndexerLose(i)
  <2>. DEFINE v == [watches[i] EXCEPT !.known = FALSE]
  <2>1. /\ watches' = [watches EXCEPT ![i] = v] /\ budget' \in BudgetType
        /\ UNCHANGED <<storeVars, worker, actor, inbound, onchain, clock, sent>>
    BY <1>0, <1>7, Spending DEF IndexerLose, worldVars
  <2>2. v \in WatchType /\ v.state = watches[i].state /\ v.total = watches[i].total
    BY <1>0 DEF WatchType, WatchState
  <2>3. /\ v.total >= watches[i].total /\ v.total <= onchain
        /\ v.state = "completed" => v.total >= Amount
        /\ v.state = "expired" => clock # "open"
    BY <1>0, <2>2 DEF WatchesAreTrue
  <2>. HIDE DEF v
  <2>4. Onwards /\ WatchesAreTrue'
    BY <2>1, <2>2, <2>3, WatchReplaced
  <2>. QED
    BY <1>0, <2>1, <2>4, WorldKeeps
<1>. QED
  BY <1>2, <1>3, <1>4, <1>5, <1>6, <1>7 DEF IndexerNext

LEMMA PayerPreserves ==
    ASSUME DetectionInv, Pay \/ TimePasses
    PROVE  DetectionInv'
<1>0. /\ TypeOK /\ WatchesAreTrue /\ budget \in BudgetType /\ sent \subseteq Report
      /\ onchain \in Nat /\ clock \in Clock /\ watches \in Seq(WatchType) /\ MaxOnchain \in Nat
  BY WatchTypes DEF DetectionInv, TypeOK, BudgetType
<1>1. /\ UNCHANGED <<storeVars, worker, actor, watches, sent, inbound, budget>>
      /\ onchain' \in Nat /\ onchain' >= onchain /\ onchain' <= MaxOnchain
      /\ clock' \in Clock /\ (clock # "open" => clock' # "open")
  BY <1>0 DEF Pay, TimePasses, indexerVars, Clock, WatchesAreTrue
<1>2. Ids' = Ids /\ Onwards
  BY <1>0, <1>1, WatchTypes DEF Ids, Onwards
<1>3. WatchesAreTrue'
  <2>1. \A i \in Ids : watches[i].total <= onchain'
    BY <1>0, <1>1, WatchTypes DEF WatchesAreTrue
  <2>. QED
    BY <1>0, <1>1, <1>2, <2>1 DEF WatchesAreTrue
<1>. QED
  BY <1>0, <1>1, <1>2, <1>3, WorldKeeps

-----------------------------------------------------------------------------
(* Handlers and reconcilers                                                *)

LEMMA ActorKeeps ==
    ASSUME DetectionInv, StoreInv', event_seq \in Nat, event_seq' \in Nat, event_seq' >= event_seq,
           NEW p \in Actors, NEW e \in ActorType, actor' = [actor EXCEPT ![p] = e],
           UNCHANGED <<worker, watches, sent, onchain, clock>>, budget' \in BudgetType,
           inbound' \subseteq sent,
           e.step = "apply" => IsTrue(e.report),
           e.step = "poll" => e.report.watch \in Ids,
           p \in Handlers /\ e.step # "idle" => e.step = "apply" /\ e.report \in sent,
           row'.watch \in {NULL} \cup Ids,
           NEW c \in Nat, Detects(c),
           Ready' /\ ~Ready => c >= Amount /\ \E i \in Ids : c <= watches[i].total,
           WatchIsSpared'
    PROVE  DetectionInv'
<1>0. /\ TypeOK /\ WorkersAreRight /\ ReportsAreTrue /\ WatchesAreTrue
      /\ actor \in [Actors -> ActorType] /\ ReadyIsFunded /\ ExpiredAfterExpiry
  BY DEF DetectionInv, TypeOK, ActorType
<1>1. actor' \in [Actors -> ActorType] /\ actor'[p] = e
      /\ \A a \in Actors \ {p} : actor'[a] = actor[a]
  BY <1>0
<1>2. Onwards /\ Ids' = Ids
  BY <1>0, Standstill DEF Ids
<1>3. TypeOK'
  BY <1>0, <1>1 DEF TypeOK, StoreInv, ActorType, BudgetType
<1>4. WatchesAreTrue' /\ WorkersAreRight'
  <2>1. WatchesAreTrue'
    BY <1>0, <1>2 DEF WatchesAreTrue
  <2>2. ASSUME NEW w \in Workers, worker[w].step # "idle"
        PROVE  worker[w].seq \in 1..event_seq'
    BY <1>0, <2>2 DEF WorkersAreRight
  <2>. QED
    BY <1>0, <1>2, <2>1, <2>2 DEF WorkersAreRight
<1>5. ReportsAreTrue'
  <2>1. ASSUME NEW x, IsTrue(x) PROVE IsTrue(x)'
    BY <1>2, <2>1 DEF IsTrue
  <2>2. ASSUME NEW a \in Actors
        PROVE  /\ actor'[a].step = "apply" => IsTrue(actor[a].report)'
               /\ actor'[a].step = "poll" => actor'[a].report.watch \in Ids'
    <3>1. CASE a = p
      BY <1>1, <1>2, <3>1 DEF IsTrue
    <3>2. CASE a # p
      BY <1>0, <1>1, <1>2, <3>2 DEF ReportsAreTrue, IsTrue
    <3>. QED
      BY <3>1, <3>2
  <2>3. ASSUME NEW h \in Handlers, actor'[h].step # "idle"
        PROVE  actor'[h].step = "apply" /\ actor'[h].report \in sent'
    <3>1. h \in Actors
      BY DEF Actors
    <3>2. CASE h = p
      BY <1>1, <2>3, <3>2
    <3>3. CASE h # p
      BY <1>0, <1>1, <2>3, <3>1, <3>3 DEF ReportsAreTrue
    <3>. QED
      BY <3>2, <3>3
  <2>4. \A x \in sent' : IsTrue(x)'
    BY <1>0, <2>1 DEF ReportsAreTrue
  <2>. QED
    BY <2>2, <2>3, <2>4 DEF ReportsAreTrue
<1>6. ReadyIsFunded' /\ ExpiredAfterExpiry'
  BY <1>0, <1>2, FundedStays, ExpiryStays
<1>. QED
  BY <1>3, <1>4, <1>5, <1>6 DEF DetectionInv

\* The steps of an actor that do not touch the store.
LEMMA ActorMoves ==
    ASSUME DetectionInv, NEW p \in Actors, NEW e \in ActorType, actor' = [actor EXCEPT ![p] = e],
           UNCHANGED <<storeVars, worker, watches, sent, inbound, onchain, clock>>,
           budget' \in BudgetType,
           e.step = "apply" => IsTrue(e.report),
           e.step = "poll" => e.report.watch \in Ids,
           p \in Handlers /\ e.step # "idle" => e.step = "apply" /\ e.report \in sent
    PROVE  DetectionInv'
<1>0. TypeOK /\ StoreInv /\ WorkersAreRight /\ WatchIsSpared
  BY DEF DetectionInv
<1>1. StoreInv' /\ event_seq \in Nat /\ event_seq' \in Nat /\ event_seq' >= event_seq
  BY <1>0, StoreGrows
<1>2. Detects(0) /\ (Ready' => Ready)
  BY QuietStore
<1>3. WatchIsSpared' /\ row'.watch \in {NULL} \cup Ids /\ inbound' \subseteq sent
  BY <1>0 DEF WatchIsSpared, Spared, WorkersAreRight, TypeOK, storeVars
<1>. QED
  BY <1>1, <1>2, <1>3, ActorKeeps

LEMMA IdleActors ==
    ASSUME DetectionInv
    PROVE  IdleActor \in ActorType /\ IdleActor.step = "idle"
BY DEF IdleActor, ActorType, NoReport, Report, NULL

LEMMA ApplyPreserves ==
    ASSUME DetectionInv, NEW p \in Actors, ApplyReport(p)
    PROVE  DetectionInv'
<1>0. /\ TypeOK /\ StoreInv /\ StoreTypeOK /\ RowsHaveCauses /\ WorkersAreRight /\ WatchIsSpared
      /\ ReportsAreTrue /\ row \in Deposit /\ budget \in BudgetType
  BY DEF DetectionInv, StoreInv, StoreTypeOK, TypeOK, BudgetType
<1>1. /\ actor[p].step = "apply" /\ apply_report(Filled(p), actor[p].report)
      /\ inbound' = inbound \cup (IF p \in Handlers THEN {actor[p].report} ELSE {})
      /\ actor' = [actor EXCEPT ![p] = IdleActor]
      /\ UNCHANGED <<worker, watches, sent, onchain, clock, budget>>
  BY DEF ApplyReport, indexerVars, worldVars
<1>2. PICK e \in Report : e = actor[p].report /\ IsTrue(e)
  BY <1>0, <1>1, FilledRow DEF ReportsAreTrue
<1>3. PICK d : d = Filled(p) /\ Found(d) /\ d.watch \in {row.watch, e.watch}
  BY <1>1, <1>2, FilledRow
<1>4. StoreInv' /\ event_seq \in Nat /\ event_seq' \in Nat /\ event_seq' >= event_seq
  BY <1>0, AppliesStore, StoreGrows DEF StoreNext
<1>5. /\ Detects(e.total) /\ (Ready' /\ ~Ready => e.type = "threshold.reached")
      /\ dead' = dead /\ outbox \subseteq outbox'
      /\ \/ row'.watch \in {d.watch, row.watch}
         \/ row'.watch = NULL /\ NextRow \in outbox'
  <2>1. apply_report(d, e) /\ (e.type = "watch.expired" => MayExpire)
    BY <1>1, <1>2, <1>3 DEF IsTrue, MayExpire
  <2>. QED
    BY <1>0, <1>3, <2>1, AppliedDetects
<1>6. e.watch \in Ids /\ e.watch # NULL /\ e.total \in Nat /\ e.total <= watches[e.watch].total
      /\ (e.type = "threshold.reached" => e.total >= Amount)
  BY <1>0, <1>2, WatchTypes DEF IsTrue, Ids, NULL, Report
<1>7. row'.watch \in {NULL} \cup Ids
  BY <1>0, <1>3, <1>5, <1>6 DEF WorkersAreRight
<1>8. WatchIsSpared'
  <2>1. CASE row'.watch \in {d.watch, row.watch}
    <3>1. row'.status \in Open /\ row'.watch = NULL => row.status \in Open /\ row.watch = NULL
      BY <1>3, <1>5, <1>6, <2>1 DEF Detects, Found
    <3>. QED
      BY <1>0, <1>1, <1>5, <3>1, SparedStays
  <2>2. CASE row'.watch = NULL /\ NextRow \in outbox'
    <3>1. PICK r : r = NextRow
      OBVIOUS
    <3>2. r \in outbox' \ dead' /\ r.kind = "register_watch" /\ r.seq = event_seq + 1
      BY <1>0, <1>5, <2>2, <3>1, NextRowIsNew
    <3>3. \A w \in Workers : worker'[w].step \in {"done", "dead"} => worker'[w].seq # r.seq
      BY <1>0, <1>1, <1>4, <3>2 DEF WorkersAreRight
    <3>. QED
      BY <3>2, <3>3 DEF WatchIsSpared, Spared
  <2>. QED
    BY <1>5, <2>1, <2>2
<1>9. inbound' \subseteq sent
  BY <1>0, <1>1 DEF ReportsAreTrue, TypeOK
<1>. QED
  BY <1>0, <1>1, <1>4, <1>5, <1>6, <1>7, <1>8, <1>9, IdleActors, ActorKeeps

LEMMA ActorPreserves ==
    ASSUME DetectionInv, NEW p \in Actors,
           \/ \E e \in sent : p \in Handlers /\ ReceiveEvent(p, e)
           \/ p \in Reconcilers /\ (SelectStale(p) \/ PollWatch(p))
           \/ ApplyReport(p) \/ ActorAborts(p)
    PROVE  DetectionInv'
<1>0. /\ TypeOK /\ WorkersAreRight /\ WatchesAreTrue /\ ReportsAreTrue /\ row \in Deposit
      /\ budget \in BudgetType /\ sent \subseteq Report
  BY DEF DetectionInv, StoreInv, StoreTypeOK, TypeOK, BudgetType
<1>1. ASSUME NEW x \in sent, p \in Handlers, ReceiveEvent(p, x) PROVE DetectionInv'
  <2>. DEFINE e == [step |-> "apply", report |-> x, fill |-> row.watch = NULL, ours |-> 0]
  <2>1. /\ actor' = [actor EXCEPT ![p] = e]
        /\ UNCHANGED <<storeVars, worker, watches, sent, inbound, onchain, clock, budget>>
    BY <1>1 DEF ReceiveEvent, indexerVars, worldVars
  <2>2. e \in ActorType /\ e.step = "apply" /\ e.report = x
    BY <1>0 DEF ActorType
  <2>3. IsTrue(x)
    BY <1>0 DEF ReportsAreTrue
  <2>. HIDE DEF e
  <2>. QED
    BY <1>0, <2>1, <2>2, <2>3, ActorMoves
<1>2. CASE p \in Reconcilers /\ SelectStale(p)
  <2>. DEFINE x == [NoReport EXCEPT !.watch = row.watch]
              e == [step |-> "poll", report |-> x, fill |-> FALSE, ours |-> row.confirmed]
  <2>1. /\ actor' = [actor EXCEPT ![p] = e] /\ row.watch # NULL
        /\ UNCHANGED <<storeVars, worker, watches, sent, inbound, onchain, clock, budget>>
    BY <1>2 DEF SelectStale, indexerVars, worldVars
  <2>2. x \in Report /\ x.watch = row.watch
    BY <1>0 DEF NoReport, Report, Deposit
  <2>. HIDE DEF x
  <2>3. e \in ActorType /\ e.step = "poll" /\ e.report = x
    BY <1>0, <2>2 DEF ActorType, Deposit
  <2>4. p \notin Handlers /\ x.watch \in Ids
    BY <1>0, <1>2, <2>1, <2>2 DEF WorkersAreRight
  <2>. HIDE DEF e
  <2>. QED
    BY <1>0, <2>1, <2>3, <2>4, ActorMoves
<1>3. CASE p \in Reconcilers /\ PollWatch(p)
  <2>. DEFINE i == actor[p].report.watch
  <2>1. /\ actor[p].step = "poll" /\ i \in Ids /\ p \notin Handlers
        /\ UNCHANGED <<storeVars, worker, watches, sent, inbound, onchain, clock, budget>>
    BY <1>0, <1>3 DEF PollWatch, indexerVars, worldVars, ReportsAreTrue
  <2>2. CASE actor' = [actor EXCEPT ![p] = IdleActor]
    BY <1>0, <2>1, <2>2, IdleActors, ActorMoves
  <2>3. ASSUME NEW x \in Conclusions(i, actor[p].ours),
               actor' = [actor EXCEPT ![p] = [IdleActor EXCEPT !.step = "apply", !.report = x]]
        PROVE  DetectionInv'
    <3>1. /\ watches[i].total \in Nat /\ i \in Nat /\ actor[p].ours \in Nat
          /\ watches[i].state = "completed" => watches[i].total >= Amount
          /\ watches[i].state = "expired" => clock # "open"
      BY <1>0, <2>1, WatchTypes DEF WatchesAreTrue, Ids, TypeOK
    <3>2. /\ x = Event(i, x.type, watches[i].total)
          /\ \/ x.type = "watch.lost"
             \/ x.type = "threshold.reached" /\ watches[i].state = "completed"
             \/ x.type = "watch.expired" /\ watches[i].state \in {"expired", "cancelled"}
             \/ x.type = "payment.confirmed" /\ watches[i].total > actor[p].ours
      BY DEF Conclusions, Event
    <3>3. x \in Report /\ x.watch = i /\ x.total = watches[i].total
      BY <3>1, <3>2 DEF Event, Report, EventKind
    <3>4. IsTrue(x)
      <4>1. x.watch \in Ids /\ x.total <= watches[x.watch].total
        BY <2>1, <3>1, <3>3
      <4>2. x.type = "threshold.reached" => x.total >= Amount
        BY <3>1, <3>2, <3>3
      <4>3. x.type \in {"payment.confirmed", "threshold.reached"} => x.total >= 1
        <5>1. Amount \in Nat /\ Amount >= 1 /\ x.total \in Nat /\ actor[p].ours \in Nat
          BY <3>1, <3>3 DEF NULL
        <5>2. CASE x.type = "threshold.reached"
          BY <4>2, <5>1, <5>2
        <5>3. CASE x.type = "payment.confirmed"
          <6>1. x.total > actor[p].ours
            BY <3>2, <3>3, <5>3
          <6>. QED
            BY <5>1, <6>1
        <5>. QED
          BY <5>2, <5>3
      <4>4. x.type = "watch.expired" => clock # "open" \/ watches[x.watch].state = "cancelled"
        BY <3>1, <3>2, <3>3
      <4>. QED
        BY <4>1, <4>2, <4>3, <4>4 DEF IsTrue
    <3>. DEFINE e == [IdleActor EXCEPT !.step = "apply", !.report = x]
    <3>5. e \in ActorType /\ e.step = "apply" /\ e.report = x
      BY <3>3 DEF IdleActor, ActorType
    <3>6. actor' = [actor EXCEPT ![p] = e]
      BY <2>3
    <3>. HIDE DEF e
    <3>. QED
      BY <1>0, <2>1, <3>4, <3>5, <3>6, ActorMoves
  <2>. QED
    BY <1>3, <2>2, <2>3 DEF PollWatch
<1>4. CASE ActorAborts(p)
  <2>1. /\ actor' = [actor EXCEPT ![p] = IdleActor] /\ budget' \in BudgetType
        /\ UNCHANGED <<storeVars, worker, watches, sent, inbound, onchain, clock>>
    BY <1>0, <1>4, Spending DEF ActorAborts, indexerVars, worldVars
  <2>. QED
    BY <2>1, IdleActors, ActorMoves
<1>. QED
  BY <1>1, <1>2, <1>3, <1>4, ApplyPreserves

LEMMA OtherPreserves ==
    ASSUME DetectionInv, StoreNext \/ UNCHANGED storeVars,
           (\E r \in outbox : LockExpires(r)) \/ ExpireOverdue \/ OperatorRetry
    PROVE  DetectionInv'
<1>0. /\ TypeOK /\ StoreInv /\ StoreTypeOK /\ WorkersAreRight /\ WatchesAreTrue /\ ReportsAreTrue
      /\ ReadyIsFunded /\ ExpiredAfterExpiry /\ WatchIsSpared /\ budget \in BudgetType
  BY DEF DetectionInv, StoreInv, TypeOK, BudgetType
<1>1. StoreInv' /\ event_seq \in Nat /\ event_seq' \in Nat /\ event_seq' >= event_seq
  BY <1>0, StoreGrows
<1>2. UNCHANGED <<worker, actor, watches, sent, inbound, onchain, clock>> /\ budget' \in BudgetType
  BY <1>0, Spending DEF LockExpires, ExpireOverdue, OperatorRetry, indexerVars, worldVars
<1>3. /\ Detects(0) /\ (Ready' => Ready) /\ row'.watch = row.watch
      /\ outbox \ dead \subseteq outbox' \ dead'
      /\ row'.status \in Open => row.status \in Open
  <2>1. CASE \E r \in outbox : LockExpires(r)
    <3>1. UNCHANGED <<row, timeline, outbox, dead>>
      BY <2>1 DEF LockExpires, lock_expires
    <3>. QED
      BY <3>1 DEF Detects, Ready
  <2>2. CASE ExpireOverdue
    BY <1>0, <2>2, EndedDetects DEF ExpireOverdue, MayExpire
  <2>3. CASE OperatorRetry
    BY <1>0, <2>3, EndedDetects DEF OperatorRetry
  <2>. QED
    BY <2>1, <2>2, <2>3
<1>4. Onwards /\ Ids' = Ids
  BY <1>0, <1>2, Standstill DEF Ids
<1>5. TypeOK'
  BY <1>0, <1>1, <1>2 DEF TypeOK, StoreInv, BudgetType
<1>6. WorkersAreRight'
  <2>1. ASSUME NEW w \in Workers, worker[w].step # "idle"
        PROVE  worker[w].seq \in 1..event_seq'
    BY <1>0, <1>1, <2>1 DEF WorkersAreRight
  <2>. QED
    BY <1>0, <1>2, <1>3, <1>4, <2>1 DEF WorkersAreRight
<1>7. WatchesAreTrue' /\ ReportsAreTrue'
  BY <1>0, <1>2, <1>4 DEF WatchesAreTrue, ReportsAreTrue, IsTrue
<1>8. ReadyIsFunded' /\ ExpiredAfterExpiry'
  BY <1>0, <1>3, <1>4, FundedStays, ExpiryStays
<1>9. WatchIsSpared'
  BY <1>0, <1>2, <1>3, SparedStays
<1>. QED
  BY <1>1, <1>5, <1>6, <1>7, <1>8, <1>9 DEF DetectionInv

-----------------------------------------------------------------------------
LEMMA InitDetection == Init => DetectionInv
<1>. SUFFICES ASSUME Init PROVE DetectionInv
  OBVIOUS
<1>1. /\ row \in Deposit /\ row.status = "pending" /\ row.watch = NULL
  BY DEF Init, StoreInit, NewDeposit, Deposit, Status, Open, FailureCode, NULL
<1>2. Len(timeline) = 1 /\ timeline[1] = "created" /\ timeline \in Seq(EventType)
  BY DEF Init, StoreInit, EventType, AppFacing
<1>. DEFINE first == OutboxJob("register_watch", 1)
<1>3. first \in OutboxRow /\ first.kind = "register_watch" /\ first.seq = 1
  BY DEF OutboxJob, OutboxRow, Kind
<1>4. outbox = {first} /\ dead = {} /\ locked = {}
  BY DEF Init, StoreInit
<1>. HIDE DEF first
<1>5. StoreInv
  <2>1. StoreTypeOK
    BY <1>1, <1>2, <1>3, <1>4 DEF StoreTypeOK
  <2>2. StatusMatchesTimeline
    BY <1>1, <1>2 DEF StatusMatchesTimeline, Moves
  <2>3. RowsHaveCauses
    BY <1>2, <1>3, <1>4 DEF RowsHaveCauses, Causes
  <2>. QED
    BY <2>1, <2>2, <2>3 DEF StoreInv
<1>6. TypeOK
  <2>1. IdleWorker \in WorkerType /\ IdleActor \in ActorType
    BY DEF IdleWorker, WorkerType, WorkerStep, IdleActor, ActorType, NoReport, Report, NULL
  <2>2. worker \in [Workers -> WorkerType] /\ actor \in [Actors -> ActorType]
    BY <2>1 DEF Init
  <2>3. budget \in BudgetType
    BY DEF Init, BudgetType
  <2>4. clock \in Clock /\ onchain \in Nat /\ watches \in Seq(WatchType) /\ sent = {} /\ inbound = {}
    BY DEF Init, Clock
  <2>. QED
    BY <1>5, <2>2, <2>3, <2>4 DEF TypeOK, StoreInv, WorkerType, ActorType, WatchType, Watch, BudgetType
<1>7. /\ Ids = {} /\ sent = {} /\ onchain = 0
      /\ \A w \in Workers : worker[w].step = "idle"
      /\ \A a \in Actors : actor[a].step = "idle"
  BY DEF Init, Ids, IdleWorker, IdleActor
<1>8. WatchesAreTrue /\ ReportsAreTrue /\ WorkersAreRight
  BY <1>1, <1>7, WatchTypes, <1>6 DEF WatchesAreTrue, ReportsAreTrue, WorkersAreRight, Actors
<1>9. ReadyIsFunded /\ ExpiredAfterExpiry
  BY <1>1, <1>2 DEF ReadyIsFunded, Ready, ExpiredAfterExpiry
<1>10. WatchIsSpared
  BY <1>3, <1>4, <1>7 DEF WatchIsSpared, Spared
<1>. QED
  BY <1>5, <1>6, <1>8, <1>9, <1>10 DEF DetectionInv

LEMMA DetectionInduction == DetectionInv /\ [Next]_vars => DetectionInv'
<1>1. ASSUME DetectionInv, UNCHANGED vars PROVE DetectionInv'
  <2>1. /\ UNCHANGED <<row, timeline, outbox, dead, worker, actor, watches, sent, inbound, onchain,
                       clock, budget>>
        /\ StoreInv' /\ event_seq' = event_seq
    BY <1>1, StoreGrows DEF vars, indexerVars, worldVars, storeVars, DetectionInv, event_seq
  <2>. QED
    BY <1>1, <2>1 DEF DetectionInv, TypeOK, StoreInv, WatchesAreTrue, ReportsAreTrue, IsTrue,
       WorkersAreRight, ReadyIsFunded, Ready, ExpiredAfterExpiry, WatchIsSpared, Spared, Ids
<1>2. ASSUME DetectionInv, Next PROVE DetectionInv'
  <2>1. StoreNext \/ UNCHANGED storeVars
    BY <1>2, StoreSteps
  <2>2. \A h \in Handlers : h \in Actors
    BY DEF Actors
  <2>3. \A p \in Reconcilers : p \in Actors
    BY DEF Actors
  <2>. QED
    BY <1>2, <2>1, <2>2, <2>3, WorkerPreserves, IndexerPreserves, PayerPreserves, ActorPreserves,
       OtherPreserves DEF Next, Ids
<1>. QED
  BY <1>1, <1>2

\* What the indexer reports is true of the chain and of its watch, whichever
\* watch and attempt it comes from: its totals were received, and it reports an
\* expiry only when time has come or that watch was cancelled.  And nobody is
\* about to drop the one row that will watch an open deposit (register_watch,
\* apply_indexer_event, reconcile_open).
THEOREM DetectionCorrect == Spec => []DetectionInv
<1>. QED
  BY InitDetection, DetectionInduction, PTL DEF Spec

\* Workers, handlers, reconcilers and the tables keep their types.
THEOREM DetectionTypes == Spec => []TypeOK
<1>1. DetectionInv => TypeOK
  BY DEF DetectionInv
<1>. QED
  BY <1>1, DetectionCorrect, PTL

\* No open deposit is left unwatched (register_watch, reregister_watch,
\* fail_open).
THEOREM OpenStaysWatched == Spec => []OpenIsWatched
<1>1. DetectionInv => OpenIsWatched
  BY DEF DetectionInv, WatchIsSpared, Spared, OpenIsWatched
<1>. QED
  BY <1>1, DetectionCorrect, PTL

\* A deposit reported ready is funded, in the tables and on the chain
\* (apply_threshold_reached, apply_payment_confirmed, retry_settlement).
THEOREM PaidStaysFunded == Spec => []PaidIsFunded
<1>1. DetectionInv => PaidIsFunded
  <2>. SUFFICES ASSUME DetectionInv, Ready PROVE row.confirmed >= Amount /\ onchain >= Amount
    BY DEF PaidIsFunded, Ready
  <2>1. PICK i \in Ids : watches[i].total >= Amount
    BY DEF DetectionInv, ReadyIsFunded
  <2>2. TypeOK /\ watches[i].total <= onchain
    BY DEF DetectionInv, WatchesAreTrue
  <2>3. onchain >= Amount
    BY <2>1, <2>2, WatchTypes
  <2>. QED
    BY <2>3 DEF DetectionInv, ReadyIsFunded
<1>. QED
  BY <1>1, DetectionCorrect, PTL

\* Nothing expires before its expiry but a deposit one of whose watches was
\* cancelled at the indexer (register_watch, apply_indexer_event,
\* reconcile_open, expire_overdue).
THEOREM NoEarlyExpiry == Spec => []ExpiredAfterExpiry
<1>1. DetectionInv => ExpiredAfterExpiry
  BY DEF DetectionInv
<1>. QED
  BY <1>1, DetectionCorrect, PTL

\* Whatever the workers, the handlers, the reconciler and the operator do
\* together is a run of the store: detection implements it.
THEOREM DetectionImplementsStore == Spec => StoreSpec
<1>1. Init => StoreInit
  BY DEF Init
<1>2. DetectionInv /\ [Next]_vars => [StoreNext]_storeVars
  BY StoreSteps DEF vars
<1>. QED
  BY <1>1, <1>2, DetectionCorrect, PTL DEF Spec, StoreSpec

\* So the deposit moves along the lifecycle's edges only.
THEOREM DetectionFollowsLifecycle == Spec => ImplementsLifecycle
BY DetectionImplementsStore, StoreImplementsLifecycle, PTL

\* And its row and its timeline agree (record_event).
THEOREM DetectionStatus == Spec => []StatusMatchesTimeline
BY DetectionImplementsStore, StatusCorrect, PTL

\* And so do its outbox rows and the events that asked for them (enqueue).
THEOREM DetectionCauses == Spec => []RowsHaveCauses
BY DetectionImplementsStore, CausesCorrect, PTL
=============================================================================
