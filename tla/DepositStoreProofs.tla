------------------------- MODULE DepositStoreProofs -------------------------
(***************************************************************************)
(* What every caller of the store can rely on, for any amount, any watch   *)
(* ids and totals, and a timeline of any length.                           *)
(*                                                                         *)
(* All the transitions of DepositStore end in record_event, so the         *)
(* invariants are proved once for a recorded event (RecordedTypes, ..) and *)
(* then carried to each transition by what it records.                     *)
(***************************************************************************)
EXTENDS DepositStore, TLAPS

StoreInv == StoreTypeOK /\ StatusMatchesTimeline /\ RowsHaveCauses

\* record_event leaves the types right when it is given a right row.
LEMMA RecordedTypes ==
    ASSUME StoreTypeOK, NEW d \in Deposit, NEW type \in EventType,
           NEW kinds \in SUBSET Kind, record_event(d, type, kinds)
    PROVE  StoreTypeOK'
<1>1. timeline' \in Seq(EventType)
  BY DEF StoreTypeOK, record_event
<1>2. event_seq + 1 \in Nat
  BY DEF StoreTypeOK, event_seq
<1>3. outbox' \subseteq OutboxRow
  BY <1>2 DEF StoreTypeOK, record_event, OutboxRow, OutboxJob, Kind
<1>. QED
  BY <1>1, <1>3 DEF StoreTypeOK, record_event

\* The row and the timeline agree after an event that says the new status, or
\* that moves nothing and comes with the old one.
LEMMA RecordedStatus ==
    ASSUME StoreTypeOK, StatusMatchesTimeline,
           NEW d \in Deposit, NEW type \in EventType, NEW kinds \in SUBSET Kind,
           record_event(d, type, kinds),
           \/ <<type, d.status>> \in Moves
           \/ type \in Still /\ d.status = row.status
    PROVE  StatusMatchesTimeline'
<1>1. /\ Len(timeline) \in Nat
      /\ Len(timeline') = Len(timeline) + 1
      /\ timeline'[Len(timeline) + 1] = type
      /\ \A i \in 1..Len(timeline) : timeline'[i] = timeline[i]
      /\ row' = d
  BY DEF StoreTypeOK, record_event
<1>2. CASE <<type, d.status>> \in Moves
  <2>1. /\ Len(timeline) + 1 \in 1..Len(timeline')
        /\ <<timeline'[Len(timeline) + 1], row'.status>> \in Moves
        /\ (Len(timeline) + 1 + 1)..Len(timeline') = {}
    BY <1>1, <1>2
  <2>. QED
    BY <2>1 DEF StatusMatchesTimeline
<1>3. CASE type \in Still /\ d.status = row.status
  <2>1. PICK i \in 1..Len(timeline) :
           /\ <<timeline[i], row.status>> \in Moves
           /\ \A j \in (i + 1)..Len(timeline) : timeline[j] \in Still
    BY DEF StatusMatchesTimeline
  <2>2. i \in 1..Len(timeline') /\ <<timeline'[i], row'.status>> \in Moves
    BY <1>1, <1>3, <2>1
  <2>3. ASSUME NEW j \in (i + 1)..Len(timeline')
        PROVE  timeline'[j] \in Still
    <3>1. CASE j = Len(timeline) + 1
      BY <1>1, <1>3, <3>1
    <3>2. CASE j # Len(timeline) + 1
      <4>1. j \in (i + 1)..Len(timeline) /\ j \in 1..Len(timeline)
        BY <1>1, <3>2, <2>1
      <4>. QED
        BY <4>1, <2>1, <1>1
    <3>. QED
      BY <3>1, <3>2
  <2>. QED
    BY <2>2, <2>3 DEF StatusMatchesTimeline
<1>. QED
  BY <1>2, <1>3

\* Rows enqueued with an event that causes them, among rows that had theirs.
LEMMA RecordedCauses ==
    ASSUME StoreTypeOK, RowsHaveCauses,
           NEW d \in Deposit, NEW type \in EventType, NEW kinds \in SUBSET Kind,
           record_event(d, type, kinds), \A k \in kinds : <<type, k>> \in Causes
    PROVE  RowsHaveCauses'
<1>1. /\ Len(timeline) \in Nat
      /\ Len(timeline') = Len(timeline) + 1
      /\ timeline'[Len(timeline) + 1] = type
      /\ \A i \in 1..Len(timeline) : timeline'[i] = timeline[i]
  BY DEF StoreTypeOK, record_event
<1>2. ASSUME NEW r \in outbox'
      PROVE  r.seq \in 1..Len(timeline') /\ <<timeline'[r.seq], r.kind>> \in Causes
  <2>1. CASE r \in outbox
    <3>1. r.seq \in 1..Len(timeline) /\ <<timeline[r.seq], r.kind>> \in Causes
      BY <2>1, Zenon DEF RowsHaveCauses
    <3>2. timeline'[r.seq] = timeline[r.seq]
      BY <1>1, <3>1
    <3>3. r.seq \in 1..Len(timeline')
      BY <1>1, <3>1
    <3>. QED
      BY <3>1, <3>2, <3>3, Zenon
  <2>2. CASE r \notin outbox
    <3>1. PICK k \in kinds \cup (IF AppWebhook /\ type \in AppFacing THEN {"notify_app"} ELSE {}) :
             r = OutboxJob(k, event_seq + 1)
      BY <2>2 DEF record_event
    <3>2. r.kind = k /\ r.seq = Len(timeline) + 1
      BY <3>1 DEF OutboxJob, event_seq
    <3>3. <<type, k>> \in Causes
      BY DEF Causes
    <3>. QED
      BY <3>2, <3>3, <1>1
  <2>. QED
    BY <2>1, <2>2
<1>. QED
  BY <1>2 DEF RowsHaveCauses

\* The three together, for a transition whose guard holds ..
LEMMA RecordedPreserves ==
    ASSUME StoreInv,
           NEW d \in Deposit, NEW type \in EventType, NEW kinds \in SUBSET Kind,
           record_event(d, type, kinds),
           \A k \in kinds : <<type, k>> \in Causes,
           \/ <<type, d.status>> \in Moves
           \/ type \in Still /\ d.status = row.status
    PROVE  StoreInv'
BY RecordedTypes, RecordedStatus, RecordedCauses DEF StoreInv

\* .. and for one whose guard does not.
LEMMA SkippedPreserves ==
    ASSUME StoreInv, NEW d \in Deposit, d.status = row.status,
           row' = d, UNCHANGED <<timeline, outbox, dead, locked>>
    PROVE  StoreInv'
<1>1. StoreTypeOK'
  BY DEF StoreInv, StoreTypeOK
<1>2. StatusMatchesTimeline'
  BY DEF StoreInv, StatusMatchesTimeline
<1>3. RowsHaveCauses'
  BY DEF StoreInv, RowsHaveCauses
<1>. QED
  BY <1>1, <1>2, <1>3 DEF StoreInv

\* Any row a transaction may be working on is a deposit of the same status.
LEMMA LocatedRows ==
    ASSUME StoreTypeOK, NEW d \in Located
    PROVE  d \in Deposit /\ d.status = row.status
BY StoreAssumption DEF StoreTypeOK, Located, Deposit, NULL

LEMMA DetectionPreserves == StoreInv /\ DetectionStep => StoreInv'
<1>. SUFFICES ASSUME StoreInv, DetectionStep PROVE StoreInv'
  OBVIOUS
<1>. USE DEF EventType, AppFacing, Kind, Open, Terminal, Status, FailureCode, Moves, Still, Causes
<1>0. StoreTypeOK /\ row \in Deposit
  BY DEF StoreInv, StoreTypeOK
<1>1. ASSUME NEW w \in Watches, mark_watch_registered(w) PROVE StoreInv'
  BY <1>0, <1>1, StoreAssumption, RecordedPreserves, SkippedPreserves
     DEF mark_watch_registered, Transition, Deposit, NULL
<1>2. ASSUME NEW d \in Located, apply_payment_pending(d) PROVE StoreInv'
  BY <1>0, <1>2, LocatedRows, RecordedPreserves, SkippedPreserves
     DEF apply_payment_pending, Transition, Deposit, NULL
<1>3. ASSUME NEW d \in Located, apply_payment_orphaned(d) PROVE StoreInv'
  BY <1>0, <1>3, LocatedRows, RecordedPreserves, SkippedPreserves
     DEF apply_payment_orphaned, Transition, Deposit, NULL
<1>4. ASSUME NEW d \in Located, apply_expired(d) PROVE StoreInv'
  BY <1>0, <1>4, LocatedRows, RecordedPreserves, SkippedPreserves
     DEF apply_expired, Transition, Deposit, NULL
<1>5. ASSUME NEW d \in Located, NEW c \in Totals, apply_payment_confirmed(d, c) PROVE StoreInv'
  <2>. DEFINE u == [d EXCEPT !.status = "partial_paid", !.confirmed = c]
  <2>1. u \in Deposit /\ u.status = "partial_paid"
    BY <1>0, LocatedRows, StoreAssumption DEF Deposit, NULL
  <2>2. CASE d.status \in Open
    <3>1. record_event(u, "payment_confirmed", {})
      BY <1>5, <2>2 DEF apply_payment_confirmed, Transition
    <3>2. \A kind \in {} : kind \in Kind /\ <<"payment_confirmed", kind>> \in Causes
      OBVIOUS
    <3>3. <<"payment_confirmed", u.status>> \in Moves /\ "payment_confirmed" \in EventType
      BY <2>1
    <3>. HIDE DEF u, Moves, Causes, EventType, Kind, Still
    <3>. QED
      BY <2>1, <3>1, <3>2, <3>3, RecordedPreserves
  <2>3. CASE ~(d.status \in Open)
    BY <1>0, <1>5, <2>3, LocatedRows, SkippedPreserves DEF apply_payment_confirmed, Transition
  <2>. QED
    BY <2>2, <2>3
<1>6. ASSUME NEW d \in Located, NEW c \in Totals, apply_threshold_reached(d, c) PROVE StoreInv'
  <2>. DEFINE u == [d EXCEPT !.status = "paid", !.confirmed = c]
  <2>1. u \in Deposit /\ u.status = "paid"
    BY <1>0, LocatedRows, StoreAssumption DEF Deposit, NULL
  <2>2. CASE d.status \in Open
    <3>1. record_event(u, "ready", {"submit_execute"})
      BY <1>6, <2>2 DEF apply_threshold_reached, Transition
    <3>2. \A kind \in {"submit_execute"} : kind \in Kind /\ <<"ready", kind>> \in Causes
      OBVIOUS
    <3>3. <<"ready", u.status>> \in Moves /\ "ready" \in EventType
      BY <2>1
    <3>. HIDE DEF u, Moves, Causes, EventType, Kind, Still
    <3>. QED
      BY <2>1, <3>1, <3>2, <3>3, RecordedPreserves
  <2>3. CASE ~(d.status \in Open)
    BY <1>0, <1>6, <2>3, LocatedRows, SkippedPreserves DEF apply_threshold_reached, Transition
  <2>. QED
    BY <2>2, <2>3
<1>7. ASSUME fail_open PROVE StoreInv'
  <2>. DEFINE u == [row EXCEPT !.status = "failed", !.failure = "watch_rejected"]
  <2>1. u \in Deposit /\ u.status = "failed"
    BY <1>0 DEF Deposit, NULL
  <2>2. CASE row.status \in Open
    <3>1. record_event(u, "failed", {})
      BY <1>7, <2>2 DEF fail_open, Transition
    <3>2. \A kind \in {} : kind \in Kind /\ <<"failed", kind>> \in Causes
      OBVIOUS
    <3>3. <<"failed", u.status>> \in Moves /\ "failed" \in EventType
      BY <2>1
    <3>. HIDE DEF u, Moves, Causes, EventType, Kind, Still
    <3>. QED
      BY <2>1, <3>1, <3>2, <3>3, RecordedPreserves
  <2>3. CASE ~(row.status \in Open)
    BY <1>0, <1>7, <2>3, SkippedPreserves DEF fail_open, Transition
  <2>. QED
    BY <2>2, <2>3
<1>8. ASSUME reregister_watch PROVE StoreInv'
  BY <1>0, <1>8, RecordedPreserves, SkippedPreserves
     DEF reregister_watch, Transition, Deposit, NULL
<1>. QED
  BY <1>1, <1>2, <1>3, <1>4, <1>5, <1>6, <1>7, <1>8 DEF DetectionStep

LEMMA SettlementPreserves == StoreInv /\ SettlementStep => StoreInv'
<1>. SUFFICES ASSUME StoreInv, SettlementStep PROVE StoreInv'
  OBVIOUS
<1>. USE DEF EventType, AppFacing, Kind, Open, Terminal, Status, FailureCode, Moves, Still, Causes
<1>0. StoreTypeOK /\ row \in Deposit /\ event_seq \in Nat
  BY DEF StoreInv, StoreTypeOK, event_seq
<1>1. ASSUME NEW k \in 1..event_seq, NEW replayed \in BOOLEAN, mark_engine_submitted(k, replayed) PROVE StoreInv'
  BY <1>0, <1>1, RecordedPreserves, SkippedPreserves
     DEF mark_engine_submitted, Transition, Deposit, NULL
<1>2. ASSUME NEW k \in 1..event_seq, apply_settlement_included(k) PROVE StoreInv'
  BY <1>0, <1>2, RecordedPreserves, SkippedPreserves
     DEF apply_settlement_included, Transition, Deposit, NULL
<1>3. ASSUME NEW k \in 1..event_seq, apply_settled(k) PROVE StoreInv'
  <2>. DEFINE u == [row EXCEPT !.status = "settled", !.tx = k]
  <2>0. k \in Nat
    BY <1>0
  <2>1. u \in Deposit /\ u.status = "settled"
    BY <1>0, <2>0 DEF Deposit, NULL
  <2>2. CASE row.status = "paid"
    <3>1. record_event(u, "settled", {})
      BY <1>3, <2>2 DEF apply_settled, Transition
    <3>2. \A kind \in {} : kind \in Kind /\ <<"settled", kind>> \in Causes
      OBVIOUS
    <3>3. <<"settled", u.status>> \in Moves /\ "settled" \in EventType
      BY <2>1
    <3>. HIDE DEF u, Moves, Causes, EventType, Kind, Still
    <3>. QED
      BY <2>1, <3>1, <3>2, <3>3, RecordedPreserves
  <2>3. CASE ~(row.status = "paid")
    BY <1>0, <1>3, <2>3, SkippedPreserves DEF apply_settled, Transition
  <2>. QED
    BY <2>2, <2>3
<1>4. ASSUME NEW k \in 0..event_seq, NEW code \in FailureCode \ {"none"}, apply_failed(code, k) PROVE StoreInv'
  <2>. DEFINE u == [row EXCEPT !.status = "failed", !.failure = code, !.tx = IF k = NULL THEN @ ELSE k]
  <2>0. k \in Nat
    BY <1>0
  <2>1. u \in Deposit /\ u.status = "failed"
    BY <1>0, <2>0 DEF Deposit, NULL
  <2>2. CASE row.status = "paid"
    <3>1. record_event(u, "failed", {})
      BY <1>4, <2>2 DEF apply_failed, Transition
    <3>2. \A kind \in {} : kind \in Kind /\ <<"failed", kind>> \in Causes
      OBVIOUS
    <3>3. <<"failed", u.status>> \in Moves /\ "failed" \in EventType
      BY <2>1
    <3>. HIDE DEF u, Moves, Causes, EventType, Kind, Still
    <3>. QED
      BY <2>1, <3>1, <3>2, <3>3, RecordedPreserves
  <2>3. CASE ~(row.status = "paid")
    BY <1>0, <1>4, <2>3, SkippedPreserves DEF apply_failed, Transition
  <2>. QED
    BY <2>2, <2>3
<1>5. ASSUME resubmit PROVE StoreInv'
  BY <1>0, <1>5, RecordedPreserves, SkippedPreserves
     DEF resubmit, Transition, Deposit, NULL
<1>6. ASSUME retry_settlement PROVE StoreInv'
  <2>. DEFINE u == [row EXCEPT !.status = "paid", !.job = NULL, !.failure = "none"]
  <2>1. u \in Deposit /\ u.status = "paid"
    BY <1>0 DEF Deposit, NULL
  <2>2. CASE row.status = "failed"
    <3>1. record_event(u, "settlement_retried", {"submit_execute"})
      BY <1>6, <2>2 DEF retry_settlement, Transition
    <3>2. \A kind \in {"submit_execute"} : kind \in Kind /\ <<"settlement_retried", kind>> \in Causes
      OBVIOUS
    <3>3. <<"settlement_retried", u.status>> \in Moves /\ "settlement_retried" \in EventType
      BY <2>1
    <3>. HIDE DEF u, Moves, Causes, EventType, Kind, Still
    <3>. QED
      BY <2>1, <3>1, <3>2, <3>3, RecordedPreserves
  <2>3. CASE ~(row.status = "failed")
    BY <1>0, <1>6, <2>3, SkippedPreserves DEF retry_settlement, Transition
  <2>. QED
    BY <2>2, <2>3
<1>. QED
  BY <1>0, <1>1, <1>2, <1>3, <1>4, <1>5, <1>6 DEF SettlementStep, NULL

LEMMA OutboxPreserves == StoreInv /\ OutboxStep => StoreInv'
<1>. SUFFICES ASSUME StoreInv, NEW r \in outbox,
                     \/ claim(r) \/ delete_row(r) \/ retry_later(r) \/ mark_dead(r)
                     \/ admin_requeue(r) \/ lock_expires(r)
              PROVE  StoreInv'
  BY DEF OutboxStep
<1>. USE DEF claim, delete_row, retry_later, mark_dead, admin_requeue, lock_expires
<1>1. UNCHANGED <<row, timeline>> /\ outbox' \subseteq outbox /\ dead' \subseteq outbox'
      /\ locked' \subseteq outbox'
  BY DEF StoreInv, StoreTypeOK
<1>2. StoreTypeOK'
  BY <1>1 DEF StoreInv, StoreTypeOK
<1>3. StatusMatchesTimeline'
  BY <1>1 DEF StoreInv, StatusMatchesTimeline
<1>4. RowsHaveCauses'
  BY <1>1 DEF StoreInv, RowsHaveCauses
<1>. QED
  BY <1>2, <1>3, <1>4 DEF StoreInv

\* Whatever calls the store gets, in any order and number, its tables stay well
\* typed, the row agrees with the timeline and every outbox row has its cause.
THEOREM StoreCorrect == StoreSpec => []StoreInv
<1>1. StoreInit => StoreInv
  BY DEF StoreInit, StoreInv, StoreTypeOK, StatusMatchesTimeline, RowsHaveCauses, NewDeposit,
         Deposit, NULL, OutboxJob, OutboxRow, EventType, AppFacing, Kind, Open, Terminal, Status,
         FailureCode, Moves, Still, Causes
<1>2. StoreInv /\ [StoreNext]_storeVars => StoreInv'
  <2>1. StoreInv /\ UNCHANGED storeVars => StoreInv'
    BY DEF StoreInv, StoreTypeOK, StatusMatchesTimeline, RowsHaveCauses, storeVars
  <2>. QED
    BY <2>1, DetectionPreserves, SettlementPreserves, OutboxPreserves DEF StoreNext
<1>. QED
  BY <1>1, <1>2, PTL DEF StoreSpec

\* GET and the webhook sequence never disagree on the status.
THEOREM StatusCorrect == StoreSpec => []StatusMatchesTimeline
<1>1. StoreInv => StatusMatchesTimeline
  BY DEF StoreInv
<1>. QED
  BY <1>1, StoreCorrect, PTL

\* No outbox row without the event that asks for it.
THEOREM CausesCorrect == StoreSpec => []RowsHaveCauses
<1>1. StoreInv => RowsHaveCauses
  BY DEF StoreInv
<1>. QED
  BY <1>1, StoreCorrect, PTL

-----------------------------------------------------------------------------
(* The store implements the lifecycle                                      *)

\* A recorded event adds its own position to the settlement orders when it
\* asks for an execute, and nothing otherwise.
LEMMA RecordedOrders ==
    ASSUME StoreTypeOK, NEW d, NEW type, NEW kinds, record_event(d, type, kinds)
    PROVE  /\ row' = d
           /\ Len(timeline) + 1 \notin Asking
           /\ type \in {"ready", "settlement_retried"} => Asking' = Asking \cup {Len(timeline) + 1}
           /\ type \notin {"ready", "settlement_retried"} => Asking' = Asking
<1>1. /\ Len(timeline) \in Nat
      /\ Len(timeline') = Len(timeline) + 1
      /\ timeline'[Len(timeline) + 1] = type
      /\ \A i \in 1..Len(timeline) : timeline'[i] = timeline[i]
      /\ row' = d
  BY DEF StoreTypeOK, record_event
<1>2. \A t : <<t, "submit_execute">> \in Causes <=> t \in {"ready", "settlement_retried"}
  BY DEF Causes
<1>. QED
  BY <1>1, <1>2 DEF Asking

\* The lifecycle's view of a transaction that records nothing.
LEMMA SkippedStutters ==
    ASSUME NEW d, d.status = row.status, row' = d, UNCHANGED timeline
    PROVE  UNCHANGED Lifecycle!lifecycleVars
BY DEF Lifecycle!lifecycleVars, Asking

LEMMA DetectionRefines ==
    StoreInv /\ DetectionStep => [Lifecycle!Next]_(Lifecycle!lifecycleVars)
<1>. SUFFICES ASSUME StoreInv, DetectionStep PROVE [Lifecycle!Next]_(Lifecycle!lifecycleVars)
  OBVIOUS
<1>. USE DEF Lifecycle!Next, Lifecycle!lifecycleVars
<1>0. StoreTypeOK /\ row \in Deposit
  BY DEF StoreInv, StoreTypeOK
<1>1. ASSUME NEW w \in Watches, mark_watch_registered(w)
      PROVE  [Lifecycle!Next]_(Lifecycle!lifecycleVars)
  BY <1>0, <1>1, RecordedOrders, SkippedStutters
     DEF mark_watch_registered, Transition, Deposit
<1>2. ASSUME NEW d \in Located, apply_payment_pending(d)
      PROVE  [Lifecycle!Next]_(Lifecycle!lifecycleVars)
  BY <1>0, <1>2, LocatedRows, RecordedOrders, SkippedStutters
     DEF apply_payment_pending, Transition, Deposit,
         Lifecycle!Detect, Lifecycle!Unpaid, Open
<1>3. ASSUME NEW d \in Located, apply_payment_orphaned(d)
      PROVE  [Lifecycle!Next]_(Lifecycle!lifecycleVars)
  BY <1>0, <1>3, LocatedRows, RecordedOrders, SkippedStutters
     DEF apply_payment_orphaned, Transition, Deposit
<1>4. ASSUME NEW d \in Located, apply_expired(d)
      PROVE  [Lifecycle!Next]_(Lifecycle!lifecycleVars)
  BY <1>0, <1>4, LocatedRows, RecordedOrders, SkippedStutters
     DEF apply_expired, Transition, Deposit,
         Lifecycle!Expire, Lifecycle!Unpaid, Open
<1>5. ASSUME NEW d \in Located, NEW c \in Totals, apply_payment_confirmed(d, c)
      PROVE  [Lifecycle!Next]_(Lifecycle!lifecycleVars)
  <2>. DEFINE u == [d EXCEPT !.status = "partial_paid", !.confirmed = c]
  <2>1. u.status = "partial_paid"
    BY <1>0, LocatedRows DEF Deposit
  <2>2. CASE d.status \in Open
    <3>1. PICK kinds : record_event(u, "payment_confirmed", kinds)
      BY <1>5, <2>2 DEF apply_payment_confirmed, Transition
    <3>. HIDE DEF u
    <3>. QED
      BY <1>0, <2>1, <2>2, <3>1, LocatedRows, RecordedOrders DEF Lifecycle!Detect, Lifecycle!Unpaid, Open
  <2>3. CASE ~(d.status \in Open)
    BY <1>0, <1>5, <2>3, LocatedRows, SkippedStutters DEF apply_payment_confirmed, Transition
  <2>. QED
    BY <2>2, <2>3
<1>6. ASSUME NEW d \in Located, NEW c \in Totals, apply_threshold_reached(d, c)
      PROVE  [Lifecycle!Next]_(Lifecycle!lifecycleVars)
  <2>. DEFINE u == [d EXCEPT !.status = "paid", !.confirmed = c]
  <2>1. u.status = "paid"
    BY <1>0, LocatedRows DEF Deposit
  <2>2. CASE d.status \in Open
    <3>1. PICK kinds : record_event(u, "ready", kinds)
      BY <1>6, <2>2 DEF apply_threshold_reached, Transition
    <3>. HIDE DEF u
    <3>. QED
      BY <1>0, <2>1, <2>2, <3>1, LocatedRows, RecordedOrders DEF Lifecycle!Ready, Lifecycle!GiveOrder, Lifecycle!Unpaid, Open
  <2>3. CASE ~(d.status \in Open)
    BY <1>0, <1>6, <2>3, LocatedRows, SkippedStutters DEF apply_threshold_reached, Transition
  <2>. QED
    BY <2>2, <2>3
<1>7. ASSUME fail_open
      PROVE  [Lifecycle!Next]_(Lifecycle!lifecycleVars)
  <2>. DEFINE u == [row EXCEPT !.status = "failed", !.failure = "watch_rejected"]
  <2>1. u.status = "failed"
    BY <1>0 DEF Deposit
  <2>2. CASE row.status \in Open
    <3>1. PICK kinds : record_event(u, "failed", kinds)
      BY <1>7, <2>2 DEF fail_open, Transition
    <3>. HIDE DEF u
    <3>. QED
      BY <1>0, <2>1, <2>2, <3>1, RecordedOrders DEF Lifecycle!Fail, Lifecycle!Unpaid, Open
  <2>3. CASE ~(row.status \in Open)
    BY <1>0, <1>7, <2>3, SkippedStutters DEF fail_open, Transition
  <2>. QED
    BY <2>2, <2>3
<1>8. ASSUME reregister_watch
      PROVE  [Lifecycle!Next]_(Lifecycle!lifecycleVars)
  BY <1>0, <1>8, RecordedOrders, SkippedStutters
     DEF reregister_watch, Transition, Deposit
<1>. QED
  BY <1>1, <1>2, <1>3, <1>4, <1>5, <1>6, <1>7, <1>8 DEF DetectionStep

LEMMA SettlementRefines ==
    StoreInv /\ SettlementStep => [Lifecycle!Next]_(Lifecycle!lifecycleVars)
<1>. SUFFICES ASSUME StoreInv, SettlementStep PROVE [Lifecycle!Next]_(Lifecycle!lifecycleVars)
  OBVIOUS
<1>. USE DEF Lifecycle!Next, Lifecycle!lifecycleVars
<1>0. StoreTypeOK /\ row \in Deposit
  BY DEF StoreInv, StoreTypeOK
<1>1. ASSUME NEW k, NEW replayed \in BOOLEAN, mark_engine_submitted(k, replayed)
      PROVE  [Lifecycle!Next]_(Lifecycle!lifecycleVars)
  BY <1>0, <1>1, RecordedOrders, SkippedStutters
     DEF mark_engine_submitted, Transition, Deposit
<1>2. ASSUME NEW k, apply_settlement_included(k)
      PROVE  [Lifecycle!Next]_(Lifecycle!lifecycleVars)
  BY <1>0, <1>2, RecordedOrders, SkippedStutters
     DEF apply_settlement_included, Transition, Deposit
<1>3. ASSUME NEW k, apply_settled(k)
      PROVE  [Lifecycle!Next]_(Lifecycle!lifecycleVars)
  <2>. DEFINE u == [row EXCEPT !.status = "settled", !.tx = k]
  <2>1. u.status = "settled"
    BY <1>0 DEF Deposit
  <2>2. CASE row.status = "paid"
    <3>1. PICK kinds : record_event(u, "settled", kinds)
      BY <1>3, <2>2 DEF apply_settled, Transition
    <3>. HIDE DEF u
    <3>. QED
      BY <1>0, <2>1, <2>2, <3>1, RecordedOrders DEF Lifecycle!Settle
  <2>3. CASE ~(row.status = "paid")
    BY <1>0, <1>3, <2>3, SkippedStutters DEF apply_settled, Transition
  <2>. QED
    BY <2>2, <2>3
<1>4. ASSUME NEW k, NEW code, apply_failed(code, k)
      PROVE  [Lifecycle!Next]_(Lifecycle!lifecycleVars)
  <2>. DEFINE u == [row EXCEPT !.status = "failed", !.failure = code, !.tx = IF k = NULL THEN @ ELSE k]
  <2>1. u.status = "failed"
    BY <1>0 DEF Deposit
  <2>2. CASE row.status = "paid"
    <3>1. PICK kinds : record_event(u, "failed", kinds)
      BY <1>4, <2>2 DEF apply_failed, Transition
    <3>. HIDE DEF u
    <3>. QED
      BY <1>0, <2>1, <2>2, <3>1, RecordedOrders DEF Lifecycle!Fail
  <2>3. CASE ~(row.status = "paid")
    BY <1>0, <1>4, <2>3, SkippedStutters DEF apply_failed, Transition
  <2>. QED
    BY <2>2, <2>3
<1>5. ASSUME resubmit
      PROVE  [Lifecycle!Next]_(Lifecycle!lifecycleVars)
  BY <1>0, <1>5, RecordedOrders, SkippedStutters
     DEF resubmit, Transition, Deposit,
         Lifecycle!Reorder, Lifecycle!GiveOrder
<1>6. ASSUME retry_settlement
      PROVE  [Lifecycle!Next]_(Lifecycle!lifecycleVars)
  <2>. DEFINE u == [row EXCEPT !.status = "paid", !.job = NULL, !.failure = "none"]
  <2>1. u.status = "paid"
    BY <1>0 DEF Deposit
  <2>2. CASE row.status = "failed"
    <3>1. PICK kinds : record_event(u, "settlement_retried", kinds)
      BY <1>6, <2>2 DEF retry_settlement, Transition
    <3>. HIDE DEF u
    <3>. QED
      BY <1>0, <2>1, <2>2, <3>1, RecordedOrders DEF Lifecycle!Retry, Lifecycle!GiveOrder
  <2>3. CASE ~(row.status = "failed")
    BY <1>0, <1>6, <2>3, SkippedStutters DEF retry_settlement, Transition
  <2>. QED
    BY <2>2, <2>3
<1>. QED
  BY <1>1, <1>2, <1>3, <1>4, <1>5, <1>6 DEF SettlementStep

\* Refinement: no sequence of store calls moves a deposit along an edge the
\* lifecycle does not have, or gives a settlement order it does not allow.
THEOREM StoreImplementsLifecycle == StoreSpec => ImplementsLifecycle
<1>1. StoreInit => Lifecycle!Init
  BY DEF StoreInit, Lifecycle!Init, NewDeposit, Asking, Causes
<1>2. StoreInv /\ [StoreNext]_storeVars => [Lifecycle!Next]_(Lifecycle!lifecycleVars)
  <2>1. UNCHANGED storeVars => UNCHANGED Lifecycle!lifecycleVars
    BY DEF storeVars, Lifecycle!lifecycleVars, Asking
  <2>2. OutboxStep => UNCHANGED Lifecycle!lifecycleVars
    BY DEF OutboxStep, claim, delete_row, retry_later, mark_dead, admin_requeue, lock_expires,
           Lifecycle!lifecycleVars, Asking
  <2>. QED
    BY <2>1, <2>2, DetectionRefines, SettlementRefines DEF StoreNext
<1>. QED
  BY <1>1, <1>2, StoreCorrect, PTL DEF StoreSpec, ImplementsLifecycle, Lifecycle!Spec

-----------------------------------------------------------------------------
(* What the processes on the store use of it                               *)

\* A guarded transition in a transaction that has left the row as d.
LEMMA LocatedFacts ==
    ASSUME StoreTypeOK, NEW d, NEW guard \in BOOLEAN, NEW updated, NEW type, NEW kinds,
           Transition(d, guard, updated, type, kinds)
    PROVE  \/ /\ guard /\ row' = updated /\ event_seq' = event_seq + 1
              /\ timeline' = Append(timeline, type)
              /\ dead' = dead /\ outbox \subseteq outbox'
              /\ \A k \in kinds : OutboxJob(k, event_seq + 1) \in outbox'
           \/ ~guard /\ row' = d /\ UNCHANGED <<timeline, outbox, dead, locked>>
<1>1. CASE guard
  <2>1. record_event(updated, type, kinds)
    BY <1>1 DEF Transition
  <2>. QED
    BY <1>1, <2>1 DEF record_event, event_seq, StoreTypeOK
<1>2. CASE ~guard
  BY <1>2 DEF Transition
<1>. QED
  BY <1>1, <1>2

\* The same on the row as it is.
LEMMA TransitionFacts ==
    ASSUME StoreTypeOK, NEW guard \in BOOLEAN, NEW updated, NEW type, NEW kinds,
           Transition(row, guard, updated, type, kinds)
    PROVE  \/ /\ guard /\ row' = updated /\ event_seq' = event_seq + 1
              /\ dead' = dead /\ outbox \subseteq outbox'
              /\ \A k \in kinds : OutboxJob(k, event_seq + 1) \in outbox'
           \/ ~guard /\ UNCHANGED storeVars
BY LocatedFacts DEF storeVars

LEMMA StoreGrows ==
    ASSUME StoreInv, StoreNext \/ UNCHANGED storeVars
    PROVE  StoreInv' /\ event_seq \in Nat /\ event_seq' \in Nat /\ event_seq' >= event_seq
<1>1. StoreInv'
  <2>1. CASE UNCHANGED storeVars
    BY <2>1 DEF StoreInv, StoreTypeOK, StatusMatchesTimeline, RowsHaveCauses, storeVars
  <2>. QED
    BY <2>1, DetectionPreserves, SettlementPreserves, OutboxPreserves DEF StoreNext
<1>2. timeline' = timeline \/ \E e : timeline' = Append(timeline, e)
  <2>1. ASSUME NEW d, NEW guard, NEW updated, NEW type, NEW kinds,
               Transition(d, guard, updated, type, kinds)
        PROVE  timeline' = timeline \/ \E e : timeline' = Append(timeline, e)
    BY <2>1, Zenon DEF Transition, record_event
  <2>2. CASE DetectionStep
    BY <2>1, <2>2, Zenon DEF DetectionStep, mark_watch_registered, apply_payment_pending,
           apply_payment_orphaned, apply_expired, apply_payment_confirmed,
           apply_threshold_reached, fail_open, reregister_watch
  <2>3. CASE SettlementStep
    BY <2>1, <2>3, Zenon DEF SettlementStep, mark_engine_submitted, apply_settlement_included,
           apply_settled, apply_failed, resubmit, retry_settlement
  <2>4. CASE OutboxStep
    BY <2>4, Zenon DEF OutboxStep, claim, delete_row, retry_later, mark_dead, admin_requeue,
           lock_expires
  <2>5. CASE UNCHANGED storeVars
    BY <2>5 DEF storeVars
  <2>. QED
    BY <2>2, <2>3, <2>4, <2>5 DEF StoreNext
<1>3. timeline \in Seq(EventType)
  BY DEF StoreInv, StoreTypeOK
<1>. QED
  BY <1>1, <1>2, <1>3 DEF event_seq

\* The last statement on an outbox row that may be gone already.
LEMMA FinishedRow ==
    ASSUME StoreTypeOK, NEW r, delete_row(r) \/ retry_later(r) \/ mark_dead(r)
    PROVE  OutboxStep \/ UNCHANGED storeVars
<1>1. CASE r \in outbox
  BY <1>1, Zenon DEF OutboxStep
<1>2. CASE r \notin outbox
  BY <1>2 DEF StoreTypeOK, delete_row, retry_later, mark_dead, storeVars
<1>. QED
  BY <1>1, <1>2

\* What a transition does beside the row: it records one event, with rows keyed
\* by that event, and leaves the other rows alone.
Records(type) ==
    /\ timeline' = Append(timeline, type)
    /\ UNCHANGED <<dead, locked>>
    /\ outbox \subseteq outbox'
    /\ \A r \in outbox' \ outbox : r.seq = event_seq + 1 /\ (r.kind = "notify_app" => AppWebhook)
    /\ AppWebhook /\ type \in AppFacing => OutboxJob("notify_app", event_seq + 1) \in outbox'

RecordsOrSkips ==
    \/ \E type \in EventType : Records(type)
    \/ UNCHANGED <<timeline, outbox, dead, locked>>

LEMMA TransitionRecords ==
    ASSUME NEW d, NEW guard, NEW updated, NEW type \in EventType,
           NEW kinds \in SUBSET {"register_watch", "submit_execute"},
           Transition(d, guard, updated, type, kinds)
    PROVE  RecordsOrSkips
<1>1. CASE guard
  <2>. DEFINE app == IF AppWebhook /\ type \in AppFacing THEN {"notify_app"} ELSE {}
  <2>1. /\ timeline' = Append(timeline, type) /\ UNCHANGED <<dead, locked>>
        /\ outbox' = outbox \cup {OutboxJob(k, event_seq + 1) : k \in kinds \cup app}
    BY <1>1, Zenon DEF Transition, record_event
  <2>2. \A r \in outbox' \ outbox : r.seq = event_seq + 1 /\ (r.kind = "notify_app" => AppWebhook)
    BY <2>1 DEF OutboxJob
  <2>3. AppWebhook /\ type \in AppFacing => OutboxJob("notify_app", event_seq + 1) \in outbox'
    BY <2>1
  <2>. QED
    BY <2>1, <2>2, <2>3 DEF RecordsOrSkips, Records
<1>2. CASE ~guard
  BY <1>2, Zenon DEF Transition, RecordsOrSkips
<1>. QED
  BY <1>1, <1>2

LEMMA StepRecords ==
    ASSUME DetectionStep \/ SettlementStep
    PROVE  RecordsOrSkips
<1>1. /\ {} \in SUBSET {"register_watch", "submit_execute"}
      /\ {"register_watch"} \in SUBSET {"register_watch", "submit_execute"}
      /\ {"submit_execute"} \in SUBSET {"register_watch", "submit_execute"}
  OBVIOUS
<1>2. /\ "watch_registered" \in EventType /\ "detected" \in EventType
      /\ "payment_confirmed" \in EventType /\ "payment_orphaned" \in EventType
      /\ "ready" \in EventType /\ "expired" \in EventType /\ "failed" \in EventType
      /\ "watch_lost" \in EventType /\ "settlement_submitted" \in EventType
      /\ "settlement_included" \in EventType /\ "settled" \in EventType
      /\ "settlement_retried" \in EventType
  BY DEF EventType, AppFacing
<1>3. ASSUME NEW w, mark_watch_registered(w) PROVE RecordsOrSkips
  BY <1>1, <1>2, <1>3, TransitionRecords, Zenon DEF mark_watch_registered
<1>4. ASSUME NEW d, NEW c, \/ apply_payment_pending(d) \/ apply_payment_orphaned(d) \/ apply_expired(d)
                           \/ apply_payment_confirmed(d, c) \/ apply_threshold_reached(d, c)
      PROVE  RecordsOrSkips
  BY <1>1, <1>2, <1>4, TransitionRecords, Zenon
     DEF apply_payment_pending, apply_payment_orphaned, apply_expired, apply_payment_confirmed,
         apply_threshold_reached
<1>5. CASE fail_open \/ reregister_watch \/ resubmit \/ retry_settlement
  BY <1>1, <1>2, <1>5, TransitionRecords, Zenon
     DEF fail_open, reregister_watch, resubmit, retry_settlement
<1>6. ASSUME NEW k, NEW replayed, mark_engine_submitted(k, replayed) PROVE RecordsOrSkips
  <2>. DEFINE guard == row.status = "paid" /\ row.job \in {NULL, k}
              updated == [row EXCEPT !.job = k]
  <2>1. \/ UNCHANGED <<timeline, outbox, dead, locked>>
        \/ Transition(row, guard, updated, "settlement_submitted", {})
    BY <1>6, Zenon DEF mark_engine_submitted
  <2>. HIDE DEF guard, updated
  <2>. QED
    BY <1>1, <1>2, <2>1, TransitionRecords, Zenon DEF RecordsOrSkips
<1>7. ASSUME NEW k, NEW code, \/ apply_settlement_included(k) \/ apply_settled(k)
                              \/ apply_failed(code, k)
      PROVE  RecordsOrSkips
  BY <1>1, <1>2, <1>7, TransitionRecords, Zenon
     DEF apply_settlement_included, apply_settled, apply_failed
<1>8. CASE DetectionStep
  BY <1>3, <1>4, <1>5, <1>8, Zenon DEF DetectionStep
<1>9. CASE SettlementStep
  BY <1>5, <1>6, <1>7, <1>9, Zenon DEF SettlementStep
<1>. QED
  BY <1>8, <1>9
=============================================================================
