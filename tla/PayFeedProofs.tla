--------------------------- MODULE PayFeedProofs ---------------------------
(***************************************************************************)
(* The pay page's feed, for any number of readers, changes and lost        *)
(* connections and any capacity of the channel: no held request sleeps     *)
(* through a change, and every answer is of one moment.                    *)
(*                                                                         *)
(* A wake is handed on from the listener's reconnection to its queue, to   *)
(* a reader's receiver and, when that overflows, to its lag mark; the      *)
(* lemmas about Received and Broadcast say that it is never dropped.       *)
(***************************************************************************)
EXTENDS PayFeed, DepositStoreProofs

\* A status and a sequence that were read together.
AsOf(status, seq) ==
    /\ seq \in 1..event_seq
    /\ \E i \in 1..seq : /\ <<timeline[i], status>> \in Moves
                         /\ \A j \in (i + 1)..seq : timeline[j] \in Still

\* What a request holds while it waits, or before it adds the events.
ReadsAreTrue ==
    \A r \in Readers :
        reader[r].step \in {"hold", "events"} => AsOf(reader[r].got.status, reader[r].got.seq)

AnswersAreTrue ==
    \A r \in Readers :
        answer[r].seq > 0 => /\ AsOf(answer[r].status, answer[r].seq)
                             /\ \A i \in answer[r].events : i <= answer[r].seq

FeedInv == StoreInv /\ TypeOK /\ NoMissedChange /\ ReadsAreTrue /\ AnswersAreTrue

USE PayFeedAssumption

-----------------------------------------------------------------------------
(* The channel                                                             *)

LEMMA ReceivedFacts ==
    ASSUME NEW c \in Receiver, Len(c.msgs) <= CAPACITY, NEW msg \in Message
    PROVE  /\ Received(c, msg) \in Receiver
           /\ Len(Received(c, msg).msgs) <= CAPACITY
           /\ Wakes(c) \/ msg # "other" => Wakes(Received(c, msg))
<1>0. c.lagged \in BOOLEAN /\ c.msgs \in Seq(Message) /\ Len(c.msgs) \in Nat
  BY DEF Receiver
<1>1. CASE Len(c.msgs) < CAPACITY
  <2>. DEFINE m == Append(c.msgs, msg)
  <2>1. /\ m \in Seq(Message) /\ Len(m) = Len(c.msgs) + 1
        /\ m[Len(c.msgs) + 1] = msg
        /\ \A i \in 1..Len(c.msgs) : m[i] = c.msgs[i]
    BY <1>0
  <2>2. Received(c, msg) = [c EXCEPT !.msgs = m]
    BY <1>1 DEF Received
  <2>. HIDE DEF m
  <2>3. /\ Received(c, msg) \in Receiver /\ Received(c, msg).msgs = m
        /\ Received(c, msg).lagged = c.lagged
    BY <2>1, <2>2 DEF Receiver
  <2>4. Wakes(c) \/ msg # "other" => Wakes(Received(c, msg))
    BY <1>0, <2>1, <2>3 DEF Wakes
  <2>. QED
    BY <1>0, <1>1, <2>1, <2>3, <2>4
<1>2. CASE ~(Len(c.msgs) < CAPACITY)
  <2>. DEFINE m == Append(Tail(c.msgs), msg)
  <2>1. c.msgs # <<>>
    BY <1>0, <1>2
  <2>2. m \in Seq(Message) /\ Len(m) = Len(c.msgs)
    BY <1>0, <2>1
  <2>3. Received(c, msg) = [lagged |-> TRUE, msgs |-> m]
    BY <1>2 DEF Received
  <2>. HIDE DEF m
  <2>. QED
    BY <2>2, <2>3 DEF Receiver, Wakes
<1>. QED
  BY <1>1, <1>2

LEMMA BroadcastFacts ==
    ASSUME TypeOK, NEW msg \in Message, Broadcast(msg)
    PROVE  /\ channel' \in [Readers -> Receiver]
           /\ \A r \in Readers : Len(channel'[r].msgs) <= CAPACITY
           /\ \A r \in Readers :
                reader[r].step # "idle" /\ (Wakes(channel[r]) \/ msg # "other") => Wakes(channel'[r])
<1>1. ASSUME NEW r \in Readers
      PROVE  /\ channel'[r] \in Receiver /\ Len(channel'[r].msgs) <= CAPACITY
             /\ reader[r].step # "idle" /\ (Wakes(channel[r]) \/ msg # "other") => Wakes(channel'[r])
  <2>1. channel[r] \in Receiver /\ Len(channel[r].msgs) <= CAPACITY
    BY DEF TypeOK
  <2>2. channel'[r] = IF reader[r].step = "idle" THEN channel[r] ELSE Received(channel[r], msg)
    BY DEF Broadcast
  <2>. QED
    BY <2>1, <2>2, ReceivedFacts
<1>2. channel' = [r \in Readers |-> channel'[r]]
  BY DEF Broadcast
<1>. QED
  BY <1>1, <1>2

-----------------------------------------------------------------------------
(* The store's side                                                        *)

\* A change is a call of the store, and the timeline only grows.
LEMMA ChangeFacts ==
    ASSUME StoreInv, Change
    PROVE  /\ StoreInv'
           /\ event_seq' > event_seq
           /\ \A i \in 1..event_seq : timeline'[i] = timeline[i]
<1>0. StoreTypeOK /\ event_seq \in Nat /\ 1 \in 1..event_seq
  BY DEF StoreInv, StoreTypeOK, StatusMatchesTimeline, event_seq
<1>1. DetectionStep \/ SettlementStep
  <2>1. row \in Located
    BY DEF Located
  <2>2. "engine_refused" \in FailureCode \ {"none"}
    BY DEF FailureCode
  <2>. QED
    BY <1>0, <2>1, <2>2, Zenon DEF Change, DetectionStep, SettlementStep
<1>2. StoreInv'
  BY <1>1, DetectionPreserves, SettlementPreserves
<1>3. \A i \in 1..event_seq : timeline'[i] = timeline[i]
  <2>1. timeline' = timeline \/ \E e : timeline' = Append(timeline, e)
    BY Zenon DEF Change, apply_payment_pending, apply_threshold_reached, apply_settled,
           apply_failed, retry_settlement, Transition, record_event
  <2>2. timeline \in Seq(EventType)
    BY <1>0 DEF StoreTypeOK
  <2>. QED
    BY <2>1, <2>2 DEF event_seq
<1>. QED
  BY <1>2, <1>3 DEF Change

\* What was read stays a state the deposit was in.
LEMMA AsOfStays ==
    ASSUME StoreTypeOK, StoreTypeOK', event_seq' >= event_seq,
           \A i \in 1..event_seq : timeline'[i] = timeline[i],
           NEW status, NEW seq, AsOf(status, seq)
    PROVE  AsOf(status, seq)'
<1>1. event_seq \in Nat /\ event_seq' \in Nat /\ seq \in 1..event_seq
  BY DEF StoreTypeOK, event_seq, AsOf
<1>2. PICK i \in 1..seq : /\ <<timeline[i], status>> \in Moves
                          /\ \A j \in (i + 1)..seq : timeline[j] \in Still
  BY DEF AsOf
<1>3. \A j \in 1..seq : timeline'[j] = timeline[j]
  BY <1>1
<1>4. <<timeline'[i], status>> \in Moves /\ \A j \in (i + 1)..seq : timeline'[j] \in Still
  BY <1>1, <1>2, <1>3
<1>. QED
  BY <1>1, <1>4 DEF AsOf

-----------------------------------------------------------------------------
(* Every step                                                              *)

LEMMA StoreStays == StoreInv /\ UNCHANGED storeVars => StoreInv'
BY DEF StoreInv, StoreTypeOK, StatusMatchesTimeline, RowsHaveCauses, storeVars

\* A change is on its way to every reader that already holds an older view.
LEMMA ChangePreserves == FeedInv /\ Change => FeedInv'
<1>. SUFFICES ASSUME FeedInv, Change PROVE FeedInv'
  OBVIOUS
<1>. USE DEF FeedInv
<1>1. /\ StoreInv' /\ event_seq' > event_seq
      /\ \A i \in 1..event_seq : timeline'[i] = timeline[i]
  BY ChangeFacts
<1>2. StoreTypeOK /\ StoreTypeOK' /\ event_seq \in Nat /\ event_seq' \in Nat
  BY <1>1 DEF StoreInv, StoreTypeOK, event_seq
<1>3. UNCHANGED <<listener, channel, reader, answer, budget>> /\ Notified("ours")
  BY DEF Change
<1>4. queue \in Seq({"ours", "other"})
  BY DEF TypeOK
<1>5. queue' \in Seq({"ours", "other"})
  BY <1>3, <1>4 DEF Notified
<1>6. TypeOK'
  BY <1>2, <1>3, <1>5 DEF TypeOK
<1>7. \A r \in Readers : WakeOnItsWay(r)'
  <2>1. CASE listener = "down"
    BY <2>1, <1>3 DEF WakeOnItsWay
  <2>2. CASE listener # "down"
    <3>1. queue' = Append(queue, "ours")
      BY <1>3, <2>2 DEF Notified
    <3>2. Len(queue) + 1 \in 1..Len(queue') /\ queue'[Len(queue) + 1] = "ours"
      BY <3>1, <1>4
    <3>. QED
      BY <3>2 DEF WakeOnItsWay
  <2>. QED
    BY <2>1, <2>2
<1>8. NoMissedChange'
  BY <1>7 DEF NoMissedChange
<1>9. ReadsAreTrue'
  BY <1>1, <1>2, <1>3, AsOfStays DEF ReadsAreTrue
<1>10. AnswersAreTrue'
  BY <1>1, <1>2, <1>3, AsOfStays DEF AnswersAreTrue
<1>. QED
  BY <1>1, <1>6, <1>8, <1>9, <1>10

\* What a step that leaves the deposit, the requests and the answers alone must
\* still show.
LEMMA ListenerKeeps ==
    ASSUME FeedInv, UNCHANGED <<storeVars, reader, answer>>, TypeOK',
           \A r \in Readers : reader[r].step = "hold" /\ WakeOnItsWay(r) => WakeOnItsWay(r)'
    PROVE  FeedInv'
<1>1. StoreInv' /\ UNCHANGED <<timeline, event_seq, reader, answer>>
  BY StoreStays DEF FeedInv, storeVars, event_seq
<1>2. NoMissedChange'
  BY <1>1 DEF FeedInv, NoMissedChange
<1>3. ReadsAreTrue' /\ AnswersAreTrue'
  BY <1>1 DEF FeedInv, ReadsAreTrue, AnswersAreTrue, AsOf
<1>. QED
  BY <1>1, <1>2, <1>3 DEF FeedInv

\* The listener's steps hand every wake on.
LEMMA ListenerPreserves ==
    FeedInv /\ (OtherChange \/ Connect \/ Resync \/ Relay \/ Drop) => FeedInv'
<1>. SUFFICES ASSUME FeedInv, OtherChange \/ Connect \/ Resync \/ Relay \/ Drop PROVE FeedInv'
  OBVIOUS
<1>0. TypeOK /\ StoreTypeOK /\ queue \in Seq({"ours", "other"})
      /\ budget \in [{"others", "drops"} -> Nat]
  BY DEF FeedInv, TypeOK
<1>1. CASE OtherChange
  <2>1. queue' \in Seq({"ours", "other"}) /\ Len(queue') >= Len(queue)
        /\ \A i \in 1..Len(queue) : queue'[i] = queue[i]
    BY <1>0, <1>1 DEF OtherChange, Notified
  <2>2. budget' \in [{"others", "drops"} -> Nat]
    BY <1>0, <1>1 DEF OtherChange, Spend
  <2>3. TypeOK'
    BY <1>0, <1>1, <2>1, <2>2 DEF OtherChange, TypeOK, StoreTypeOK, storeVars
  <2>4. \A r \in Readers : WakeOnItsWay(r) => WakeOnItsWay(r)'
    BY <1>0, <1>1, <2>1 DEF OtherChange, WakeOnItsWay
  <2>. QED
    BY <1>1, <2>3, <2>4, ListenerKeeps DEF OtherChange
<1>2. CASE Connect
  <2>1. TypeOK'
    BY <1>0, <1>2 DEF Connect, TypeOK, StoreTypeOK, storeVars
  <2>2. \A r \in Readers : WakeOnItsWay(r)'
    BY <1>2 DEF Connect, WakeOnItsWay
  <2>. QED
    BY <1>2, <2>1, <2>2, ListenerKeeps DEF Connect
<1>3. CASE Resync
  <2>1. "resync" \in Message
    BY DEF Message
  <2>2. /\ channel' \in [Readers -> Receiver]
        /\ \A r \in Readers : Len(channel'[r].msgs) <= CAPACITY
        /\ \A r \in Readers : reader[r].step # "idle" => Wakes(channel'[r])
    BY <1>0, <1>3, <2>1, BroadcastFacts DEF Resync
  <2>3. TypeOK'
    BY <1>0, <1>3, <2>2 DEF Resync, TypeOK, StoreTypeOK, storeVars
  <2>4. \A r \in Readers : reader[r].step = "hold" => WakeOnItsWay(r)'
    BY <2>2 DEF WakeOnItsWay
  <2>. QED
    BY <1>3, <2>3, <2>4, ListenerKeeps DEF Resync
<1>4. CASE Relay
  <2>1. queue # <<>> /\ Head(queue) \in {"ours", "other"} /\ queue' = Tail(queue)
    BY <1>0, <1>4 DEF Relay
  <2>2. Head(queue) \in Message
    BY <2>1 DEF Message
  <2>3. /\ channel' \in [Readers -> Receiver]
        /\ \A r \in Readers : Len(channel'[r].msgs) <= CAPACITY
        /\ \A r \in Readers : reader[r].step # "idle"
                              /\ (Wakes(channel[r]) \/ Head(queue) # "other") => Wakes(channel'[r])
    BY <1>0, <1>4, <2>2, BroadcastFacts DEF Relay
  <2>4. TypeOK'
    BY <1>0, <1>4, <2>1, <2>3 DEF Relay, TypeOK, StoreTypeOK, storeVars
  <2>5. ASSUME NEW r \in Readers, reader[r].step = "hold", WakeOnItsWay(r)
        PROVE  WakeOnItsWay(r)'
    <3>1. CASE Wakes(channel[r]) \/ Head(queue) # "other"
      BY <2>3, <2>5, <3>1 DEF WakeOnItsWay
    <3>2. CASE ~Wakes(channel[r]) /\ Head(queue) = "other"
      <4>1. PICK i \in 1..Len(queue) : queue[i] = "ours"
        BY <1>4, <2>5, <3>2 DEF WakeOnItsWay, Relay
      <4>2. i - 1 \in 1..Len(queue') /\ queue'[i - 1] = "ours"
        BY <1>0, <2>1, <3>2, <4>1
      <4>. QED
        BY <4>2 DEF WakeOnItsWay
    <3>. QED
      BY <3>1, <3>2
  <2>. QED
    BY <1>4, <2>4, <2>5, ListenerKeeps DEF Relay
<1>5. CASE Drop
  <2>1. budget' \in [{"others", "drops"} -> Nat]
    BY <1>0, <1>5 DEF Drop, Spend
  <2>2. TypeOK'
    BY <1>0, <1>5, <2>1 DEF Drop, TypeOK, StoreTypeOK, storeVars
  <2>3. \A r \in Readers : WakeOnItsWay(r)'
    BY <1>5 DEF Drop, WakeOnItsWay
  <2>. QED
    BY <1>5, <2>2, <2>3, ListenerKeeps DEF Drop
<1>. QED
  BY <1>1, <1>2, <1>3, <1>4, <1>5

\* What the step of one request must show: of its own part only.
ReaderType == [step: Step, after: Nat, wait: BOOLEAN, got: Read]

LEMMA ReaderKeeps ==
    ASSUME FeedInv, NEW p \in Readers, UNCHANGED <<storeVars, listener, queue, budget>>,
           NEW e \in ReaderType, NEW c \in Receiver, NEW v \in View,
           reader' = [reader EXCEPT ![p] = e],
           channel' = [channel EXCEPT ![p] = c],
           answer' = [answer EXCEPT ![p] = v],
           Len(c.msgs) <= CAPACITY,
           e.step = "hold" /\ e.got.seq < event_seq =>
               \/ listener # "up"
               \/ \E i \in 1..Len(queue) : queue[i] = "ours"
               \/ Wakes(c),
           e.step \in {"hold", "events"} => AsOf(e.got.status, e.got.seq),
           v.seq > 0 => AsOf(v.status, v.seq) /\ \A i \in v.events : i <= v.seq
    PROVE  FeedInv'
<1>0. /\ TypeOK
      /\ reader \in [Readers -> ReaderType] /\ channel \in [Readers -> Receiver]
      /\ answer \in [Readers -> View]
  BY DEF FeedInv, TypeOK, ReaderType
<1>1. /\ reader'[p] = e /\ channel'[p] = c /\ answer'[p] = v
      /\ \A r \in Readers \ {p} : /\ reader'[r] = reader[r] /\ channel'[r] = channel[r]
                                  /\ answer'[r] = answer[r]
      /\ reader' \in [Readers -> ReaderType] /\ channel' \in [Readers -> Receiver]
      /\ answer' \in [Readers -> View]
  BY <1>0
<1>2. StoreInv' /\ UNCHANGED <<timeline, event_seq>> /\ StoreTypeOK'
  BY StoreStays DEF FeedInv, storeVars, event_seq, StoreInv
<1>3. TypeOK'
  <2>1. \A r \in Readers : Len(channel'[r].msgs) <= CAPACITY
    BY <1>0, <1>1 DEF TypeOK
  <2>. QED
    BY <1>0, <1>1, <1>2, <2>1 DEF TypeOK, ReaderType
<1>4. NoMissedChange'
  <2>1. \A r \in Readers \ {p} :
           reader'[r].step = "hold" /\ reader'[r].got.seq < event_seq' => WakeOnItsWay(r)'
    BY <1>1, <1>2 DEF FeedInv, NoMissedChange, WakeOnItsWay
  <2>2. reader'[p].step = "hold" /\ reader'[p].got.seq < event_seq' => WakeOnItsWay(p)'
    BY <1>1, <1>2 DEF WakeOnItsWay
  <2>. QED
    BY <2>1, <2>2 DEF NoMissedChange
<1>5. ReadsAreTrue'
  <2>1. \A r \in Readers \ {p} : reader'[r].step \in {"hold", "events"} =>
           AsOf(reader[r].got.status, reader[r].got.seq)
    BY <1>1 DEF FeedInv, ReadsAreTrue
  <2>. QED
    BY <1>1, <1>2, <2>1 DEF ReadsAreTrue, AsOf
<1>6. AnswersAreTrue'
  <2>1. \A r \in Readers \ {p} : answer'[r].seq > 0 =>
           AsOf(answer[r].status, answer[r].seq) /\ \A i \in answer[r].events : i <= answer[r].seq
    BY <1>1 DEF FeedInv, AnswersAreTrue
  <2>. QED
    BY <1>1, <1>2, <2>1 DEF AnswersAreTrue, AsOf
<1>. QED
  BY <1>2, <1>3, <1>4, <1>5, <1>6 DEF FeedInv

\* A request reads after it has subscribed, so what it holds is either current
\* or followed by a wake; a message it skips is another deposit's.
LEMMA ReaderPreserves ==
    ASSUME FeedInv, NEW p \in Readers, ReaderNext(p)
    PROVE  FeedInv'
<1>0. /\ TypeOK /\ StoreInv /\ event_seq \in Nat
      /\ reader[p] \in ReaderType /\ channel[p] \in Receiver /\ answer[p] \in View
      /\ Len(channel[p].msgs) <= CAPACITY
      /\ reader = [reader EXCEPT ![p] = reader[p]]
      /\ channel = [channel EXCEPT ![p] = channel[p]]
      /\ answer = [answer EXCEPT ![p] = answer[p]]
  BY DEF FeedInv, TypeOK, ReaderType, StoreInv, StoreTypeOK, event_seq
<1>1. answer[p].seq > 0 =>
        AsOf(answer[p].status, answer[p].seq) /\ \A i \in answer[p].events : i <= answer[p].seq
  BY DEF FeedInv, AnswersAreTrue
<1>2. reader[p].step \in {"hold", "events"} => AsOf(reader[p].got.status, reader[p].got.seq)
  BY DEF FeedInv, ReadsAreTrue
<1>3. IdleReader \in ReaderType /\ IdleReader.step = "idle"
      /\ NewReceiver \in Receiver /\ Len(NewReceiver.msgs) <= CAPACITY
  BY DEF IdleReader, ReaderType, Step, Read, Status, Open, NewReceiver, Receiver
<1>4. CASE Subscribe(p)
  <2>1. PICK wait \in BOOLEAN :
           reader' = [reader EXCEPT ![p] = [IdleReader EXCEPT !.step = "read", !.wait = wait,
                                                              !.after = answer[p].seq]]
    BY <1>4 DEF Subscribe
  <2>. DEFINE e == [IdleReader EXCEPT !.step = "read", !.wait = wait, !.after = answer[p].seq]
  <2>2. e \in ReaderType /\ e.step = "read"
    BY <1>0, <1>3 DEF ReaderType, Step, View, IdleReader
  <2>3. reader' = [reader EXCEPT ![p] = e]
    BY <2>1
  <2>. HIDE DEF e
  <2>. QED
    BY <1>0, <1>1, <1>3, <1>4, <2>2, <2>3, ReaderKeeps DEF Subscribe
<1>5. CASE ReadDeposit(p)
  <2>. DEFINE holds == reader[p].wait /\ event_seq <= reader[p].after
              got == [status |-> row.status, seq |-> event_seq]
              e == [reader[p] EXCEPT !.step = IF holds THEN "hold" ELSE "events", !.got = got]
  <2>1. got \in Read /\ got.status = row.status /\ got.seq = event_seq
    BY <1>0 DEF Read, StoreInv, StoreTypeOK, Deposit
  <2>2. reader' = [reader EXCEPT ![p] = e]
    BY <1>0, <1>5 DEF ReadDeposit, TypeOK
  <2>3. AsOf(row.status, event_seq)
    <3>1. PICK i \in 1..event_seq : /\ <<timeline[i], row.status>> \in Moves
                                    /\ \A j \in (i + 1)..event_seq : timeline[j] \in Still
      BY <1>0, Zenon DEF StoreInv, StatusMatchesTimeline, event_seq
    <3>2. event_seq \in 1..event_seq
      BY <1>0, <3>1
    <3>. QED
      BY <3>1, <3>2, Zenon DEF AsOf
  <2>. HIDE DEF got, holds
  <2>4. e \in ReaderType /\ e.got = got
    BY <1>0, <2>1 DEF ReaderType, Step
  <2>. HIDE DEF e
  <2>5. ~(e.got.seq < event_seq) /\ AsOf(e.got.status, e.got.seq)
    BY <1>0, <2>1, <2>3, <2>4
  <2>6. UNCHANGED <<storeVars, listener, queue, budget>>
        /\ channel' = [channel EXCEPT ![p] = channel[p]] /\ answer' = [answer EXCEPT ![p] = answer[p]]
    BY <1>0, <1>5 DEF ReadDeposit
  <2>. QED
    BY <1>0, <1>1, <2>2, <2>4, <2>5, <2>6, ReaderKeeps, Zenon
<1>6. CASE Receive(p)
  <2>1. CASE channel[p].lagged
    <3>. DEFINE e == [reader[p] EXCEPT !.step = "read"]
                c == [channel[p] EXCEPT !.lagged = FALSE]
    <3>1. e \in ReaderType /\ e.step = "read"
      BY <1>0 DEF ReaderType, Step
    <3>2. c \in Receiver /\ Len(c.msgs) <= CAPACITY
      BY <1>0 DEF Receiver
    <3>3. reader' = [reader EXCEPT ![p] = e] /\ channel' = [channel EXCEPT ![p] = c]
      BY <1>0, <1>6, <2>1 DEF Receive, TypeOK
    <3>. HIDE DEF e, c
    <3>. QED
      BY <1>0, <1>1, <1>6, <3>1, <3>2, <3>3, ReaderKeeps DEF Receive
  <2>2. CASE ~channel[p].lagged
    <3>. DEFINE s == IF Head(channel[p].msgs) = "other" THEN "hold" ELSE "read"
                e == [reader[p] EXCEPT !.step = s]
                m == Tail(channel[p].msgs)
                c == [channel[p] EXCEPT !.msgs = m]
    <3>1. channel[p].msgs # <<>> /\ channel[p].msgs \in Seq(Message) /\ reader[p].step = "hold"
      BY <1>0, <1>6, <2>2 DEF Receive, Receiver
    <3>2. m \in Seq(Message) /\ Len(m) <= CAPACITY
          /\ Len(m) = Len(channel[p].msgs) - 1
          /\ \A i \in 2..Len(channel[p].msgs) : m[i - 1] = channel[p].msgs[i]
      BY <1>0, <3>1
    <3>3. reader' = [reader EXCEPT ![p] = e] /\ channel' = [channel EXCEPT ![p] = c]
      BY <1>0, <1>6, <2>2 DEF Receive, TypeOK
    <3>4. e \in ReaderType /\ e.step = s /\ e.got = reader[p].got
      BY <1>0 DEF ReaderType, Step
    <3>5. s = "hold" /\ Wakes(channel[p]) => \E i \in 1..Len(m) : m[i] # "other"
      <4>1. SUFFICES ASSUME Head(channel[p].msgs) = "other", Wakes(channel[p])
                     PROVE  \E i \in 1..Len(m) : m[i] # "other"
        OBVIOUS
      <4>2. PICK i \in 1..Len(channel[p].msgs) : channel[p].msgs[i] # "other"
        BY <2>2, <4>1 DEF Wakes
      <4>3. i \in 2..Len(channel[p].msgs)
        BY <3>1, <4>1, <4>2
      <4>4. i - 1 \in 1..Len(m) /\ m[i - 1] # "other"
        BY <3>1, <3>2, <4>2, <4>3
      <4>. QED
        BY <4>4
    <3>. HIDE DEF m
    <3>6. c \in Receiver /\ c.msgs = m
      BY <1>0, <3>2 DEF Receiver
    <3>. HIDE DEF c, e
    <3>7. e.step = "hold" /\ e.got.seq < event_seq =>
             \/ listener # "up"
             \/ \E i \in 1..Len(queue) : queue[i] = "ours"
             \/ Wakes(c)
      <4>1. reader[p].got.seq < event_seq => WakeOnItsWay(p)
        BY <3>1 DEF FeedInv, NoMissedChange
      <4>. QED
        BY <3>4, <3>5, <3>6, <4>1 DEF WakeOnItsWay, Wakes
    <3>8. e.step \in {"hold", "events"} => AsOf(e.got.status, e.got.seq)
      BY <1>2, <3>1, <3>4
    <3>. QED
      BY <1>0, <1>1, <1>6, <3>2, <3>3, <3>4, <3>6, <3>7, <3>8, ReaderKeeps DEF Receive
  <2>. QED
    BY <2>1, <2>2
<1>7. CASE HoldEnds(p)
  <2>. DEFINE e == [reader[p] EXCEPT !.step = "events"]
  <2>1. e \in ReaderType /\ e.step = "events" /\ e.got = reader[p].got
    BY <1>0 DEF ReaderType, Step
  <2>2. reader' = [reader EXCEPT ![p] = e] /\ reader[p].step = "hold"
    BY <1>0, <1>7 DEF HoldEnds, TypeOK
  <2>. HIDE DEF e
  <2>3. e.step # "hold" /\ AsOf(e.got.status, e.got.seq)
    BY <1>2, <2>1, <2>2
  <2>4. UNCHANGED <<storeVars, listener, queue, budget>>
        /\ channel' = [channel EXCEPT ![p] = channel[p]] /\ answer' = [answer EXCEPT ![p] = answer[p]]
    BY <1>0, <1>7 DEF HoldEnds
  <2>. QED
    BY <1>0, <1>1, <2>1, <2>2, <2>3, <2>4, ReaderKeeps, Zenon
<1>8. CASE Answer(p)
  <2>. DEFINE got == reader[p].got
              shown == events_through(got.seq)
              v == [status |-> got.status, seq |-> got.seq, events |-> shown]
  <2>1. got \in Read /\ got.seq \in Nat /\ AsOf(got.status, got.seq)
    BY <1>0, <1>2, <1>8 DEF Answer, ReaderType, Read
  <2>2. shown \in SUBSET Nat /\ \A i \in shown : i <= got.seq
    BY <2>1 DEF events_through
  <2>3. answer' = [answer EXCEPT ![p] = v]
    BY <1>8 DEF Answer
  <2>. HIDE DEF shown
  <2>4. v \in View
    BY <2>1, <2>2 DEF View, Read
  <2>5. v.seq > 0 => AsOf(v.status, v.seq) /\ \A i \in v.events : i <= v.seq
    BY <2>1, <2>2
  <2>. HIDE DEF v
  <2>. QED
    BY <1>0, <1>3, <1>8, <2>3, <2>4, <2>5, ReaderKeeps DEF Answer
<1>. QED
  BY <1>4, <1>5, <1>6, <1>7, <1>8 DEF ReaderNext

-----------------------------------------------------------------------------
\* The feed and its readers keep the invariant, whatever the listener loses and
\* the channel drops.
THEOREM FeedCorrect == Spec => []FeedInv
<1>1. Init => FeedInv
  <2>. SUFFICES ASSUME Init PROVE FeedInv
    OBVIOUS
  <2>1. StoreInv
    BY DEF Init, StoreInit, StoreInv, StoreTypeOK, StatusMatchesTimeline, RowsHaveCauses, NewDeposit,
           Deposit, NULL, OutboxJob, OutboxRow, EventType, AppFacing, Kind, Open, Terminal, Status,
           FailureCode, Moves, Still, Causes
  <2>2. TypeOK
    BY <2>1 DEF Init, StoreInv, TypeOK, NewReceiver, Receiver, IdleReader, Step, Read, View, Status, Open
  <2>3. NoMissedChange /\ ReadsAreTrue /\ AnswersAreTrue
    BY DEF Init, NoMissedChange, ReadsAreTrue, AnswersAreTrue, IdleReader
  <2>. QED
    BY <2>1, <2>2, <2>3 DEF FeedInv
<1>2. FeedInv /\ [Next]_vars => FeedInv'
  <2>1. FeedInv /\ UNCHANGED vars => FeedInv'
    BY StoreStays DEF vars, FeedInv, TypeOK, StoreInv, NoMissedChange, WakeOnItsWay, ReadsAreTrue,
           AnswersAreTrue, AsOf, event_seq, storeVars
  <2>. QED
    BY <2>1, ChangePreserves, ListenerPreserves, ReaderPreserves DEF Next
<1>. QED
  BY <1>1, <1>2, PTL DEF Spec

\* No held request sleeps through a change (view, listen, record_event).
THEOREM FeedMissesNothing == Spec => []NoMissedChange
<1>1. FeedInv => NoMissedChange
  BY DEF FeedInv
<1>. QED
  BY <1>1, FeedCorrect, PTL

\* Every answer shows one moment of its deposit (view, events_through).
THEOREM FeedAnswersConsistently == Spec => []AnswersAreConsistent
<1>1. FeedInv => AnswersAreConsistent
  BY DEF FeedInv, AnswersAreTrue, AnswersAreConsistent, AsOf
<1>. QED
  BY <1>1, FeedCorrect, PTL
=============================================================================
