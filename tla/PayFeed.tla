------------------------------ MODULE PayFeed -------------------------------
(***************************************************************************)
(* GET /v1/pay/{id}: long-polling readers of one deposit and the feed that *)
(* wakes them.                                                             *)
(*                                                                         *)
(* record_event notifies a Postgres channel with its commit.  The one      *)
(* listener of the process relays what it hears to a broadcast channel     *)
(* that waiting requests subscribe to, and tells everyone to read again    *)
(* after a gap.  A request subscribes, reads, and holds until something    *)
(* newer than what its client has turns up or its time is over.            *)
(***************************************************************************)
EXTENDS DepositStore, FiniteSets

CONSTANTS
    Readers,      \* requests being served by this process
    CAPACITY,     \* of the broadcast channel
    MaxEvents,    \* bound: events the deposit records
    MaxOthers,    \* bound: events of other deposits
    MaxDrops      \* bound: losses of the listener's connection

VARIABLES
    listener,     \* "down", "listening" (LISTEN done, nobody told yet), "up"
    queue,        \* notifications Postgres holds for the listener's session
    channel,      \* per reader: what its broadcast receiver has not returned yet
    reader,       \* per reader: step, what its client has, what it has read
    answer,       \* per reader: the last view it answered with
    budget        \* what is left of the bounds above

vars == <<storeVars, listener, queue, channel, reader, answer, budget>>

ASSUME PayFeedAssumption ==
    /\ CAPACITY \in Nat \ {0}
    /\ {MaxEvents, MaxOthers, MaxDrops} \subseteq Nat

-----------------------------------------------------------------------------
(* Data                                                                    *)

\* A change of this deposit, of another one, and RESYNC.
Message == {"ours", "other", "resync"}

PAYER_EVENTS == EventType \ {"watch_registered", "watch_lost", "settlement_retried"}

\* The row as a request has read it, and the positions of the events it shows.
Read == [status: Status, seq: Nat]
View == [status: Status, seq: Nat, events: SUBSET Nat]

Receiver == [lagged: BOOLEAN, msgs: Seq(Message)]
NewReceiver == [lagged |-> FALSE, msgs |-> <<>>]

Step == {"idle", "read", "hold", "events"}
IdleReader == [step |-> "idle", after |-> 0, wait |-> FALSE, got |-> [status |-> "pending", seq |-> 0]]

Spend(kind) ==
    /\ budget[kind] > 0
    /\ budget' = [budget EXCEPT ![kind] = @ - 1]

TypeOK ==
    /\ StoreTypeOK
    /\ listener \in {"down", "listening", "up"}
    /\ queue \in Seq({"ours", "other"})
    /\ channel \in [Readers -> Receiver]
    /\ \A r \in Readers : Len(channel[r].msgs) <= CAPACITY
    /\ reader \in [Readers -> [step: Step, after: Nat, wait: BOOLEAN, got: Read]]
    /\ answer \in [Readers -> View]
    /\ budget \in [{"others", "drops"} -> Nat]

Init ==
    /\ StoreInit
    /\ listener = "down" /\ queue = <<>>
    /\ channel = [r \in Readers |-> NewReceiver]
    /\ reader = [r \in Readers |-> IdleReader]
    /\ answer = [r \in Readers |-> [status |-> "pending", seq |-> 0, events |-> {}]]
    /\ budget = [others |-> MaxOthers, drops |-> MaxDrops]

-----------------------------------------------------------------------------
(* Changes and their notifications                                         *)

\* pg_notify at commit: heard by a session that has run LISTEN.
Notified(what) == queue' = IF listener = "down" THEN queue ELSE Append(queue, what)

Change ==
    /\ event_seq < MaxEvents
    /\ \/ apply_payment_pending(row)
       \/ \E c \in Totals : apply_threshold_reached(row, c)
       \/ apply_settled(1) \/ apply_failed("engine_refused", NULL) \/ retry_settlement
    /\ event_seq' > event_seq
    /\ Notified("ours")
    /\ UNCHANGED <<listener, channel, reader, answer, budget>>

OtherChange ==
    /\ Spend("others")
    /\ Notified("other")
    /\ UNCHANGED <<storeVars, listener, channel, reader, answer>>

-----------------------------------------------------------------------------
(* The listener: run and listen                                            *)

\* A full channel drops its oldest message and the receiver has lagged.
Received(c, msg) ==
    IF Len(c.msgs) < CAPACITY THEN [c EXCEPT !.msgs = Append(@, msg)]
    ELSE [lagged |-> TRUE, msgs |-> Append(Tail(c.msgs), msg)]

\* send: to those who have subscribed.
Broadcast(msg) ==
    channel' = [r \in Readers |->
        IF reader[r].step = "idle" THEN channel[r] ELSE Received(channel[r], msg)]

\* Mutant: a listener whose connection was lost is not started again.
Connect_once ==
    /\ listener = "down" /\ budget["drops"] = MaxDrops
    /\ listener' = "listening"
    /\ UNCHANGED <<storeVars, queue, channel, reader, answer, budget>>

\* The connection is (re-)established and LISTENs: by listen, or by the
\* listener itself before try_recv returns None.
Connect ==
    /\ listener = "down"
    /\ listener' = "listening"
    /\ UNCHANGED <<storeVars, queue, channel, reader, answer, budget>>

\* Mutant: a listener that is back says nothing.
Resync_silent ==
    /\ listener = "listening"
    /\ listener' = "up"
    /\ UNCHANGED <<storeVars, queue, channel, reader, answer, budget>>

Resync ==
    /\ listener = "listening"
    /\ listener' = "up"
    /\ Broadcast("resync")
    /\ UNCHANGED <<storeVars, queue, reader, answer, budget>>

Relay ==
    /\ listener = "up" /\ queue # <<>>
    /\ Broadcast(Head(queue))
    /\ queue' = Tail(queue)
    /\ UNCHANGED <<storeVars, listener, reader, answer, budget>>

\* The connection is lost, and what Postgres held for it.
Drop ==
    /\ listener # "down"
    /\ Spend("drops")
    /\ listener' = "down" /\ queue' = <<>>
    /\ UNCHANGED <<storeVars, channel, reader, answer>>

-----------------------------------------------------------------------------
(* A request: view                                                         *)

\* subscribe; `after` is what the client has: what it was answered before, or
\* nothing (it does not wait then).
Subscribe(r) ==
    /\ reader[r].step = "idle"
    /\ \E wait \in BOOLEAN :
        reader' = [reader EXCEPT ![r] = [IdleReader EXCEPT !.step = "read", !.wait = wait,
                                                          !.after = answer[r].seq]]
    /\ channel' = [channel EXCEPT ![r] = NewReceiver]
    /\ UNCHANGED <<storeVars, listener, queue, answer, budget>>

\* store::get, before the loop and in it: hold (on) while nothing is newer.
ReadDeposit(r) ==
    LET holds == reader[r].wait /\ event_seq <= reader[r].after
    IN  /\ reader[r].step = "read"
        /\ reader' = [reader EXCEPT ![r].step = IF holds THEN "hold" ELSE "events",
                                    ![r].got = [status |-> row.status, seq |-> event_seq]]
        /\ UNCHANGED <<storeVars, listener, queue, channel, answer, budget>>

\* recv: Lagged comes before what is left; another deposit's change is skipped.
Receive(r) ==
    LET c == channel[r]
    IN  /\ reader[r].step = "hold"
        /\ \/ /\ c.lagged
              /\ channel' = [channel EXCEPT ![r].lagged = FALSE]
              /\ reader' = [reader EXCEPT ![r].step = "read"]
           \/ /\ ~c.lagged /\ c.msgs # <<>>
              /\ channel' = [channel EXCEPT ![r].msgs = Tail(@)]
              /\ reader' = [reader EXCEPT ![r].step = IF Head(c.msgs) = "other" THEN "hold" ELSE "read"]
        /\ UNCHANGED <<storeVars, listener, queue, answer, budget>>

\* The deadline passes: answer with what was read last.
HoldEnds(r) ==
    /\ reader[r].step = "hold"
    /\ reader' = [reader EXCEPT ![r].step = "events"]
    /\ UNCHANGED <<storeVars, listener, queue, channel, answer, budget>>

\* Mutant: the events are not bounded by the sequence read with the row.
events_through_all(seq) == {i \in 1..event_seq : timeline[i] \in PAYER_EVENTS}

events_through(seq) == {i \in 1..seq : timeline[i] \in PAYER_EVENTS}

Answer(r) ==
    LET got == reader[r].got
    IN  /\ reader[r].step = "events"
        /\ answer' = [answer EXCEPT ![r] = [status |-> got.status, seq |-> got.seq,
                                            events |-> events_through(got.seq)]]
        /\ reader' = [reader EXCEPT ![r] = IdleReader]
        /\ channel' = [channel EXCEPT ![r] = NewReceiver]
        /\ UNCHANGED <<storeVars, listener, queue, budget>>

-----------------------------------------------------------------------------
ReaderNext(r) ==
    Subscribe(r) \/ ReadDeposit(r) \/ Receive(r) \/ HoldEnds(r) \/ Answer(r)

Next ==
    \/ Change \/ OtherChange
    \/ Connect \/ Resync \/ Relay \/ Drop
    \/ \E r \in Readers : ReaderNext(r)

Spec == Init /\ [][Next]_vars

\* run retries for ever, the listener relays what it has and a request goes on
\* once it can.  Nothing is assumed of changes or of clients, and no deadline
\* passes by itself: a reader must be woken by its change.
Fairness ==
    /\ WF_vars(Connect \/ Resync \/ Relay)
    /\ \A r \in Readers : WF_vars(ReadDeposit(r) \/ Receive(r) \/ Answer(r))

FairSpec == Spec /\ Fairness

-----------------------------------------------------------------------------
(* Properties                                                              *)

\* What makes a reader read again: something in its own channel, a notification
\* on its way, or the RESYNC a listener that is not up yet will send.
Wakes(c) == c.lagged \/ \E i \in 1..Len(c.msgs) : c.msgs[i] # "other"
WakeOnItsWay(r) ==
    \/ listener # "up"
    \/ \E i \in 1..Len(queue) : queue[i] = "ours"
    \/ Wakes(channel[r])

\* No reader sleeps through a change: while it holds a view that is out of
\* date, a wake is on its way, whatever the listener lost, the channel dropped
\* or was committed between its subscription and its read
\* (view, listen, record_event).
NoMissedChange ==
    \A r \in Readers :
        reader[r].step = "hold" /\ reader[r].got.seq < event_seq => WakeOnItsWay(r)

\* The status and the events of an answer are of one moment, although they are
\* read one after the other: the status is the one the timeline had at the
\* answer's sequence, and no later event is shown (events_through).
AnswersAreConsistent ==
    \A r \in Readers : LET v == answer[r] IN
        v.seq > 0 =>
            /\ \A i \in v.events : i <= v.seq
            /\ \E i \in 1..v.seq : /\ <<timeline[i], v.status>> \in Moves
                                   /\ \A j \in (i + 1)..v.seq : timeline[j] \in Still

\* A held request whose deposit changes is answered without waiting for its
\* deadline (the feed).
HeldIsAnswered ==
    \A r \in Readers :
        reader[r].step = "hold" /\ event_seq > reader[r].after ~> reader[r].step = "idle"
=============================================================================
