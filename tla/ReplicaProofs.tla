--------------------------- MODULE ReplicaProofs ----------------------------
(***************************************************************************)
(* One process of the service for any number of handlers and outbox rows,  *)
(* any size of pool, semaphore and batch, and any number of panics: the    *)
(* pool and the semaphore are never overdrawn, no wake-up is lost, and an  *)
(* orderly shutdown leaves no job of the loop that ended half done.        *)
(***************************************************************************)
EXTENDS Replica, FiniteSetTheorems, TLAPS

\* The two halves of InUse.
InTransaction == {h \in Handlers : handler[h] \in {"lookup", "apply", "commit"}}
Writing       == {r \in Rows : job[r] = "writing"}

RunningStep == {"load", "call", "write", "writing", "notify", "finish", "reschedule"}

\* Jobs of the current run of the loop hold its permits.
PermitsRespected == Cardinality(Running \ orphan) <= Permits

\* A wake-up is kept for the loop or about to be sent.
Announced ==
    \/ wake
    \/ \E h \in Handlers : handler[h] = "notify"
    \/ \E r \in Rows : job[r] = "notify"

\* WakeNotLost is not inductive: a row the loop did not see is already without
\* a claim while the loop spawns and awaits what it has seen.  A full batch
\* leaves rows behind without a wake-up, and then the loop does not sleep.
FreshIsAnnounced ==
    /\ loop.step \in {"spawn", "await", "sleep"} /\ ~loop.full
          /\ (\E r \in Rows : job[r] = "fresh")
       => Announced
    /\ loop.step = "sleep" => ~loop.full

\* A run that is over has no job left, and who stopped orderly has stopped.
EndedRunHasNoJob ==
    /\ loop.step \in {"returned", "panicked", "stopped"} => Running \subseteq orphan
    /\ main.orderly => loop.step = "stopped"

ReplicaInv == TypeOK /\ PermitsRespected /\ FreshIsAnnounced /\ EndedRunHasNoJob

USE ReplicaAssumption

-----------------------------------------------------------------------------
(* Counting                                                                *)

LEMMA Finite ==
    /\ IsFiniteSet(InTransaction) /\ IsFiniteSet(Writing) /\ IsFiniteSet(Running)
    /\ Cardinality(InTransaction) \in Nat /\ Cardinality(Writing) \in Nat
    /\ Cardinality(Running) \in Nat /\ InUse \in Nat
<1>1. IsFiniteSet(InTransaction) /\ IsFiniteSet(Writing) /\ IsFiniteSet(Running)
  <2>1. InTransaction \in SUBSET Handlers /\ Writing \in SUBSET Rows /\ Running \in SUBSET Rows
    BY DEF InTransaction, Writing, Running
  <2>. QED
    BY <2>1, FS_Subset
<1>2. /\ Cardinality(InTransaction) \in Nat /\ Cardinality(Writing) \in Nat
      /\ Cardinality(Running) \in Nat
  BY <1>1, FS_CardinalityType
<1>3. InUse = Cardinality(InTransaction) + Cardinality(Writing)
  BY DEF InUse, InTransaction, Writing
<1>. QED
  BY <1>1, <1>2, <1>3

LEMMA Smaller ==
    ASSUME NEW S, NEW T, IsFiniteSet(S), T \subseteq S
    PROVE  IsFiniteSet(T) /\ Cardinality(T) \in Nat /\ Cardinality(S) \in Nat
           /\ Cardinality(T) <= Cardinality(S)
BY FS_Subset, FS_CardinalityType

LEMMA OneMore ==
    ASSUME NEW S, NEW T, NEW x, IsFiniteSet(S), T \subseteq S \cup {x}
    PROVE  IsFiniteSet(T) /\ Cardinality(T) \in Nat /\ Cardinality(S) \in Nat
           /\ Cardinality(T) <= Cardinality(S) + 1
<1>1. IsFiniteSet(S \cup {x}) /\ Cardinality(S \cup {x}) <= Cardinality(S) + 1
      /\ Cardinality(S) \in Nat
  <2>1. Cardinality(S) \in Nat
    BY FS_CardinalityType
  <2>2. IsFiniteSet(S \cup {x})
        /\ Cardinality(S \cup {x}) = IF x \in S THEN Cardinality(S) ELSE Cardinality(S) + 1
    BY FS_AddElement
  <2>. QED
    BY <2>1, <2>2
<1>2. Cardinality(S \cup {x}) \in Nat
  BY <1>1, FS_CardinalityType
<1>. QED
  BY <1>1, <1>2, Smaller

\* A connection is taken only from a pool that has one.
LEMMA PoolKept ==
    ASSUME InUse <= Connections,
           \/ InTransaction' \subseteq InTransaction /\ Writing' \subseteq Writing
           \/ InUse < Connections /\ Writing' \subseteq Writing
                /\ \E h : InTransaction' \subseteq InTransaction \cup {h}
           \/ InUse < Connections /\ InTransaction' \subseteq InTransaction
                /\ \E r : Writing' \subseteq Writing \cup {r}
    PROVE  InUse' <= Connections
<1>1. /\ InUse = Cardinality(InTransaction) + Cardinality(Writing)
      /\ InUse' = Cardinality(InTransaction') + Cardinality(Writing')
  BY DEF InUse, InTransaction, Writing
<1>2. /\ IsFiniteSet(InTransaction) /\ IsFiniteSet(Writing)
      /\ Cardinality(InTransaction) \in Nat /\ Cardinality(Writing) \in Nat
  BY Finite
<1>3. CASE InTransaction' \subseteq InTransaction /\ Writing' \subseteq Writing
  <2>1. /\ Cardinality(InTransaction') \in Nat /\ Cardinality(Writing') \in Nat
        /\ Cardinality(InTransaction') <= Cardinality(InTransaction)
        /\ Cardinality(Writing') <= Cardinality(Writing)
    BY <1>2, <1>3, Smaller
  <2>. QED
    BY <1>1, <1>2, <2>1
<1>4. CASE InUse < Connections /\ Writing' \subseteq Writing
             /\ \E h : InTransaction' \subseteq InTransaction \cup {h}
  <2>1. /\ Cardinality(InTransaction') \in Nat /\ Cardinality(Writing') \in Nat
        /\ Cardinality(InTransaction') <= Cardinality(InTransaction) + 1
        /\ Cardinality(Writing') <= Cardinality(Writing)
    BY <1>2, <1>4, Smaller, OneMore
  <2>. QED
    BY <1>1, <1>2, <1>4, <2>1
<1>5. CASE InUse < Connections /\ InTransaction' \subseteq InTransaction
             /\ \E r : Writing' \subseteq Writing \cup {r}
  <2>1. /\ Cardinality(InTransaction') \in Nat /\ Cardinality(Writing') \in Nat
        /\ Cardinality(InTransaction') <= Cardinality(InTransaction)
        /\ Cardinality(Writing') <= Cardinality(Writing) + 1
    BY <1>2, <1>5, Smaller, OneMore
  <2>. QED
    BY <1>1, <1>2, <1>5, <2>1
<1>. QED
  BY <1>3, <1>4, <1>5

LEMMA PermitsKept ==
    ASSUME PermitsRespected,
           \/ Running' \ orphan' \subseteq Running \ orphan
           \/ Cardinality(Running \ orphan) < Permits
                /\ \E r : Running' \ orphan' \subseteq (Running \ orphan) \cup {r}
    PROVE  PermitsRespected'
<1>1. IsFiniteSet(Running \ orphan) /\ Cardinality(Running \ orphan) \in Nat
  BY Finite, Smaller
<1>2. CASE Running' \ orphan' \subseteq Running \ orphan
  BY <1>1, <1>2, Smaller DEF PermitsRespected
<1>3. CASE Cardinality(Running \ orphan) < Permits
             /\ \E r : Running' \ orphan' \subseteq (Running \ orphan) \cup {r}
  <2>1. Cardinality((Running \ orphan)') \in Nat
        /\ Cardinality((Running \ orphan)') <= Cardinality(Running \ orphan) + 1
    BY <1>1, <1>3, OneMore
  <2>. QED
    BY <1>1, <1>3, <2>1 DEF PermitsRespected
<1>. QED
  BY <1>2, <1>3

\* What a commit makes of the rows.
LEMMA Inserted ==
    ASSUME NEW was \in [Rows -> JobStep], NEW S \in Additions, NEW step \in {"fresh", "due"},
           ahead \in [Rows -> SUBSET Rows], Insert(was, S, step)
    PROVE  /\ S \subseteq {r \in Rows : job[r] = "absent"}
           /\ job' \in [Rows -> JobStep] /\ ahead' \in [Rows -> SUBSET Rows]
           /\ \A r \in Rows : job'[r] = IF r \in S THEN step ELSE was[r]
BY DEF Additions, Insert, JobStep

-----------------------------------------------------------------------------
LEMMA InitReplica == Init => ReplicaInv
<1>. SUFFICES ASSUME Init PROVE ReplicaInv
  OBVIOUS
<1>1. Running = {} /\ InTransaction = {} /\ Writing = {}
  BY DEF Init, Running, InTransaction, Writing
<1>2. InUse <= Connections
  <2>1. InUse = Cardinality(InTransaction) + Cardinality(Writing)
    BY DEF InUse, InTransaction, Writing
  <2>. QED
    BY <1>1, <2>1, FS_EmptySet
<1>3. PermitsRespected
  <2>1. Running \ orphan = {}
    BY <1>1
  <2>. QED
    BY <2>1, FS_EmptySet DEF PermitsRespected
<1>4. handler \in [Handlers -> HandlerStep] /\ job \in [Rows -> JobStep]
  BY DEF Init, HandlerStep, JobStep
<1>5. loop \in [step: LoopStep, full: BOOLEAN] /\ main \in [step: MainStep, orderly: BOOLEAN]
  BY DEF Init, LoopStep, MainStep
<1>6. TypeOK
  <2>1. wake \in BOOLEAN
    BY Zenon DEF Init
  <2>2. /\ orphan \subseteq Running /\ panics \in 0..MaxPanics
        /\ ahead \in [Rows -> SUBSET Rows]
    BY <1>1 DEF Init
  <2>. QED
    BY <1>2, <1>4, <1>5, <2>1, <2>2 DEF TypeOK
<1>7. FreshIsAnnounced /\ EndedRunHasNoJob
  BY DEF Init, FreshIsAnnounced, EndedRunHasNoJob
<1>. QED
  BY <1>3, <1>6, <1>7 DEF ReplicaInv

LEMMA HandlerPreserves ==
    ASSUME ReplicaInv, NEW h \in Handlers, HandlerNext(h)
    PROVE  ReplicaInv'
<1>1. /\ TypeOK /\ PermitsRespected /\ FreshIsAnnounced /\ EndedRunHasNoJob
      /\ handler \in [Handlers -> HandlerStep] /\ job \in [Rows -> JobStep]
      /\ ahead \in [Rows -> SUBSET Rows]
  BY DEF ReplicaInv, TypeOK
<1>2. UNCHANGED <<orphan, loop, main, panics>>
  BY DEF HandlerNext, Receive, Begin, Lookup, Apply, Commit, Notify, HandlerFails
<1>3. PICK to \in HandlerStep : handler' = [handler EXCEPT ![h] = to]
  BY DEF HandlerNext, Receive, Begin, Lookup, Apply, Commit, Notify, HandlerFails, To, HandlerStep
<1>4. \/ UNCHANGED <<job, ahead>>
      \/ Commit(h) /\ \E S \in Additions : Insert(job, S, "fresh")
      \/ HandlerFails(h) /\ \E S \in Additions : Insert(job, S, "due")
  BY DEF HandlerNext, Receive, Begin, Lookup, Apply, Commit, Notify, HandlerFails
<1>5. /\ job' \in [Rows -> JobStep] /\ ahead' \in [Rows -> SUBSET Rows]
      /\ \A r \in Rows : job'[r] # job[r] => job[r] = "absent" /\ job'[r] \in {"fresh", "due"}
      /\ \A r \in Rows : job'[r] = "fresh" /\ job[r] # "fresh" => Commit(h)
  <2>1. CASE UNCHANGED <<job, ahead>>
    BY <1>1, <2>1
  <2>2. CASE Commit(h) /\ \E S \in Additions : Insert(job, S, "fresh")
    BY <1>1, <2>2, Inserted
  <2>3. CASE HandlerFails(h) /\ \E S \in Additions : Insert(job, S, "due")
    BY <1>1, <2>3, Inserted
  <2>. QED
    BY <1>4, <2>1, <2>2, <2>3
<1>6. Running' = Running /\ Writing' = Writing
  BY <1>5 DEF Running, Writing
<1>7. InUse' <= Connections
  <2>1. CASE Begin(h)
    <3>1. InTransaction' \subseteq InTransaction \cup {h} /\ InUse < Connections
      BY <1>1, <1>3, <2>1 DEF InTransaction, Begin, Available
    <3>. QED
      BY <3>1, <1>1, <1>6, PoolKept DEF TypeOK
  <2>2. CASE ~Begin(h)
    <3>1. handler'[h] \in {"lookup", "apply", "commit"} => handler[h] \in {"lookup", "apply", "commit"}
      BY <1>1, <2>2 DEF HandlerNext, Receive, Lookup, Apply, Commit, Notify, HandlerFails, To
    <3>2. InTransaction' \subseteq InTransaction
      BY <3>1, <1>1, <1>3 DEF InTransaction
    <3>. QED
      BY <3>2, <1>1, <1>6, PoolKept DEF TypeOK
  <2>. QED
    BY <2>1, <2>2
<1>8. wake' \in BOOLEAN /\ (wake => wake')
  <2>1. CASE Notify(h)
    BY <2>1, Zenon DEF Notify
  <2>2. CASE ~Notify(h)
    <3>1. wake' = wake
      BY <2>2 DEF HandlerNext, Receive, Begin, Lookup, Apply, Commit, HandlerFails
    <3>. QED
      BY <3>1, <1>1 DEF TypeOK
  <2>. QED
    BY <2>1, <2>2
<1>9. TypeOK'
  BY <1>1, <1>2, <1>3, <1>5, <1>6, <1>7, <1>8 DEF TypeOK
<1>10. FreshIsAnnounced'
  <2>1. CASE Commit(h)
    <3>1. handler'[h] = "notify"
      BY <1>1, <2>1 DEF Commit, To
    <3>. QED
      BY <3>1, <1>1, <1>2 DEF FreshIsAnnounced, Announced
  <2>2. CASE Notify(h)
    <3>1. wake'
      BY <2>2, Zenon DEF Notify
    <3>. QED
      BY <3>1, <1>1, <1>2 DEF FreshIsAnnounced, Announced
  <2>3. CASE ~Commit(h) /\ ~Notify(h)
    <3>1. handler[h] # "notify"
      BY <1>1, <2>3 DEF HandlerNext, Receive, Begin, Lookup, Apply, HandlerFails
    <3>2. \A g \in Handlers : handler[g] = "notify" => handler'[g] = "notify"
      BY <3>1, <1>1, <1>3
    <3>3. \A r \in Rows : /\ job[r] = "notify" => job'[r] = "notify"
                          /\ job'[r] = "fresh" => job[r] = "fresh"
      BY <1>5, <2>3
    <3>4. Announced => Announced'
      BY <3>2, <3>3, <1>8 DEF Announced
    <3>. QED
      BY <3>3, <3>4, <1>1, <1>2 DEF FreshIsAnnounced
  <2>. QED
    BY <2>1, <2>2, <2>3
<1>11. PermitsRespected' /\ EndedRunHasNoJob'
  BY <1>1, <1>2, <1>6 DEF PermitsRespected, EndedRunHasNoJob
<1>. QED
  BY <1>9, <1>10, <1>11 DEF ReplicaInv

\* No job starts, ends or gets fresh, and the loop at most goes on.
LEMMA EnterPreserves ==
    ASSUME ReplicaInv, NEW step \in LoopStep, loop' = [loop EXCEPT !.step = step],
           UNCHANGED <<handler, job, ahead, orphan, main, panics>>, wake' \in BOOLEAN,
           step \in {"spawn", "await", "sleep"} =>
              /\ wake' = wake /\ loop.step \in {"spawn", "await"} /\ (step = "sleep" => ~loop.full),
           step \in {"returned", "panicked", "stopped"} => Running \subseteq orphan,
           main.orderly => step = "stopped"
    PROVE  ReplicaInv'
<1>1. TypeOK /\ PermitsRespected /\ FreshIsAnnounced /\ EndedRunHasNoJob
  BY DEF ReplicaInv
<1>2. loop' \in [step: LoopStep, full: BOOLEAN] /\ loop'.step = step /\ loop'.full = loop.full
  BY <1>1 DEF TypeOK
<1>3. Running' = Running /\ InUse' = InUse
  BY DEF Running, InUse
<1>4. TypeOK'
  BY <1>1, <1>2, <1>3 DEF TypeOK
<1>5. FreshIsAnnounced' /\ EndedRunHasNoJob' /\ PermitsRespected'
  BY <1>1, <1>2, <1>3 DEF FreshIsAnnounced, Announced, EndedRunHasNoJob, PermitsRespected
<1>. QED
  BY <1>4, <1>5 DEF ReplicaInv

LEMMA LoopPreserves ==
    ASSUME ReplicaInv, LoopNext
    PROVE  ReplicaInv'
<1>1. /\ TypeOK /\ PermitsRespected /\ FreshIsAnnounced /\ EndedRunHasNoJob
      /\ job \in [Rows -> JobStep]
  BY DEF ReplicaInv, TypeOK
<1>2. CASE Claim
  <2>1. PICK S \in SUBSET Claimable :
            /\ Cardinality(S) <= Batch
            /\ loop' = [step |-> "spawn", full |-> Cardinality(S) = Batch]
            /\ job' = [r \in Rows |->
                         IF r \in S THEN "queued"
                         ELSE IF job[r] = "fresh" /\ Cardinality(S) < Batch THEN "due"
                         ELSE job[r]]
    BY <1>2 DEF Claim
  <2>2. UNCHANGED <<handler, ahead, orphan, wake, main, panics>> /\ loop.step = "claim"
    BY <1>2 DEF Claim
  <2>3. /\ S \subseteq {r \in Rows : job[r] \in {"fresh", "due"}}
        /\ \A r \in Rows : job'[r] \in {"queued", "due", job[r]}
        /\ \A r \in Rows : job'[r] # job[r] => job[r] \in {"fresh", "due"}
    BY <2>1 DEF Claimable
  <2>4. Running' = Running /\ Writing' = Writing /\ job' \in [Rows -> JobStep]
    <3>1. job' \in [Rows -> JobStep]
      BY <1>1, <2>1, <2>3 DEF JobStep
    <3>. QED
      BY <2>3, <3>1 DEF Running, Writing
  <2>5. loop' \in [step: LoopStep, full: BOOLEAN] /\ loop'.step = "spawn"
        /\ loop'.full = (Cardinality(S) = Batch)
    BY <2>1 DEF LoopStep
  <2>6. InUse' = InUse
    BY <2>2, <2>4 DEF InUse, Writing
  <2>7. TypeOK'
    BY <1>1, <2>2, <2>4, <2>5, <2>6 DEF TypeOK
  <2>8. FreshIsAnnounced'
    <3>1. Cardinality(S) \in Nat
      BY <2>3, Smaller
    <3>2. ASSUME ~loop'.full PROVE \A r \in Rows : job'[r] # "fresh"
      <4>1. Cardinality(S) # Batch
        BY <2>5, <3>2
      <4>2. Batch \in Nat /\ Cardinality(S) <= Batch
        BY <2>1
      <4>3. Cardinality(S) < Batch
        BY <3>1, <4>1, <4>2
      <4>. QED
        BY <2>1, <4>3
    <3>. QED
      BY <3>2, <2>5 DEF FreshIsAnnounced
  <2>9. PermitsRespected' /\ EndedRunHasNoJob'
    BY <1>1, <2>2, <2>4, <2>5 DEF PermitsRespected, EndedRunHasNoJob
  <2>. QED
    BY <2>7, <2>8, <2>9 DEF ReplicaInv
<1>3. CASE ClaimFails
  <2>1. PICK S \in SUBSET Claimable : job' = [r \in Rows |-> IF r \in S THEN "later" ELSE job[r]]
    BY <1>3 DEF ClaimFails
  <2>2. /\ UNCHANGED <<handler, ahead, orphan, wake, main, panics>> /\ loop.step = "claim"
        /\ loop' = [loop EXCEPT !.step = "pause"]
    BY <1>3 DEF ClaimFails, Enter
  <2>3. Running' = Running /\ Writing' = Writing /\ job' \in [Rows -> JobStep]
    BY <1>1, <2>1 DEF Running, Writing, Claimable, JobStep
  <2>4. InUse' = InUse
    BY <2>2, <2>3 DEF InUse, Writing
  <2>5. loop' \in [step: LoopStep, full: BOOLEAN] /\ loop'.step = "pause"
    BY <1>1, <2>2 DEF TypeOK, LoopStep
  <2>6. TypeOK'
    BY <1>1, <2>2, <2>3, <2>4, <2>5 DEF TypeOK
  <2>7. FreshIsAnnounced' /\ PermitsRespected' /\ EndedRunHasNoJob'
    BY <1>1, <2>2, <2>3, <2>5 DEF FreshIsAnnounced, PermitsRespected, EndedRunHasNoJob
  <2>. QED
    BY <2>6, <2>7 DEF ReplicaInv
<1>4. CASE AllSpawned
  BY <1>1, <1>4, EnterPreserves DEF AllSpawned, Enter, LoopStep, TypeOK, EndedRunHasNoJob
<1>5. CASE BatchDone
  BY <1>1, <1>5, EnterPreserves DEF BatchDone, Enter, LoopStep, TypeOK, EndedRunHasNoJob
<1>6. CASE Woken
  BY <1>1, <1>6, EnterPreserves DEF Woken, Enter, LoopStep, TypeOK, EndedRunHasNoJob
<1>7. CASE PollInterval
  BY <1>1, <1>7, EnterPreserves DEF PollInterval, Enter, LoopStep, TypeOK, EndedRunHasNoJob
<1>8. CASE LeaveLoop
  BY <1>1, <1>8, EnterPreserves DEF LeaveLoop, Enter, LoopStep, TypeOK, EndedRunHasNoJob
<1>9. CASE Drained
  BY <1>1, <1>9, EnterPreserves DEF Drained, Enter, LoopStep, TypeOK, EndedRunHasNoJob
<1>10. ASSUME NEW r \in Rows, SpawnJob(r) PROVE ReplicaInv'
  <2>1. /\ job[r] = "queued" /\ job' = [job EXCEPT ![r] = "load"] /\ loop.step = "spawn"
        /\ UNCHANGED <<handler, ahead, orphan, loop, wake, main, panics>>
        /\ Cardinality(Running \ orphan) < Permits
    BY <1>10 DEF SpawnJob
  <2>2. /\ job' \in [Rows -> JobStep] /\ Running' = Running \cup {r} /\ Writing' = Writing
        /\ \A x \in Rows : /\ job'[x] = "fresh" => job[x] = "fresh"
                           /\ job[x] = "notify" => job'[x] = "notify"
    BY <1>1, <2>1 DEF Running, Writing, JobStep
  <2>3. InUse' = InUse
    BY <2>1, <2>2 DEF InUse, Writing
  <2>4. TypeOK'
    BY <1>1, <2>1, <2>2, <2>3 DEF TypeOK
  <2>5. Running' \ orphan' \subseteq (Running \ orphan) \cup {r}
    BY <2>1, <2>2
  <2>6. PermitsRespected'
    BY <1>1, <2>1, <2>5, PermitsKept
  <2>7. FreshIsAnnounced' /\ EndedRunHasNoJob'
    BY <1>1, <2>1, <2>2 DEF FreshIsAnnounced, Announced, EndedRunHasNoJob
  <2>. QED
    BY <2>4, <2>6, <2>7 DEF ReplicaInv
<1>. QED
  BY <1>2, <1>3, <1>4, <1>5, <1>6, <1>7, <1>8, <1>9, <1>10 DEF LoopNext

\* A job goes on or ends; only one that starts to write takes a connection.
LEMMA ProceedPreserves ==
    ASSUME ReplicaInv, NEW r \in Rows, NEW step \in JobStep, Proceed(r, step),
           job[r] # "notify", step \notin {"fresh", "queued", "notify"},
           step \in RunningStep => job[r] \in RunningStep,
           step = "due" => job[r] = "later",
           step = "writing" => InUse < Connections
    PROVE  ReplicaInv'
<1>1. /\ TypeOK /\ PermitsRespected /\ FreshIsAnnounced /\ EndedRunHasNoJob
      /\ job \in [Rows -> JobStep] /\ orphan \subseteq Running
      /\ ahead \in [Rows -> SUBSET Rows]
  BY DEF ReplicaInv, TypeOK
<1>2. /\ job' = [job EXCEPT ![r] = step]
      /\ orphan' = IF step \in {"absent", "later"} THEN orphan \ {r} ELSE orphan
      /\ UNCHANGED <<handler, loop, wake, main, panics>>
  BY DEF Proceed
<1>3. ahead' \in [Rows -> SUBSET Rows]
  BY <1>1 DEF Proceed, Remove
<1>4. /\ job' \in [Rows -> JobStep]
      /\ \A x \in Rows : job'[x] = IF x = r THEN step ELSE job[x]
  BY <1>1, <1>2
<1>5. Running = {x \in Rows : job[x] \in RunningStep} /\ Running' = {x \in Rows : job'[x] \in RunningStep}
  BY DEF Running, RunningStep
<1>6. orphan' \subseteq Running' /\ Running' \ orphan' \subseteq Running \ orphan
  <2>1. CASE step \in {"absent", "later", "due"}
    BY <1>1, <1>2, <1>4, <1>5, <2>1 DEF RunningStep
  <2>2. CASE step \in RunningStep
    <3>1. Running' = Running
      BY <1>4, <1>5, <2>2
    <3>. QED
      BY <1>1, <1>2, <2>2, <3>1 DEF RunningStep
  <2>. QED
    BY <2>1, <2>2 DEF RunningStep, JobStep
<1>7. InUse' <= Connections
  <2>1. InTransaction' = InTransaction
    BY <1>2 DEF InTransaction
  <2>2. CASE step = "writing"
    <3>1. Writing' \subseteq Writing \cup {r}
      BY <1>4 DEF Writing
    <3>. QED
      BY <1>1, <2>1, <2>2, <3>1, PoolKept DEF TypeOK
  <2>3. CASE step # "writing"
    <3>1. Writing' \subseteq Writing
      BY <1>4, <2>3 DEF Writing
    <3>. QED
      BY <1>1, <2>1, <3>1, PoolKept DEF TypeOK
  <2>. QED
    BY <2>2, <2>3
<1>8. TypeOK'
  BY <1>1, <1>2, <1>3, <1>4, <1>6, <1>7 DEF TypeOK
<1>9. PermitsRespected'
  BY <1>1, <1>6, PermitsKept
<1>10. FreshIsAnnounced'
  BY <1>1, <1>2, <1>4 DEF FreshIsAnnounced, Announced
<1>11. EndedRunHasNoJob'
  BY <1>1, <1>2, <1>6 DEF EndedRunHasNoJob
<1>. QED
  BY <1>8, <1>9, <1>10, <1>11 DEF ReplicaInv

\* A job's transaction is committed: with a wake-up to follow if its rows count
\* on one.
LEMMA InsertPreserves ==
    ASSUME ReplicaInv, NEW r \in Rows, NEW to \in {"notify", "finish", "reschedule"},
           NEW S \in Additions, NEW step \in {"fresh", "due"},
           job[r] = "writing", Insert([job EXCEPT ![r] = to], S, step),
           step = "fresh" => to = "notify" \/ S = {},
           UNCHANGED <<handler, orphan, loop, wake, main, panics>>
    PROVE  ReplicaInv'
<1>1. /\ TypeOK /\ PermitsRespected /\ FreshIsAnnounced /\ EndedRunHasNoJob
      /\ job \in [Rows -> JobStep] /\ ahead \in [Rows -> SUBSET Rows]
  BY DEF ReplicaInv, TypeOK
<1>. DEFINE was == [job EXCEPT ![r] = to]
<1>2. was \in [Rows -> JobStep] /\ \A x \in Rows : was[x] = IF x = r THEN to ELSE job[x]
  BY <1>1 DEF JobStep
<1>a. Insert(was, S, step)
  OBVIOUS
<1>. HIDE DEF was
<1>3. /\ S \subseteq {x \in Rows : job[x] = "absent"}
      /\ job' \in [Rows -> JobStep] /\ ahead' \in [Rows -> SUBSET Rows]
      /\ \A x \in Rows : job'[x] = IF x \in S THEN step ELSE was[x]
  BY <1>1, <1>2, <1>a, Inserted
<1>4. \A x \in Rows : job'[x] = IF x \in S THEN step ELSE IF x = r THEN to ELSE job[x]
  BY <1>2, <1>3
<1>5. r \notin S
  BY <1>3
<1>6. Running' = Running /\ Writing' \subseteq Writing
  BY <1>3, <1>4, <1>5 DEF Running, Writing
<1>7. InUse' <= Connections
  <2>1. InTransaction' = InTransaction
    BY DEF InTransaction
  <2>. QED
    BY <1>1, <1>6, <2>1, PoolKept DEF TypeOK
<1>8. TypeOK'
  BY <1>1, <1>3, <1>6, <1>7 DEF TypeOK
<1>9. FreshIsAnnounced'
  <2>1. CASE to = "notify"
    <3>1. job'[r] = "notify"
      BY <1>4, <1>5, <2>1
    <3>. QED
      BY <1>1, <3>1 DEF FreshIsAnnounced, Announced
  <2>2. CASE to # "notify"
    <3>1. \A x \in Rows : /\ job'[x] = "fresh" => job[x] = "fresh"
                          /\ job[x] = "notify" => job'[x] = "notify"
      BY <1>3, <1>4, <2>2
    <3>. QED
      BY <1>1, <3>1 DEF FreshIsAnnounced, Announced
  <2>. QED
    BY <2>1, <2>2
<1>10. PermitsRespected' /\ EndedRunHasNoJob'
  BY <1>1, <1>6 DEF PermitsRespected, EndedRunHasNoJob
<1>. QED
  BY <1>8, <1>9, <1>10 DEF ReplicaInv

LEMMA GiveUpPreserves ==
    ASSUME ReplicaInv, NEW r \in Rows, NEW to \in {"finish", "reschedule"}, GiveUp(r, to),
           job[r] \in {"load", "call", "write", "writing", "finish"}
    PROVE  ReplicaInv'
<1>1. CASE Proceed(r, to)
  BY <1>1, ProceedPreserves DEF JobStep, RunningStep
<1>2. CASE /\ job[r] = "writing"
           /\ \E S \in Additions : Insert([job EXCEPT ![r] = to], S, "due")
           /\ UNCHANGED <<handler, orphan, loop, wake, main, panics>>
  BY <1>2, InsertPreserves
<1>. QED
  BY <1>1, <1>2 DEF GiveUp

LEMMA JobPreserves ==
    ASSUME ReplicaInv, NEW r \in Rows, JobNext(r)
    PROVE  ReplicaInv'
<1>1. /\ TypeOK /\ PermitsRespected /\ FreshIsAnnounced /\ EndedRunHasNoJob
      /\ job \in [Rows -> JobStep]
  BY DEF ReplicaInv, TypeOK
<1>2. CASE Load(r)
  BY <1>2, ProceedPreserves DEF Load, JobStep, RunningStep
<1>3. CASE Answered(r)
  BY <1>3, ProceedPreserves DEF Answered, JobStep, RunningStep
<1>4. CASE StartWrite(r)
  BY <1>4, ProceedPreserves DEF StartWrite, Available, JobStep, RunningStep
<1>5. CASE FinishWrite(r)
  <2>1. job[r] = "writing" /\ UNCHANGED <<handler, orphan, loop, wake, main, panics>>
    BY <1>5 DEF FinishWrite
  <2>2. CASE \E S \in Additions : Insert([job EXCEPT ![r] = "notify"], S, "fresh")
    BY <2>1, <2>2, InsertPreserves
  <2>3. CASE Insert([job EXCEPT ![r] = "finish"], {}, "fresh")
    <3>1. {} \in Additions
      BY DEF Additions
    <3>. QED
      BY <2>1, <2>3, <3>1, InsertPreserves
  <2>. QED
    BY <1>5, <2>2, <2>3 DEF FinishWrite
<1>6. CASE JobNotify(r)
  <2>1. /\ job[r] = "notify" /\ job' = [job EXCEPT ![r] = "finish"]
        /\ UNCHANGED <<handler, ahead, orphan, loop, main, panics>>
    BY <1>6 DEF JobNotify
  <2>2. wake' /\ wake' \in BOOLEAN
    BY <1>6, Zenon DEF JobNotify
  <2>3. job' \in [Rows -> JobStep] /\ Running' = Running /\ Writing' = Writing
    BY <1>1, <2>1 DEF JobStep, Running, Writing
  <2>4. InUse' = InUse
    BY <2>1, <2>3 DEF InUse, Writing
  <2>5. TypeOK'
    BY <1>1, <2>1, <2>2, <2>3, <2>4 DEF TypeOK
  <2>6. FreshIsAnnounced'
    BY <1>1, <2>1, <2>2 DEF FreshIsAnnounced, Announced
  <2>7. PermitsRespected' /\ EndedRunHasNoJob'
    BY <1>1, <2>1, <2>3 DEF PermitsRespected, EndedRunHasNoJob
  <2>. QED
    BY <2>5, <2>6, <2>7 DEF ReplicaInv
<1>7. CASE Finish(r)
  BY <1>7, ProceedPreserves DEF Finish, JobStep, RunningStep
<1>8. CASE WriteFails(r)
  BY <1>8, GiveUpPreserves DEF WriteFails
<1>9. CASE AbandonJob(r)
  BY <1>9, GiveUpPreserves DEF AbandonJob
<1>10. CASE Reschedule(r)
  BY <1>10, ProceedPreserves DEF Reschedule, JobStep, RunningStep
<1>11. CASE JobLost(r)
  BY <1>11, ProceedPreserves DEF JobLost, JobStep, RunningStep
<1>12. CASE BecomesDue(r)
  BY <1>12, ProceedPreserves DEF BecomesDue, JobStep, RunningStep
<1>. QED
  BY <1>2, <1>3, <1>4, <1>5, <1>6, <1>7, <1>8, <1>9, <1>10, <1>11, <1>12 DEF JobNext

LEMMA SupervisePreserves ==
    ASSUME ReplicaInv, SuperviseNext
    PROVE  ReplicaInv'
<1>1. /\ TypeOK /\ PermitsRespected /\ FreshIsAnnounced /\ EndedRunHasNoJob
      /\ job \in [Rows -> JobStep]
  BY DEF ReplicaInv, TypeOK
<1>2. CASE Panic
  <2>1. /\ loop.step \notin {"returned", "panicked", "stopped"} /\ panics > 0 /\ panics' = panics - 1
        /\ loop' = [loop EXCEPT !.step = "panicked"]
        /\ job' = [r \in Rows |-> IF job[r] = "queued" THEN "later" ELSE job[r]]
        /\ orphan' = Running /\ UNCHANGED <<handler, ahead, wake, main>>
    BY <1>2 DEF Panic, Enter
  <2>2. Running' = Running /\ Writing' = Writing /\ job' \in [Rows -> JobStep]
    BY <1>1, <2>1 DEF Running, Writing, JobStep
  <2>3. InUse' = InUse
    BY <2>1, <2>2 DEF InUse, Writing
  <2>4. loop' \in [step: LoopStep, full: BOOLEAN] /\ loop'.step = "panicked"
    BY <1>1, <2>1 DEF TypeOK, LoopStep
  <2>5. panics' \in 0..MaxPanics
    BY <1>1, <2>1 DEF TypeOK
  <2>6. TypeOK'
    BY <1>1, <2>1, <2>2, <2>3, <2>4, <2>5 DEF TypeOK
  <2>7. PermitsRespected'
    BY <1>1, <2>1, <2>2, PermitsKept
  <2>8. FreshIsAnnounced' /\ EndedRunHasNoJob'
    BY <1>1, <2>1, <2>2, <2>4 DEF FreshIsAnnounced, EndedRunHasNoJob
  <2>. QED
    BY <2>6, <2>7, <2>8 DEF ReplicaInv
<1>3. CASE SuperviseRestart
  <2>1. /\ loop.step = "panicked" /\ loop' = [step |-> "claim", full |-> FALSE]
        /\ UNCHANGED <<handler, job, ahead, orphan, wake, main, panics>>
    BY <1>3 DEF SuperviseRestart
  <2>2. Running' = Running /\ InUse' = InUse
    BY <2>1 DEF Running, InUse
  <2>3. loop' \in [step: LoopStep, full: BOOLEAN] /\ loop'.step = "claim"
    BY <2>1 DEF LoopStep
  <2>4. TypeOK'
    BY <1>1, <2>1, <2>2, <2>3 DEF TypeOK
  <2>5. PermitsRespected' /\ FreshIsAnnounced' /\ EndedRunHasNoJob'
    BY <1>1, <2>1, <2>2, <2>3 DEF PermitsRespected, FreshIsAnnounced, EndedRunHasNoJob
  <2>. QED
    BY <2>4, <2>5 DEF ReplicaInv
<1>4. CASE SuperviseStop
  BY <1>1, <1>4, EnterPreserves DEF SuperviseStop, Enter, LoopStep, TypeOK, EndedRunHasNoJob
<1>. QED
  BY <1>2, <1>3, <1>4 DEF SuperviseNext

LEMMA MainPreserves ==
    ASSUME ReplicaInv, MainNext
    PROVE  ReplicaInv'
<1>1. TypeOK /\ PermitsRespected /\ FreshIsAnnounced /\ EndedRunHasNoJob
  BY DEF ReplicaInv
<1>2. UNCHANGED <<handler, job, ahead, orphan, loop, wake, panics>>
  BY DEF MainNext, Signal, HttpDrained, BackgroundEnded, GraceEnds, PoolClosed
<1>3. /\ main' \in [step: MainStep, orderly: BOOLEAN]
      /\ main'.orderly => main.orderly \/ loop.step = "stopped"
  <2>1. CASE BackgroundEnded
    <3>1. main' = [step |-> "closing", orderly |-> TRUE] /\ loop.step = "stopped"
      BY <2>1 DEF BackgroundEnded
    <3>. QED
      BY <3>1 DEF MainStep
  <2>2. CASE ~BackgroundEnded
    <3>1. PICK step \in MainStep : main' = [main EXCEPT !.step = step]
      BY <2>2 DEF MainNext, Signal, HttpDrained, GraceEnds, PoolClosed, MainStep
    <3>. QED
      BY <3>1, <1>1 DEF TypeOK
  <2>. QED
    BY <2>1, <2>2
<1>4. Running' = Running /\ InUse' = InUse
  BY <1>2 DEF Running, InUse
<1>5. TypeOK'
  BY <1>1, <1>2, <1>3, <1>4 DEF TypeOK
<1>6. PermitsRespected' /\ FreshIsAnnounced' /\ EndedRunHasNoJob'
  BY <1>1, <1>2, <1>3, <1>4 DEF PermitsRespected, FreshIsAnnounced, Announced, EndedRunHasNoJob
<1>. QED
  BY <1>5, <1>6 DEF ReplicaInv

-----------------------------------------------------------------------------
LEMMA ReplicaInduction == ReplicaInv /\ [Next]_vars => ReplicaInv'
<1>. SUFFICES ASSUME ReplicaInv, [Next]_vars PROVE ReplicaInv'
  OBVIOUS
<1>1. CASE UNCHANGED vars
  BY <1>1 DEF vars, ReplicaInv, TypeOK, PermitsRespected, FreshIsAnnounced, Announced,
     EndedRunHasNoJob, Running, InUse
<1>2. CASE Next
  BY <1>2, HandlerPreserves, LoopPreserves, JobPreserves, SupervisePreserves, MainPreserves DEF Next
<1>. QED
  BY <1>1, <1>2

\* Nothing overdraws the pool or the semaphore, every row committed since the
\* loop last looked is announced to it, and a run of the loop that is over has left no job
\* (outbox::run, supervise::spawn, main).
THEOREM ReplicaCorrect == Spec => []ReplicaInv
<1>. QED
  BY InitReplica, ReplicaInduction, PTL DEF Spec

\* The steps keep their types and no more connections are out than the pool
\* has (database.max_connections).
THEOREM ReplicaTypes == Spec => []TypeOK
<1>1. ReplicaInv => TypeOK
  BY DEF ReplicaInv
<1>. QED
  BY <1>1, ReplicaCorrect, PTL

\* A loop that goes to sleep beside a row committed since its last claim finds
\* the wake-up, sent or about to be sent by a handler or by a job (notify_one,
\* claim, outbox::run).
THEOREM NoWakeLost == Spec => []WakeNotLost
<1>1. ReplicaInv => WakeNotLost
  BY DEF ReplicaInv, FreshIsAnnounced, Announced, WakeNotLost
<1>. QED
  BY <1>1, ReplicaCorrect, PTL

\* What still runs when an orderly shutdown closes the pool was started by a
\* run that panicked (outbox::run's drain, supervise::spawn, main).
THEOREM OrderlyStop == Spec => []OrderlyStopFinishesJobs
<1>1. ReplicaInv => OrderlyStopFinishesJobs
  BY DEF ReplicaInv, EndedRunHasNoJob, OrderlyStopFinishesJobs
<1>. QED
  BY <1>1, ReplicaCorrect, PTL
=============================================================================
