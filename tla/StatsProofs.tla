---------------------------- MODULE StatsProofs ----------------------------
(***************************************************************************)
(* The statistics, at the client and at the stats worker.                  *)
(*                                                                         *)
(* Of StatsSync, for every set of events and of syncers, with any number   *)
(* of restarts: statistics sync has the types it declares, a row of        *)
(* runtime.db that is marked synced is stored at the stats worker, and the *)
(* event table implements the at-least-once Outbox. The inductive          *)
(* invariant adds what a step in the middle of an upload or of an append   *)
(* relies on: an answered batch has been received (AnsweredWasReceived), a *)
(* count has been taken before it is stored (CountsTaken), and an event    *)
(* has no row before its commit (NoRowYet), which is why a commit never    *)
(* puts an acknowledged event back.                                        *)
(*                                                                         *)
(* Of StatsWorker, whatever the events, lookbacks and batch size are: the  *)
(* cleanup is invisible, every snapshot is what all events ever received   *)
(* give for its window. The inductive invariant says that a row is missing *)
(* only when it is outdated; an outdated event is in no window, now or     *)
(* later, because no window is longer than the retention.                  *)
(***************************************************************************)
EXTENDS StatsSync, StatsWorker, FiniteSetTheorems, TLAPS

(* The batch of an upload that was answered is stored at the stats worker. *)
AnsweredWasReceived ==
    \A s \in Syncers : sync[s].pc \in {"accepted", "marked", "counted", "stored"}
        => sync[s].batch \subseteq received

(* A unit of work that is committed and an upload that stores the pending  *)
(* count carry one.                                                        *)
CountsTaken ==
    /\ \A e \in Events : stage[e] = "counted" => carried[e] \in Nat
    /\ \A s \in Syncers : sync[s].pc \in {"counted", "stored"} => sync[s].remaining \in Nat

(* An event has no row before the commit of the handler that appends it.   *)
NoRowYet ==
    \A e \in Events : stage[e] \in {"new", "pushed", "counted"} => db[e] = "absent"

IInv == TypeOK /\ AnsweredWasReceived /\ CountsTaken /\ NoRowYet /\ DiskSyncedWasReceived

(* The unsynced entries can be counted.                                    *)
LEMMA UnsyncedCount == ASSUME NEW entries PROVE Cardinality(Unsynced(entries)) \in Nat
  BY EventsAssumption, FS_Subset, FS_CardinalityType DEF Unsynced

(* The initial state satisfies the invariant: there is no event yet.       *)
LEMMA InitIInv == Init => IInv
  BY BoundAssumption DEF Init, IInv, TypeOK, AnsweredWasReceived, CountsTaken, NoRowYet,
     DiskSyncedWasReceived, Entry, Stage, Upload, Quiescent

-----------------------------------------------------------------------------
(* Every step preserves the invariant.                                     *)
LEMMA NextIInv == IInv /\ [Next]_vars => IInv'
<1> SUFFICES ASSUME IInv, [Next]_vars PROVE IInv'
  OBVIOUS
<1> USE NoneAssumption, BoundAssumption
<1> USE DEF IInv, TypeOK, AnsweredWasReceived, CountsTaken, NoRowYet, DiskSyncedWasReceived,
            Entry, Stage, Upload, Quiescent
<1>1. ASSUME NEW e \in Events, Push(e) PROVE IInv'
  BY <1>1 DEF Push
<1>2. ASSUME NEW e \in Events, Count(e) PROVE IInv'
  <2>1. pending + 1 \in Nat
    OBVIOUS
  <2> QED BY <1>2, <2>1 DEF Count
<1>3. ASSUME NEW e \in Events, Commit(e) PROVE IInv'
  <2>1. carried[e] \in Nat /\ stage[e] = "counted"
    BY <1>3 DEF Commit
  <2>2. CASE db' = [db EXCEPT ![e] = "unsynced"] /\ dbPending' = carried[e]
    BY <1>3, <2>1, <2>2 DEF Commit
  <2>3. CASE UNCHANGED <<db, dbPending>>
    BY <1>3, <2>3 DEF Commit
  <2> QED BY <1>3, <2>2, <2>3 DEF Commit
<1>4. ASSUME NEW s \in Syncers, Begin(s) PROVE IInv'
  <2>1. Unsynced(mem) \subseteq Events
    BY DEF Unsynced
  <2> QED BY <1>4, <2>1 DEF Begin
<1>5. ASSUME NEW s \in Syncers, Accept(s) PROVE IInv'
  BY <1>5 DEF Accept
<1>6. ASSUME NEW s \in Syncers, Fail(s) PROVE IInv'
  <2>1. received \subseteq received' /\ received' \subseteq Events
    BY <1>6 DEF Fail
  <2> QED BY <1>6, <2>1 DEF Fail
<1>7. ASSUME NEW s \in Syncers, Mark(s) PROVE IInv'
  BY <1>7 DEF Mark
<1>8. ASSUME NEW s \in Syncers, CountRemaining(s) PROVE IInv'
  <2>1. Cardinality(Unsynced(mem)) \in Nat
    BY UnsyncedCount
  <2> QED BY <1>8, <2>1 DEF CountRemaining
<1>9. ASSUME NEW s \in Syncers, StorePending(s) PROVE IInv'
  BY <1>9 DEF StorePending
<1>10. ASSUME NEW s \in Syncers, Persist(s) PROVE IInv'
  <2>1. sync[s].remaining \in Nat /\ sync[s].batch \subseteq received
    BY <1>10 DEF Persist
  <2>2. CASE db' = Marked(sync[s].batch) /\ dbPending' = sync[s].remaining
    BY <1>10, <2>1, <2>2 DEF Persist, Marked
  <2>3. CASE UNCHANGED <<db, dbPending>>
    BY <1>10, <2>3 DEF Persist
  <2> QED BY <1>10, <2>2, <2>3 DEF Persist
<1>11. ASSUME Restart PROVE IInv'
  BY <1>11 DEF Restart
<1>12. CASE UNCHANGED vars
  BY <1>12 DEF vars
<1> QED BY <1>1, <1>2, <1>3, <1>4, <1>5, <1>6, <1>7, <1>8, <1>9, <1>10, <1>11, <1>12
        DEF Next, AppendEvent, Finish

(* The invariant holds in every reachable state.                           *)
LEMMA Inductive == Spec => []IInv
  BY InitIInv, NextIInv, PTL DEF Spec

(* Every variable keeps its type; counts are never missing when they are   *)
(* written.                                                                *)
THEOREM SyncTypesHold == Spec => []TypeOK
<1>1. IInv => TypeOK
  BY DEF IInv
<1> QED BY <1>1, Inductive, PTL

(* What runtime.db calls synced has reached the stats worker.              *)
THEOREM SyncedRowsWereReceived == Spec => []DiskSyncedWasReceived
<1>1. IInv => DiskSyncedWasReceived
  BY DEF IInv
<1> QED BY <1>1, Inductive, PTL

-----------------------------------------------------------------------------
(* The initial states of statistics sync are those of the outbox.          *)
LEMMA InitRefines == Init => DiskOutbox!OutboxInit
  BY DEF Init, DiskOutbox!OutboxInit, Unsynced

(* Every step is a step of the outbox, or leaves it alone: a commit        *)
(* enqueues, an upload delivers, a persisted mark acknowledges what is     *)
(* still queued of its batch.                                              *)
LEMMA NextRefines ==
    IInv /\ [Next]_vars =>
        [DiskOutbox!OutboxNext]_<<Unsynced(db), {e \in Events : db[e] = "synced"}, received>>
<1> DEFINE Acked(table) == {e \in Events : table[e] = "synced"}
           Stutters == UNCHANGED <<Unsynced(db), Acked(db), received>>
<1> SUFFICES ASSUME IInv, [Next]_vars PROVE DiskOutbox!OutboxNext \/ Stutters
  OBVIOUS
<1>1. ASSUME UNCHANGED <<db, received>> PROVE Stutters
  BY <1>1 DEF Unsynced
<1>2. ASSUME NEW e \in Events, Commit(e) PROVE DiskOutbox!OutboxNext \/ Stutters
  <2>1. CASE UNCHANGED db
    BY <1>1, <1>2, <2>1 DEF Commit
  <2>2. CASE db' = [db EXCEPT ![e] = "unsynced"]
    <3>1. db[e] = "absent" /\ db \in [Events -> Entry] /\ received' = received
      BY <1>2 DEF Commit, IInv, NoRowYet, TypeOK
    <3>2. Unsynced(db') = Unsynced(db) \cup {e} /\ Acked(db') = Acked(db)
      BY <2>2, <3>1 DEF Unsynced, Entry
    <3>3. {e} \cap (Unsynced(db) \cup Acked(db)) = {}
      BY <3>1 DEF Unsynced
    <3>4. DiskOutbox!Enqueue({e})
      BY <3>1, <3>2, <3>3 DEF DiskOutbox!Enqueue, Unsynced
    <3> QED BY <3>4 DEF DiskOutbox!OutboxNext
  <2> QED BY <1>2, <2>1, <2>2 DEF Commit
<1>3. ASSUME NEW s \in Syncers, Accept(s) \/ Fail(s) PROVE DiskOutbox!OutboxNext \/ Stutters
  <2>1. sync[s].batch \subseteq Events
    BY DEF IInv, TypeOK, Upload
  <2>2. db' = db /\ (received' = received \/ received' = received \cup sync[s].batch)
    BY <1>3 DEF Accept, Fail
  <2>3. CASE received' = received
    BY <1>1, <2>2, <2>3
  <2>4. CASE received' = received \cup sync[s].batch
    <3>1. DiskOutbox!Deliver(sync[s].batch)
      BY <2>2, <2>4 DEF DiskOutbox!Deliver, Unsynced
    <3> QED BY <2>1, <3>1 DEF DiskOutbox!OutboxNext
  <2> QED BY <2>2, <2>3, <2>4
<1>4. ASSUME NEW s \in Syncers, Persist(s) PROVE DiskOutbox!OutboxNext \/ Stutters
  <2> PICK settled : settled = sync[s].batch \cap Unsynced(db)
    OBVIOUS
  <2>1. received' = received /\ sync[s].batch \subseteq received
    BY <1>4 DEF Persist, IInv, AnsweredWasReceived
  <2>2. CASE UNCHANGED db
    BY <1>1, <2>1, <2>2
  <2>3. CASE db' = Marked(sync[s].batch)
    <3>1. db \in [Events -> Entry]
      BY DEF IInv, TypeOK
    <3>2. Unsynced(db') = Unsynced(db) \ settled
      BY <2>3, <3>1 DEF Unsynced, Marked, Entry
    <3>3. Acked(db') = Acked(db) \cup settled
      BY <2>3, <3>1 DEF Unsynced, Marked, Entry
    <3>4. settled \subseteq Unsynced(db) \cap received /\ settled \subseteq Events
      BY <2>1 DEF Unsynced
    <3>5. DiskOutbox!Acknowledge(settled)
      BY <2>1, <3>2, <3>3, <3>4 DEF DiskOutbox!Acknowledge, Unsynced
    <3>6. settled \in SUBSET Events
      BY <3>4
    <3> QED BY <3>5, <3>6 DEF DiskOutbox!OutboxNext
  <2> QED BY <1>4, <2>2, <2>3 DEF Persist
<1>5. ASSUME \/ \E e \in Events : Push(e) \/ Count(e)
             \/ \E s \in Syncers : Begin(s) \/ Mark(s) \/ CountRemaining(s) \/ StorePending(s)
             \/ Restart
             \/ UNCHANGED vars
      PROVE UNCHANGED <<db, received>>
  BY <1>5 DEF Push, Count, Begin, Mark, CountRemaining, StorePending, Restart, vars
<1> QED BY <1>1, <1>2, <1>3, <1>4, <1>5 DEF Next, AppendEvent, Finish

(* Statistics sync implements the outbox: what leaves the queue of         *)
(* runtime.db was delivered, and nothing that left it comes back.          *)
THEOREM SyncImplementsOutbox == Spec => ImplementsOutbox
  BY InitRefines, NextRefines, Inductive, PTL
     DEF Spec, ImplementsOutbox, DiskOutbox!OutboxSpec

-----------------------------------------------------------------------------
(* The stats worker.                                                       *)

(* What is stored or about to be stored is complete.                       *)
Complete(s, k) == s # Nothing => s.content = Computed(s.basis, k)

OnlyOutdatedMissing == \A e \in uploaded \ rows : Outdated(e)

(* A result is about the snapshot at the head of what is still to do.      *)
ResultComplete(w) ==
    w.result # Nothing => \A k \in Keys : Head(w.todo) = k => Complete(w.result, k)

RunShape ==
    /\ run = [r \in Refreshers |-> run[r]]
    /\ \A r \in Refreshers : run[r] = [todo |-> run[r].todo, result |-> run[r].result]

RunsComplete == RunShape /\ \A r \in Refreshers : ResultComplete(run[r])
SavedComplete ==
    /\ snapshot = [k \in Keys |-> snapshot[k]]
    /\ \A k \in Keys : Complete(snapshot[k], k)

Invariant ==
    /\ now \in Nat
    /\ rows \subseteq uploaded
    /\ uploaded \subseteq EventIds
    /\ OnlyOutdatedMissing
    /\ SavedComplete
    /\ RunsComplete

-----------------------------------------------------------------------------
(* A window of the table is a window of everything received.               *)
LEMMA SameWindow ==
    ASSUME Invariant, NEW k \in Keys
    PROVE  Window(rows, k) = Window(uploaded, k)
  <1>1. \A e \in uploaded : Recent(e, k) => ~Outdated(e)
    <2> SUFFICES ASSUME NEW e \in uploaded, Recent(e, k)
                 PROVE  ~Outdated(e)
      OBVIOUS
    <2>1. EventOf[e].at \in Nat /\ now \in Nat /\ Retention \in Nat /\ Week \in Nat
          /\ Week <= Retention
      BY EventOfAssumption, RetentionAssumption DEF Invariant
    <2>2. CASE k = Dashboard
      BY <2>1, <2>2 DEF Recent, Outdated
    <2>3. CASE k # Dashboard
      <3>1. k \in Nat /\ k <= Retention
        <4>1. Lookbacks \subseteq 1..Retention /\ Retention \in Nat
          BY RetentionAssumption
        <4>2. k \in Lookbacks
          BY <2>3 DEF Keys
        <4> QED
          BY <4>1, <4>2
      <3> QED
        BY <2>1, <2>3, <3>1 DEF Recent, Outdated
    <2> QED
      BY <2>2, <2>3
  <1> QED
    BY <1>1 DEF Window, Invariant, OnlyOutdatedMissing

LEMMA InitInvariant == WorkerInit => Invariant
  <1> SUFFICES ASSUME WorkerInit
               PROVE  Invariant
    OBVIOUS
  <1>1. RunsComplete
    BY DEF WorkerInit, Resting, RunsComplete, RunShape, ResultComplete
  <1>2. SavedComplete
    BY DEF WorkerInit, SavedComplete, Complete
  <1> QED
    BY <1>1, <1>2 DEF WorkerInit, Invariant, OnlyOutdatedMissing

LEMMA StepInvariant == Invariant /\ [WorkerNext]_workerVars => Invariant'
  <1> SUFFICES ASSUME Invariant, [WorkerNext]_workerVars
               PROVE  Invariant'
    OBVIOUS
  <1> USE DEF Invariant
  <1>1. ASSUME NEW batch \in (SUBSET EventIds) \ {{}}, UploadEvents(batch)
        PROVE  Invariant'
    <2>1. OnlyOutdatedMissing'
      BY <1>1 DEF UploadEvents, OnlyOutdatedMissing, Outdated
    <2>2. SavedComplete' /\ RunsComplete'
      BY <1>1 DEF UploadEvents, SavedComplete, RunsComplete, RunShape, ResultComplete, Complete
    <2> QED
      BY <1>1, <2>1, <2>2 DEF UploadEvents
  <1>2. ASSUME Cleanup
        PROVE  Invariant'
    <2>1. PICK gone \in SUBSET {e \in rows : Outdated(e)} : rows' = rows \ gone
      BY <1>2 DEF Cleanup
    <2>2. OnlyOutdatedMissing'
      BY <1>2, <2>1 DEF Cleanup, OnlyOutdatedMissing, Outdated
    <2>3. SavedComplete' /\ RunsComplete'
      BY <1>2 DEF Cleanup, SavedComplete, RunsComplete, RunShape, ResultComplete, Complete
    <2> QED
      BY <1>2, <2>1, <2>2, <2>3 DEF Cleanup
  <1>3. ASSUME NEW r \in Refreshers, BeginRefresh(r) \/ Purge(r) \/ FailRefresh(r)
        PROVE  Invariant'
    <2>1. /\ run' = [q \in Refreshers |-> run'[q]]
          /\ \A q \in Refreshers \ {r} : run'[q] = run[q]
      BY <1>3 DEF BeginRefresh, Purge, Onward, FailRefresh, RunsComplete, RunShape
    <2>2. run'[r] = [todo |-> run'[r].todo, result |-> Nothing]
      <3>1. CASE BeginRefresh(r)
        <4>1. run[r].result = Nothing
          BY <3>1 DEF BeginRefresh, Resting
        <4> QED
          BY <3>1, <4>1 DEF BeginRefresh, RunsComplete, RunShape
      <3>2. CASE Purge(r)
        BY <3>2 DEF Purge, Onward, Resting, RunsComplete, RunShape
      <3>3. CASE FailRefresh(r)
        BY <3>3 DEF FailRefresh, Resting, RunsComplete, RunShape
      <3> QED
        BY <1>3, <3>1, <3>2, <3>3
    <2>4. RunsComplete'
      BY <2>1, <2>2 DEF RunsComplete, RunShape, ResultComplete, Complete
    <2>3. OnlyOutdatedMissing' /\ SavedComplete'
      BY <1>3 DEF BeginRefresh, Purge, FailRefresh, OnlyOutdatedMissing, Outdated,
                  SavedComplete, Complete
    <2> QED
      BY <1>3, <2>4, <2>3 DEF BeginRefresh, Purge, FailRefresh
  <1>4. ASSUME NEW r \in Refreshers, NEW k \in Keys, Compute(r, k)
        PROVE  Invariant'
    <2> DEFINE new == [content |-> Computed(Window(rows, k), k), basis |-> Window(uploaded, k)]
    <2>1. Complete(new, k)
      BY SameWindow DEF Complete
    <2>2. run' = [run EXCEPT ![r].result = new]
      BY <1>4 DEF Compute
    <2>3. Head(run[r].todo) = k
      BY <1>4 DEF Compute, At
    <2> HIDE DEF new
    <2>4. run'[r] = [todo |-> run[r].todo, result |-> new]
      BY <2>2 DEF RunsComplete, RunShape
    <2>5. RunsComplete'
      BY <2>1, <2>2, <2>3, <2>4 DEF RunsComplete, RunShape, ResultComplete, Complete
    <2>6. OnlyOutdatedMissing' /\ SavedComplete'
      BY <1>4 DEF Compute, OnlyOutdatedMissing, Outdated, SavedComplete, Complete
    <2> QED
      BY <1>4, <2>5, <2>6 DEF Compute
  <1>5. ASSUME NEW r \in Refreshers, NEW k \in Keys, Save(r, k)
        PROVE  Invariant'
    <2>1. Complete(run[r].result, k)
      BY <1>5 DEF Save, At, RunsComplete, ResultComplete
    <2>2. SavedComplete'
      BY <1>5, <2>1 DEF Save, SavedComplete, Complete
    <2>3. RunsComplete'
      BY <1>5 DEF Save, Onward, Resting, RunsComplete, RunShape, ResultComplete, Complete
    <2>4. OnlyOutdatedMissing'
      BY <1>5 DEF Save, OnlyOutdatedMissing, Outdated
    <2> QED
      BY <1>5, <2>2, <2>3, <2>4 DEF Save
  <1>6. ASSUME Put \/ (\E k \in Keys : Serve(k) \/ Expire(k)) \/ UNCHANGED workerVars
        PROVE  Invariant'
    <2>1. UNCHANGED <<rows, uploaded, snapshot, run, now>>
      BY <1>6 DEF Put, Serve, Expire, workerVars
    <2> QED
      BY <2>1 DEF OnlyOutdatedMissing, Outdated, SavedComplete, RunsComplete, RunShape,
                  ResultComplete, Complete
  <1>7. ASSUME Tick
        PROVE  Invariant'
    <2>1. OnlyOutdatedMissing'
      <3> SUFFICES ASSUME NEW e \in uploaded \ rows, Outdated(e)
                   PROVE  Outdated(e)'
        BY <1>7 DEF Tick, OnlyOutdatedMissing
      <3>1. EventOf[e].at \in Nat /\ Retention \in Nat
        BY EventOfAssumption, RetentionAssumption
      <3> QED
        BY <1>7, <3>1 DEF Tick, Outdated
    <2>2. SavedComplete' /\ RunsComplete'
      BY <1>7 DEF Tick, SavedComplete, RunsComplete, RunShape, ResultComplete, Complete
    <2> QED
      BY <1>7, <2>1, <2>2 DEF Tick
  <1> QED
    BY <1>1, <1>2, <1>3, <1>4, <1>5, <1>6, <1>7 DEF WorkerNext

(* Every snapshot is what all events ever received give for its window.    *)
THEOREM CleanupIsInvisible == WorkerSpec => []SnapshotsMissNothing
  <1>1. Invariant => SnapshotsMissNothing
    BY DEF Invariant, SavedComplete, Complete, SnapshotsMissNothing
  <1> QED
    BY <1>1, InitInvariant, StepInvariant, PTL DEF WorkerSpec

-----------------------------------------------------------------------------
(* What was computed is of events that were received.                      *)
ResultsReceived ==
    \A r \in Refreshers : run[r].result # Nothing => run[r].result.basis \subseteq uploaded

LEMMA InitWorkerTyped == WorkerInit => WorkerTypeOK /\ ResultsReceived
  BY RetentionAssumption DEF WorkerInit, WorkerTypeOK, ResultsReceived, Resting

LEMMA StepWorkerTyped ==
    ASSUME Invariant, WorkerTypeOK, ResultsReceived, [WorkerNext]_workerVars
    PROVE  WorkerTypeOK' /\ ResultsReceived'
  <1> USE DEF WorkerTypeOK, ResultsReceived
  <1>0. now \in Nat /\ MaxTime \in Nat /\ RunShape
    BY RetentionAssumption DEF Invariant, RunsComplete
  <1>1. CASE \E batch \in (SUBSET EventIds) \ {{}} : UploadEvents(batch)
    BY <1>1 DEF UploadEvents
  <1>2. CASE Cleanup
    BY <1>2 DEF Cleanup
  <1>3. ASSUME NEW r \in Refreshers, BeginRefresh(r) \/ Purge(r) \/ FailRefresh(r)
        PROVE  WorkerTypeOK' /\ ResultsReceived'
    <2>1. DOMAIN run' = Refreshers /\ \A q \in Refreshers : run'[q].result \in {Nothing, run[q].result}
      BY <1>0, <1>3 DEF BeginRefresh, Purge, FailRefresh, Onward, Resting, RunShape
    <2>2. UNCHANGED <<rows, uploaded, snapshot, filling, now>> /\ DOMAIN cache' = Keys
      BY <1>3 DEF BeginRefresh, Purge, FailRefresh
    <2> QED
      BY <2>1, <2>2
  <1>4. ASSUME NEW r \in Refreshers, NEW k \in Keys, Compute(r, k)
        PROVE  WorkerTypeOK' /\ ResultsReceived'
    <2> DEFINE new == [content |-> Computed(Window(rows, k), k), basis |-> Window(uploaded, k)]
    <2>1. new.basis \subseteq uploaded
      BY DEF Window
    <2>2. run' = [run EXCEPT ![r].result = new] /\ UNCHANGED <<rows, uploaded, snapshot, cache, filling, now>>
      BY <1>4 DEF Compute
    <2> HIDE DEF new
    <2>3. DOMAIN run' = Refreshers /\ \A q \in Refreshers : run'[q].result \in {new, run[q].result}
      BY <1>0, <2>2 DEF RunShape
    <2>4. WorkerTypeOK'
      BY <2>2, <2>3
    <2>5. ResultsReceived'
      BY <2>1, <2>2, <2>3
    <2> QED
      BY <2>4, <2>5
  <1>5. ASSUME NEW r \in Refreshers, NEW k \in Keys, Save(r, k)
        PROVE  WorkerTypeOK' /\ ResultsReceived'
    <2>1. /\ DOMAIN run' = Refreshers
          /\ \A q \in Refreshers : run'[q].result \in {Nothing, run[q].result}
      BY <1>0, <1>5 DEF Save, Onward, Resting, RunShape
    <2>2. /\ UNCHANGED <<rows, uploaded, cache, filling, now>>
          /\ DOMAIN snapshot' = Keys
          /\ \A j \in Keys : snapshot'[j] = IF j = k THEN run[r].result ELSE snapshot[j]
      BY <1>5 DEF Save
    <2>3. run[r].result # Nothing /\ run[r].result.basis \subseteq uploaded
      BY <1>5 DEF Save
    <2> QED
      BY <2>1, <2>2, <2>3
  <1>6. ASSUME NEW k \in Keys, Serve(k) \/ Expire(k)
        PROVE  WorkerTypeOK' /\ ResultsReceived'
    BY <1>6 DEF Serve, Expire
  <1>7. CASE Put
    BY <1>7 DEF Put
  <1>8. CASE Tick
    <2>1. \A e \in EventIds : EventOf[e].at <= now => EventOf[e].at <= now + 1
      BY <1>0, EventOfAssumption
    <2> QED
      BY <1>0, <1>8, <2>1 DEF Tick
  <1>9. CASE UNCHANGED workerVars
    BY <1>9 DEF workerVars
  <1> QED
    BY <1>1, <1>2, <1>3, <1>4, <1>5, <1>6, <1>7, <1>8, <1>9 DEF WorkerNext

(* Rows and snapshots are of events that were received and lie not in the  *)
(* future, and that there is no summary is never put into the edge cache   *)
(* (a 503 of the public summary).                                          *)
THEOREM WorkerTypesHold == WorkerSpec => []WorkerTypeOK
  <1>1. Invariant /\ WorkerTypeOK /\ ResultsReceived /\ [WorkerNext]_workerVars
           => WorkerTypeOK' /\ ResultsReceived'
    BY StepWorkerTyped
  <1> QED
    BY <1>1, InitInvariant, StepInvariant, InitWorkerTyped, PTL DEF WorkerSpec

-----------------------------------------------------------------------------
(* The groups of an item, and those of them that ever had an outcome.      *)
GroupsOf(events, key) == {g \in {Group(e) : e \in events} : KeyOf(g) = key}
Had(events, key, outcomes) ==
    {g \in GroupsOf(events, key) :
        \E e \in events : Group(e) = g /\ EventOf[e].outcome \in outcomes}

LEMMA ItemCountsGroups ==
    ASSUME NEW events, NEW key
    PROVE  Item(events, key) =
              [provider |-> key.provider, operator |-> key.operator,
               total |-> Cardinality(GroupsOf(events, key)),
               success |-> Cardinality(Had(events, key, {"finished", "code_received"})),
               cancelled |-> Cardinality(Had(events, key, {"cancelled"})),
               banned |-> Cardinality(Had(events, key, {"banned"})),
               failed |-> Cardinality(Had(events, key, {"failed"}))]
  BY DEF Item, GroupsOf, Had

Filtered(events, q) == {e \in events : Matches(e, q)}

(* Whether an item, or its key, passes the client's filter.                *)
Passes(i, q) == q.provider \in {Nothing, i.provider} /\ q.operator \in {Nothing, i.operator}

(* An event matches when the key of its group passes.                      *)
LEMMA MatchesByKey ==
    ASSUME NEW e, NEW q PROVE Matches(e, q) <=> Passes(KeyOf(Group(e)), q)
  BY DEF Matches, Passes, KeyOf, Group

(* An item that passes has all its events among the filtered ones.         *)
LEMMA ItemOfFiltered ==
    ASSUME NEW events, NEW q, NEW key, Passes(key, q)
    PROVE  Item(Filtered(events, q), key) = Item(events, key)
<1>1. \A e \in events : KeyOf(Group(e)) = key => e \in Filtered(events, q)
  BY MatchesByKey DEF Filtered
<1>2. GroupsOf(Filtered(events, q), key) = GroupsOf(events, key)
  BY <1>1 DEF GroupsOf, Filtered
<1>3. ASSUME NEW outcomes PROVE Had(Filtered(events, q), key, outcomes) = Had(events, key, outcomes)
  <2>1. ASSUME NEW g \in GroupsOf(events, key)
        PROVE  (\E e \in events : Group(e) = g /\ EventOf[e].outcome \in outcomes) <=>
               (\E e \in Filtered(events, q) : Group(e) = g /\ EventOf[e].outcome \in outcomes)
    BY <1>1 DEF GroupsOf, Filtered
  <2> QED BY <1>2, <2>1 DEF Had
<1> QED BY <1>2, <1>3, ItemCountsGroups

(* Filtering the summary of everything is summarising what matches.        *)
LEMMA FilterOfSummary ==
    ASSUME NEW events, NEW q
    PROVE  LocalFilter(Summary(events, NoFilter), q) = Summary(events, q)
<1> DEFINE KeysOf(E) == {KeyOf(Group(e)) : e \in E}
<1>1. Filtered(events, NoFilter) = events
  BY DEF Filtered, Matches, NoFilter
<1>2. Summary(events, NoFilter) = {Item(events, key) : key \in KeysOf(events)}
  BY <1>1 DEF Summary, Filtered
<1>3. Summary(events, q) = {Item(Filtered(events, q), key) : key \in KeysOf(Filtered(events, q))}
  BY DEF Summary, Filtered
<1>4. \A key : Passes(Item(events, key), q) <=> Passes(key, q)
  BY ItemCountsGroups DEF Passes
<1>5. KeysOf(Filtered(events, q)) = {key \in KeysOf(events) : Passes(key, q)}
  BY MatchesByKey DEF Filtered
<1>6. LocalFilter(Summary(events, NoFilter), q) =
         {Item(events, key) : key \in {k \in KeysOf(events) : Passes(k, q)}}
  BY <1>2, <1>4 DEF LocalFilter, Passes
<1> HIDE DEF KeysOf
<1>7. {Item(events, key) : key \in KeysOf(Filtered(events, q))} =
      {Item(Filtered(events, q), key) : key \in KeysOf(Filtered(events, q))}
  BY <1>5, ItemOfFiltered
<1> QED BY <1>3, <1>5, <1>6, <1>7

(* Whatever was uploaded and deleted and whoever asks: the client's filter *)
(* over a snapshot answers what the worker would have answered itself      *)
(* (filter_remote_stats_summary_snapshot, computeSummary).                 *)
THEOREM FilteringIsQuerying == WorkerSpec => []LocalFilterAgrees
<1>1. RetentionAssumption /\ SnapshotsMissNothing => LocalFilterAgrees
  <2> SUFFICES ASSUME RetentionAssumption, SnapshotsMissNothing,
                      NEW k \in Lookbacks, NEW q \in Queries, snapshot[k] # Nothing
               PROVE  LocalFilter(snapshot[k].content, q) = Summary(snapshot[k].basis, q)
    BY DEF LocalFilterAgrees
  <2>1. k \in Keys /\ k # Dashboard
    BY DEF RetentionAssumption, Keys, Dashboard
  <2>2. snapshot[k].content = Summary(snapshot[k].basis, NoFilter)
    BY <2>1 DEF SnapshotsMissNothing, Computed
  <2> QED BY <2>2, FilterOfSummary
<1> QED BY <1>1, CleanupIsInvisible, RetentionAssumption, PTL

=============================================================================
