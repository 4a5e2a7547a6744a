----------------------------- MODULE StatsSync -----------------------------
(***************************************************************************)
(* Ticket statistics: handlers append outcome events to the in-memory      *)
(* queue and to their unit of work (append_ticket_stats_event_to_uow); the *)
(* 60 s loop and the manual "Sync now" upload what is unsynced, then mark  *)
(* it in memory and in runtime.db (sync_ticket_stats). Events and the      *)
(* pending counter are behind two different locks, and none is held while  *)
(* the upload is awaited.                                                  *)
(***************************************************************************)
EXTENDS Naturals, FiniteSets

CONSTANTS
    Events,       \* outcome events that may occur
    Syncers,      \* callers of sync_ticket_stats: the loop, the settings page
    None,         \* nothing carried or counted yet
    DiskFails,    \* TRUE: a write to runtime.db may fail (the error is ignored)
    MaxRestarts   \* bound of the number of process restarts

ASSUME EventsAssumption == IsFiniteSet(Events)
ASSUME NoneAssumption == None \notin Nat
ASSUME ModeAssumption == DiskFails \in BOOLEAN
ASSUME BoundAssumption == MaxRestarts \in Nat

VARIABLES
    mem,       \* event -> its entry in ticket_stats_events in memory
    db,        \* event -> its row in runtime.db
    stage,     \* event -> how far the handler that appends it has come
    carried,   \* event -> the pending count its unit of work carries
    pending,   \* stats_sync_status.pending_events in memory
    dbPending, \* the same in runtime.db
    sync,      \* syncer -> the step of its upload
    received,  \* events the stats worker has stored
    restarts

vars == <<mem, db, stage, carried, pending, dbPending, sync, received, restarts>>

Entry == {"absent", "unsynced", "synced"}
Stage == {"new", "pushed", "counted", "done", "lost"}

Quiescent == [pc |-> "idle", batch |-> {}, remaining |-> None]
Upload == [pc : {"idle", "sent", "accepted", "marked", "counted", "stored"},
           batch : SUBSET Events, remaining : Nat \cup {None}]

Unsynced(entries) == {e \in Events : entries[e] = "unsynced"}

Init ==
    /\ mem = [e \in Events |-> "absent"]
    /\ db = mem
    /\ stage = [e \in Events |-> "new"]
    /\ carried = [e \in Events |-> None]
    /\ pending = 0
    /\ dbPending = 0
    /\ sync = [s \in Syncers |-> Quiescent]
    /\ received = {}
    /\ restarts = 0

-----------------------------------------------------------------------------
(* A handler appends an event: to the queue, ...                           *)
Push(e) ==
    /\ stage[e] = "new"
    /\ mem' = [mem EXCEPT ![e] = "unsynced"]
    /\ stage' = [stage EXCEPT ![e] = "pushed"]
    /\ UNCHANGED <<db, carried, pending, dbPending, sync, received, restarts>>

(* ... then to the counter, of which its unit of work takes a copy, ...    *)
Count(e) ==
    /\ stage[e] = "pushed"
    /\ pending' = pending + 1
    /\ carried' = [carried EXCEPT ![e] = pending + 1]
    /\ stage' = [stage EXCEPT ![e] = "counted"]
    /\ UNCHANGED <<mem, db, dbPending, sync, received, restarts>>

(* ... and commits: the row is inserted as it was created, not synced.     *)
Commit(e) ==
    /\ stage[e] = "counted"
    /\ \/ /\ db' = [db EXCEPT ![e] = "unsynced"]
          /\ dbPending' = carried[e]
       \/ DiskFails /\ UNCHANGED <<db, dbPending>>
    /\ stage' = [stage EXCEPT ![e] = "done"]
    /\ carried' = [carried EXCEPT ![e] = None]
    /\ UNCHANGED <<mem, pending, sync, received, restarts>>

-----------------------------------------------------------------------------
(* Defect: the events are marked before they are uploaded.                 *)
BeginMarksFirst(s) ==
    /\ sync[s] = Quiescent
    /\ Unsynced(mem) # {}
    /\ sync' = [sync EXCEPT ![s] = [pc |-> "sent", batch |-> Unsynced(mem), remaining |-> None]]
    /\ mem' = [e \in Events |-> IF mem[e] = "unsynced" THEN "synced" ELSE mem[e]]
    /\ UNCHANGED <<db, stage, carried, pending, dbPending, received, restarts>>

Begin(s) ==
    /\ sync[s] = Quiescent
    /\ Unsynced(mem) # {}
    /\ sync' = [sync EXCEPT ![s] = [pc |-> "sent", batch |-> Unsynced(mem), remaining |-> None]]
    /\ UNCHANGED <<mem, db, stage, carried, pending, dbPending, received, restarts>>

(* POST /v1/events: one INSERT OR REPLACE per event, in a single batch.    *)
Accept(s) ==
    /\ sync[s].pc = "sent"
    /\ received' = received \cup sync[s].batch
    /\ sync' = [sync EXCEPT ![s].pc = "accepted"]
    /\ UNCHANGED <<mem, db, stage, carried, pending, dbPending, restarts>>

(* Defect: a failed upload puts its rows back, synced or not.              *)
FailRequeues(s) ==
    /\ sync[s].pc = "sent"
    /\ received' \in {received, received \cup sync[s].batch}
    /\ db' = [e \in Events |-> IF e \in sync[s].batch THEN "unsynced" ELSE db[e]]
    /\ sync' = [sync EXCEPT ![s] = Quiescent]
    /\ dbPending' = pending
    /\ UNCHANGED <<mem, stage, carried, pending, restarts>>

(* The request fails, or its answer does: the error is recorded together   *)
(* with the pending count, under the lock.                                 *)
Fail(s) ==
    /\ sync[s].pc = "sent"
    /\ received' \in {received, received \cup sync[s].batch}
    /\ sync' = [sync EXCEPT ![s] = Quiescent]
    /\ \/ dbPending' = pending
       \/ DiskFails /\ UNCHANGED dbPending
    /\ UNCHANGED <<mem, db, stage, carried, pending, restarts>>

(* After a success every entry that is unsynced by now is marked.          *)
Mark(s) ==
    /\ sync[s].pc = "accepted"
    /\ mem' = [e \in Events |-> IF mem[e] = "unsynced" THEN "synced" ELSE mem[e]]
    /\ sync' = [sync EXCEPT ![s].pc = "marked"]
    /\ UNCHANGED <<db, stage, carried, pending, dbPending, received, restarts>>

CountRemaining(s) ==
    /\ sync[s].pc = "marked"
    /\ sync' = [sync EXCEPT ![s].pc = "counted", ![s].remaining = Cardinality(Unsynced(mem))]
    /\ UNCHANGED <<mem, db, stage, carried, pending, dbPending, received, restarts>>

StorePending(s) ==
    /\ sync[s].pc = "counted"
    /\ pending' = sync[s].remaining
    /\ sync' = [sync EXCEPT ![s].pc = "stored"]
    /\ UNCHANGED <<mem, db, stage, carried, dbPending, received, restarts>>

(* Defect: the database marks all that is unsynced, as memory does.        *)
MarkedWhenUnsynced(batch) == [e \in Events |-> IF db[e] = "unsynced" THEN "synced" ELSE db[e]]

(* In the database only the rows of the uploaded batch are marked.         *)
Marked(batch) == [e \in Events |-> IF e \in batch /\ db[e] # "absent" THEN "synced" ELSE db[e]]

Persist(s) ==
    /\ sync[s].pc = "stored"
    /\ \/ /\ db' = Marked(sync[s].batch)
          /\ dbPending' = sync[s].remaining
       \/ DiskFails /\ UNCHANGED <<db, dbPending>>
    /\ sync' = [sync EXCEPT ![s] = Quiescent]
    /\ UNCHANGED <<mem, stage, carried, pending, received, restarts>>

-----------------------------------------------------------------------------
(* A restart loads events and counter from runtime.db; an event whose      *)
(* commit had not happened is gone.                                        *)
Restart ==
    /\ restarts < MaxRestarts
    /\ restarts' = restarts + 1
    /\ mem' = db
    /\ pending' = dbPending
    /\ stage' = [e \in Events |-> IF stage[e] \in {"pushed", "counted"} THEN "lost" ELSE stage[e]]
    /\ carried' = [e \in Events |-> None]
    /\ sync' = [s \in Syncers |-> Quiescent]
    /\ UNCHANGED <<db, dbPending, received>>

AppendEvent(e) == Push(e) \/ Count(e) \/ Commit(e)
Finish(s) == Mark(s) \/ CountRemaining(s) \/ StorePending(s) \/ Persist(s)

Next ==
    \/ \E e \in Events : AppendEvent(e)
    \/ \E s \in Syncers : Begin(s) \/ Accept(s) \/ Fail(s) \/ Finish(s)
    \/ Restart

Spec == Init /\ [][Next]_vars

(* The loop calls sync_ticket_stats every 60 s, the HTTP client gives up   *)
(* after 10 s, and what follows an answer is not blocked. Uploads that are *)
(* tried again and again are assumed to get through in the end.            *)
FairSpec ==
    /\ Spec
    /\ \A e \in Events : WF_vars(Count(e) \/ Commit(e))
    /\ \A s \in Syncers : /\ WF_vars(Begin(s))
                          /\ WF_vars(Accept(s) \/ Fail(s))
                          /\ SF_vars(Accept(s))
                          /\ WF_vars(Finish(s))

-----------------------------------------------------------------------------
TypeOK ==
    /\ mem \in [Events -> Entry]
    /\ db \in [Events -> Entry]
    /\ stage \in [Events -> Stage]
    /\ carried \in [Events -> Nat \cup {None}]
    /\ pending \in Nat
    /\ dbPending \in Nat
    /\ sync \in [Syncers -> Upload]
    /\ received \subseteq Events
    /\ restarts \in Nat

(* A row that the database calls synced is stored at the stats worker,     *)
(* although events are appended while an upload is under way, answers are  *)
(* lost and the process dies between the marks (sync_ticket_stats).        *)
DiskSyncedWasReceived == \A e \in Events : db[e] = "synced" => e \in received

(* The event table is an at-least-once outbox.                             *)
DiskOutbox == INSTANCE Outbox WITH
    queued    <- Unsynced(db),
    acked     <- {e \in Events : db[e] = "synced"},
    delivered <- received
ImplementsOutbox == DiskOutbox!OutboxSpec

(* An event that waits in memory and in the database at a moment when no   *)
(* upload is under way reaches the stats worker, however often uploads or  *)
(* writes fail and whether or not the process restarts meanwhile: no later *)
(* upload can mark it without carrying it (sync_ticket_stats).             *)
Waiting(e) ==
    /\ stage[e] = "done" /\ mem[e] = "unsynced" /\ db[e] = "unsynced"
    /\ \A s \in Syncers : sync[s] = Quiescent

WaitingEventsArrive == \A e \in Events : Waiting(e) ~> (e \in received)

(* Every recorded event is uploaded (README.md: "the app uploads ticket    *)
(* outcome events approximately once per minute").                         *)
RecordedEventsArrive == \A e \in Events : (stage[e] = "done") ~> (e \in received)
=============================================================================
