---------------------------- MODULE StatsWorker ----------------------------
(***************************************************************************)
(* The stats worker: uploaded events in the table ticket_stats_events,     *)
(* snapshots of the dashboard and of one summary per lookback, which a     *)
(* cron job and an administrator recompute, the daily cleanup, and the     *)
(* edge cache in front of the public pages; then the filter that the       *)
(* client of the public summary applies. Averages, the order of items and  *)
(* the lists of the dashboard are left out; provider stands for provider,  *)
(* service and country.                                                    *)
(***************************************************************************)
EXTENDS Naturals, Sequences, FiniteSets

CONSTANTS
    EventIds,        \* ids of events
    EventOf,         \* id -> what the client recorded
    Lookbacks,       \* PRECOMPUTED_SUMMARY_LOOKBACK_HOURS
    LookbackOrder,   \* the order in which they are refreshed
    Retention,       \* EVENT_RETENTION_DAYS
    Week,            \* the period of the dashboard
    CleanupBatch,    \* EVENT_CLEANUP_BATCH_SIZE
    Cron, Admin,     \* who refreshes the snapshots
    AnyOperator,     \* what a summary shows for no operator
    Nothing,         \* no operator, no filter, no snapshot, nothing cached
    MaxTime          \* bound of the clock

Outcomes == {"acquired", "code_received", "finished", "cancelled", "failed", "banned"}
ASSUME EventOfAssumption ==
    \A e \in EventIds : EventOf[e].at \in Nat /\ EventOf[e].outcome \in Outcomes
(* No snapshot reaches further back than what the cleanup keeps.           *)
ASSUME RetentionAssumption ==
    /\ Retention \in Nat /\ Week \in 0..Retention
    /\ Lookbacks \subseteq 1..Retention /\ LookbackOrder \in Seq(Lookbacks)
    /\ CleanupBatch \in Nat \ {0} /\ MaxTime \in Nat

VARIABLES
    rows,        \* ids in ticket_stats_events
    uploaded,    \* ids of all uploads so far
    snapshot,    \* key -> its row in stats_snapshots
    run,         \* refresher -> what it has still to do
    cache,       \* key -> what the edge cache holds of its public page
    filling,     \* what a request is about to put into the edge cache
    now

workerVars == <<rows, uploaded, snapshot, run, cache, filling, now>>

Refreshers == {Cron, Admin}

(* The keys of stats_snapshots and of the public pages: the dashboard, and *)
(* a summary for each lookback.                                            *)
Dashboard == 0
Keys == {Dashboard} \cup Lookbacks

(* The last job of an administrator's refresh, which is no key.            *)
Purging == Retention + 1

-----------------------------------------------------------------------------
Shown(operator) == IF operator = Nothing THEN AnyOperator ELSE operator

(* Defect: an event without operator is filtered before it is named.       *)
MatchesAsStored(e, q) ==
    /\ q.provider \in {Nothing, EventOf[e].provider}
    /\ q.operator \in {Nothing, EventOf[e].operator}

Matches(e, q) ==
    /\ q.provider \in {Nothing, EventOf[e].provider}
    /\ q.operator \in {Nothing, Shown(EventOf[e].operator)}

Group(e) == [ticket |-> EventOf[e].ticket, provider |-> EventOf[e].provider,
             operator |-> EventOf[e].operator]
KeyOf(g) == [provider |-> g.provider, operator |-> Shown(g.operator)]

(* The groups of a provider and operator, counted by the outcomes that the *)
(* ticket of the group ever had.                                           *)
Item(events, key) ==
    LET groups == {g \in {Group(e) : e \in events} : KeyOf(g) = key}
        With(outcomes) ==
            Cardinality({g \in groups : \E e \in events : /\ Group(e) = g
                                                         /\ EventOf[e].outcome \in outcomes})
    IN  [provider |-> key.provider, operator |-> key.operator,
         total |-> Cardinality(groups), success |-> With({"finished", "code_received"}),
         cancelled |-> With({"cancelled"}), banned |-> With({"banned"}),
         failed |-> With({"failed"})]

Summary(events, q) ==
    LET filtered == {e \in events : Matches(e, q)}
    IN  {Item(filtered, key) : key \in {KeyOf(Group(e)) : e \in filtered}}

NoFilter == [provider |-> Nothing, operator |-> Nothing]

(* The client filters the items of the snapshot.                           *)
LocalFilter(items, q) ==
    {i \in items : q.provider \in {Nothing, i.provider} /\ q.operator \in {Nothing, i.operator}}

Totals(events) ==
    [events |-> Cardinality(events),
     tickets |-> Cardinality({EventOf[e].ticket : e \in events}),
     users |-> Cardinality({EventOf[e].user : e \in events})]

(* The events a snapshot is about: those of the lookback, its first moment *)
(* included, and for the dashboard those of the week, it excluded.         *)
Recent(e, key) == IF key = Dashboard THEN EventOf[e].at + Week > now
                                     ELSE EventOf[e].at + key >= now
Window(events, key) == {e \in events : Recent(e, key)}

Computed(events, key) == IF key = Dashboard THEN Totals(events) ELSE Summary(events, NoFilter)

-----------------------------------------------------------------------------
Resting == [todo |-> <<>>, result |-> Nothing]

WorkerInit ==
    /\ rows = {}
    /\ uploaded = {}
    /\ snapshot = [k \in Keys |-> Nothing]
    /\ run = [r \in Refreshers |-> Resting]
    /\ cache = [k \in Keys |-> Nothing]
    /\ filling = Nothing
    /\ now = 0

(* An upload: events that happened, sent again or not; one batch, and a    *)
(* row of the same id is replaced by itself.                               *)
UploadEvents(batch) ==
    /\ \A e \in batch : EventOf[e].at <= now
    /\ rows' = rows \cup batch
    /\ uploaded' = uploaded \cup batch
    /\ UNCHANGED <<snapshot, run, cache, filling, now>>

(* Defect: what is as old as the retention goes too.                       *)
OutdatedFromTheDay(e) == EventOf[e].at + Retention <= now
Outdated(e) == EventOf[e].at + Retention < now

(* The oldest outdated rows, as many as one run deletes.                   *)
Cleanup ==
    LET old == {e \in rows : Outdated(e)}
    IN  /\ old # {}
        /\ \E gone \in SUBSET old :
              /\ Cardinality(gone) = IF Cardinality(old) < CleanupBatch THEN Cardinality(old)
                                                                       ELSE CleanupBatch
              /\ \A e \in gone, f \in old \ gone : EventOf[e].at <= EventOf[f].at
              /\ rows' = rows \ gone
        /\ UNCHANGED <<uploaded, snapshot, run, cache, filling, now>>

-----------------------------------------------------------------------------
(* One refresh: every snapshot in turn is computed and then saved; an      *)
(* administrator's ends with the deletion of the cached dashboard.         *)
BeginRefresh(r) ==
    /\ run[r] = Resting
    /\ run' = [run EXCEPT ![r].todo = <<Dashboard>> \o LookbackOrder
                                        \o (IF r = Admin THEN <<Purging>> ELSE <<>>)]
    /\ UNCHANGED <<rows, uploaded, snapshot, cache, filling, now>>

At(r, k) == run[r].todo # <<>> /\ Head(run[r].todo) = k

Compute(r, k) ==
    /\ At(r, k)
    /\ run[r].result = Nothing
    /\ run' = [run EXCEPT ![r].result = [content |-> Computed(Window(rows, k), k),
                                         basis |-> Window(uploaded, k)]]
    /\ UNCHANGED <<rows, uploaded, snapshot, cache, filling, now>>

Onward(r) == [run EXCEPT ![r] = [Resting EXCEPT !.todo = Tail(run[r].todo)]]

(* Defect: a snapshot that is there is kept.                               *)
SaveFirst(r, k) ==
    /\ At(r, k)
    /\ run[r].result # Nothing
    /\ snapshot' = [snapshot EXCEPT ![k] = IF @ = Nothing THEN run[r].result ELSE @]
    /\ run' = Onward(r)
    /\ UNCHANGED <<rows, uploaded, cache, filling, now>>

Save(r, k) ==
    /\ At(r, k)
    /\ run[r].result # Nothing
    /\ snapshot' = [snapshot EXCEPT ![k] = run[r].result]
    /\ run' = Onward(r)
    /\ UNCHANGED <<rows, uploaded, cache, filling, now>>

Purge(r) ==
    /\ At(r, Purging)
    /\ cache' = [cache EXCEPT ![Dashboard] = Nothing]
    /\ run' = Onward(r)
    /\ UNCHANGED <<rows, uploaded, snapshot, filling, now>>

(* The database refuses a query: the refresh ends where it is.             *)
FailRefresh(r) ==
    /\ run[r].todo # <<>>
    /\ run' = [run EXCEPT ![r] = Resting]
    /\ UNCHANGED <<rows, uploaded, snapshot, cache, filling, now>>

-----------------------------------------------------------------------------
(* A request that misses the edge cache reads the snapshot, answers, and   *)
(* puts its answer into the cache later; a summary that is not there is    *)
(* answered with 503. One such request at a time.                          *)
Serve(k) ==
    /\ cache[k] = Nothing
    /\ filling = Nothing
    /\ k = Dashboard \/ snapshot[k] # Nothing
    /\ filling' = [key |-> k, value |-> snapshot[k]]
    /\ UNCHANGED <<rows, uploaded, snapshot, run, cache, now>>

Put ==
    /\ filling # Nothing
    /\ cache' = [cache EXCEPT ![filling.key] = filling.value]
    /\ filling' = Nothing
    /\ UNCHANGED <<rows, uploaded, snapshot, run, now>>

Expire(k) ==
    /\ cache[k] # Nothing
    /\ cache' = [cache EXCEPT ![k] = Nothing]
    /\ UNCHANGED <<rows, uploaded, snapshot, run, filling, now>>

(* A tick is hours; an entry of the cache lives for five minutes.          *)
Tick ==
    /\ now < MaxTime
    /\ now' = now + 1
    /\ cache' = [k \in Keys |-> Nothing]
    /\ filling' = Nothing
    /\ UNCHANGED <<rows, uploaded, snapshot, run>>

WorkerNext ==
    \/ \E batch \in (SUBSET EventIds) \ {{}} : UploadEvents(batch)
    \/ Cleanup
    \/ \E r \in Refreshers :
          \/ BeginRefresh(r) \/ Purge(r) \/ FailRefresh(r)
          \/ \E k \in Keys : Compute(r, k) \/ Save(r, k)
    \/ \E k \in Keys : Serve(k) \/ Expire(k)
    \/ Put
    \/ Tick

WorkerSpec == WorkerInit /\ [][WorkerNext]_workerVars

(* The cron job runs every hour, and its queries do not fail for ever.     *)
FairWorkerSpec ==
    /\ WorkerSpec
    /\ WF_workerVars(BeginRefresh(Cron))
    /\ \A k \in Keys : /\ SF_workerVars(Compute(Cron, k)) /\ SF_workerVars(Save(Cron, k))
                      /\ WF_workerVars(Expire(k))

-----------------------------------------------------------------------------
(* Types; no row was not received, no snapshot is of events to come, and   *)
(* that there is no summary is never cached.                               *)
WorkerTypeOK ==
    /\ rows \subseteq uploaded
    /\ uploaded \subseteq {e \in EventIds : EventOf[e].at <= now}
    /\ \A k \in Keys : snapshot[k] # Nothing => snapshot[k].basis \subseteq uploaded
    /\ DOMAIN snapshot = Keys /\ DOMAIN cache = Keys /\ DOMAIN run = Refreshers
    /\ filling # Nothing => /\ filling.key \in Keys
                            /\ filling.key # Dashboard => filling.value # Nothing
    /\ now \in 0..MaxTime

(* The cleanup shows in no snapshot: a summary is what all events ever     *)
(* received give for its window, and the dashboard counts all those of the *)
(* last week, though rows were deleted before or between (deleteOldEvents, *)
(* computeSummary, computeDashboardSnapshot).                              *)
SnapshotsMissNothing ==
    \A k \in Keys :
        snapshot[k] # Nothing => snapshot[k].content = Computed(snapshot[k].basis, k)

Queries == [provider : {EventOf[e].provider : e \in EventIds} \cup {Nothing},
            operator : {Shown(EventOf[e].operator) : e \in EventIds} \cup {Nothing}]

(* The client filters a snapshot of everything to what the worker would    *)
(* have answered for the filter (filter_remote_stats_summary_snapshot      *)
(* against the realtime summary for administrators).                       *)
LocalFilterAgrees ==
    \A k \in Lookbacks, q \in Queries :
        LET s == snapshot[k] IN s # Nothing => LocalFilter(s.content, q) = Summary(s.basis, q)

(* The events a visitor of a public page sees.                             *)
Visible(k) ==
    LET answer == IF cache[k] # Nothing THEN cache[k] ELSE snapshot[k]
    IN  IF answer = Nothing THEN {} ELSE answer.basis

(* In the end every uploaded event shows in the public pages and stays     *)
(* there until it is too old, though a refresh that began before an upload *)
(* may save after one that began later, and an old answer may be put into  *)
(* the edge cache after it (README.md:110, refreshCommonSnapshots).        *)
UploadsBecomeVisible ==
    <>[](\A e \in uploaded, k \in Keys : e \in Visible(k) \/ ~Recent(e, k))

=============================================================================
