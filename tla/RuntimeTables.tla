---------------------------- MODULE RuntimeTables ----------------------------
(***************************************************************************)
(* runtime.db and what the service keeps of it in memory: the tickets, in  *)
(* a buffer that drops the one updated longest ago, and the log, a ring.   *)
(* A process opens the database when it starts, migrates an older one,     *)
(* statement by statement, and loads it; or works without a database, if   *)
(* it cannot.  Then its units of work change the memory under one lock     *)
(* after the other and write what they changed in one transaction at their *)
(* end.  A second process may start meanwhile: it opens, migrates and      *)
(* loads too, before it learns that it is not the owner (HostConfig).      *)
(* The other tables are written in the same transactions; the activities   *)
(* are kept like the log, the rest in StatsSync and ReusePool.             *)
(***************************************************************************)
EXTENDS Naturals, Sequences, FiniteSets, FiniteSetsExt, Functions, Selections

CONSTANTS
    Owner, Guest,   \* the processes
    Workers,        \* requests and loops of the owner
    TicketBuffer,   \* DEFAULT_TICKET_BUFFER
    LogBuffer,      \* log_buffer
    Databases,      \* the files that a first start may find
    Absent,         \* no table
    None,
    MaxClock,       \* bound of the times
    MaxStarts       \* bound of the starts of both processes

ASSUME TablesAssumption ==
    /\ Owner # Guest
    /\ TicketBuffer \in Nat \ {0} /\ LogBuffer \in Nat \ {0}
    /\ MaxClock \in Nat /\ MaxStarts \in Nat
    /\ None \notin 0..MaxClock

VARIABLES
    file,       \* what is committed to runtime.db
    process,    \* process -> how far it is, and what it has loaded
    memory,     \* of the owner
    unit,       \* worker -> its unit of work
    clock,      \* the time, moved by each reading
    starts,     \* starts so far, of either process
    cut,        \* a migration failed or was broken off, or two starts met in one
    crossed,    \* units overlapped since the owner loaded
    failed,     \* a write failed or was written over since the owner loaded
    dropped     \* times of what was changed in memory by units that were given up

vars == <<file, process, memory, unit, clock, starts, cut, crossed, failed, dropped>>

Processes == {Owner, Guest}

-----------------------------------------------------------------------------
(* A table of tickets: its columns, and id -> time of the last update and  *)
(* whether the names are canonical.  An id is the time of its acquisition; *)
(* all times are at most c.                                                *)
Row(c) == [updated : 0..c, canonical : BOOLEAN]
RowSets(c) == UNION {[ids -> Row(c)] : ids \in SUBSET (0..c)}
Tables(c) == [columns : {"payload", "columns"}, rows : RowSets(c)]
NoRows == [t \in {} |-> None]
Table(columns, rows) == [columns |-> columns, rows |-> rows]

Rows(table) == IF table = Absent THEN {} ELSE DOMAIN table.rows

(* The rows of a, written over those of b.                                 *)
Over(a, b) == [t \in DOMAIN a \cup DOMAIN b |-> IF t \in DOMAIN a THEN a[t] ELSE b[t]]
With(rows, t, row) == Over([u \in {t} |-> row], rows)

(* t was updated before u; the ids decide between equal times.             *)
Older(rows, t, u) ==
    \/ rows[t].updated < rows[u].updated
    \/ rows[t].updated = rows[u].updated /\ t < u

(* The tickets that a buffer has no room for.                              *)
Overflow(rows) ==
    {t \in DOMAIN rows :
        Cardinality({u \in DOMAIN rows : Older(rows, t, u)}) >= TicketBuffer}

(* The rows can be read and written as the service does.                   *)
Readable == file.tickets # Absent /\ file.tickets.columns = "columns"

Newest(rows) == Restrict(rows, DOMAIN rows \ Overflow(rows))

Named(r) == [updated |-> r.updated, canonical |-> TRUE]
Normalized(rows) == [t \in DOMAIN Newest(rows) |-> Named(rows[t])]

(* The log is read in the order of its times.                              *)
LastLogs(S) == {l \in S : Cardinality({m \in S : m > l}) < LogBuffer}
Ring(logs) == IF Len(logs) > LogBuffer THEN Tail(logs) ELSE logs

-----------------------------------------------------------------------------
NoUnit == [stage |-> "none", upsert |-> None, row |-> None, deletes |-> {}, logs |-> {},
           clear |-> FALSE, stamp |-> None]
Off == [stage |-> "off", rows |-> NoRows, logs |-> {}]

(* What a first start may find: no tables, those of the first version, or  *)
(* those of a later one; no migration was broken off before.               *)
Files(c) == [tickets : Tables(c) \cup {Absent}, legacy : Tables(c) \cup {Absent},
             logs : SUBSET (0..c), version : {0, 2, 3}]
Whole(f) ==
    /\ f.legacy = Absent
    /\ \/ f.version = 0 /\ f.tickets = Absent
       \/ f.version = 0 /\ f.tickets # Absent /\ f.tickets.columns = "payload"
       \/ f.version \in {2, 3} /\ f.tickets # Absent /\ f.tickets.columns = "columns"

ASSUME DatabasesAssumption ==
    /\ Absent \notin Tables(MaxClock)
    /\ \A f \in Databases : f \in Files(MaxClock) /\ Whole(f)

(* The times in a file.                                                    *)
Times(f) ==
    Rows(f.tickets) \cup {f.tickets.rows[t].updated : t \in Rows(f.tickets)} \cup f.logs

Init ==
    /\ file \in Databases
    /\ process = [h \in Processes |-> Off]
    /\ memory = [tickets |-> NoRows, logs |-> <<>>]
    /\ unit = [w \in Workers |-> NoUnit]
    /\ clock = Max({0} \cup Times(file))
    /\ starts = 0
    /\ cut = FALSE /\ crossed = FALSE /\ failed = FALSE /\ dropped = {}

Migrating(h) == process[h].stage \in {"rename", "new", "copy", "drop", "stamp"}
Opening(h) == Migrating(h) \/ process[h].stage \in {"create", "version"}
Working == process[Owner].stage \in {"sqlite", "memory"}

At(h, stage) == process[h].stage = stage
To(h, stage) == process' = [process EXCEPT ![h].stage = stage]
Quiet == UNCHANGED <<memory, unit, clock, starts, crossed, failed, dropped>>

-----------------------------------------------------------------------------
(* Opening the database.  Each statement is a transaction of its own but   *)
(* for the copying of the rows; a statement that fails ends the opening,   *)
(* and the process works without the file.                                 *)

Start(h) ==
    /\ At(h, "off")
    /\ starts < MaxStarts
    /\ To(h, "create")
    /\ starts' = starts + 1
    /\ cut' = (cut \/ \E g \in Processes \ {h} : Opening(g))
    /\ UNCHANGED <<file, memory, unit, clock, crossed, failed, dropped>>

(* Tables that are missing are made, in the shape of the first version.    *)
CreateTables(h) ==
    /\ At(h, "create")
    /\ file' = IF file.tickets = Absent
               THEN [file EXCEPT !.tickets = Table("payload", NoRows)] ELSE file
    /\ To(h, "version")
    /\ Quiet /\ UNCHANGED cut

(* Defect: the second version is migrated like the first.                  *)
MigrateBelowThree(h) ==
    /\ At(h, "version")
    /\ To(h, IF file.version = 3 THEN "load" ELSE "rename")
    /\ Quiet /\ UNCHANGED <<file, cut>>

(* From the second version on only columns of the events are missing.      *)
ReadVersion(h) ==
    /\ At(h, "version")
    /\ To(h, IF file.version = 3 THEN "load"
             ELSE IF file.version = 2 THEN "stamp" ELSE "rename")
    /\ Quiet /\ UNCHANGED <<file, cut>>

RenameTable(h) ==
    /\ At(h, "rename")
    /\ IF file.legacy = Absent /\ file.tickets # Absent
       THEN /\ file' = [file EXCEPT !.legacy = file.tickets, !.tickets = Absent]
            /\ To(h, "new")
       ELSE To(h, "memory") /\ UNCHANGED file
    /\ Quiet /\ UNCHANGED cut

NewTable(h) ==
    /\ At(h, "new")
    /\ IF file.tickets = Absent
       THEN /\ file' = [file EXCEPT !.tickets = Table("columns", NoRows)]
            /\ To(h, "copy")
       ELSE To(h, "memory") /\ UNCHANGED file
    /\ Quiet /\ UNCHANGED cut

(* A row of the first version is a text to be parsed: one that is not a    *)
(* ticket ends the opening, and every later one too.                       *)
CopyFails(h) ==
    /\ At(h, "copy")
    /\ Rows(file.legacy) # {}
    /\ To(h, "memory")
    /\ cut' = TRUE
    /\ Quiet /\ UNCHANGED file

(* Defect: the transaction of the copy is not committed.                   *)
CopyUncommitted(h) ==
    /\ At(h, "copy")
    /\ IF file.legacy # Absent /\ file.legacy.columns = "payload"
       THEN To(h, "drop") ELSE To(h, "memory")
    /\ UNCHANGED file
    /\ Quiet /\ UNCHANGED cut

CopyRows(h) ==
    /\ At(h, "copy")
    /\ IF /\ file.legacy # Absent /\ file.legacy.columns = "payload"
          /\ file.tickets # Absent /\ Rows(file.legacy) \cap Rows(file.tickets) = {}
       THEN /\ file' = [file EXCEPT !.tickets.rows = Over(file.legacy.rows, @)]
            /\ To(h, "drop")
       ELSE To(h, "memory") /\ UNCHANGED file
    /\ Quiet /\ UNCHANGED cut

DropTable(h) ==
    /\ At(h, "drop")
    /\ IF file.legacy # Absent
       THEN /\ file' = [file EXCEPT !.legacy = Absent]
            /\ To(h, "stamp")
       ELSE To(h, "memory") /\ UNCHANGED file
    /\ Quiet /\ UNCHANGED cut

StampVersion(h) ==
    /\ At(h, "stamp")
    /\ file' = [file EXCEPT !.version = 3]
    /\ To(h, "load")
    /\ Quiet /\ UNCHANGED cut

-----------------------------------------------------------------------------
(* The state is loaded and normalised; when that changed a ticket, all     *)
(* tables are replaced by what was loaded.  A state that cannot be read is *)
(* taken for an empty one.                                                 *)
Loaded(h, rows, logs) ==
    /\ process' = [process EXCEPT
          ![h] = [stage |-> IF \E t \in DOMAIN Newest(rows) : ~rows[t].canonical
                            THEN "replace" ELSE "sqlite",
                  rows |-> Normalized(rows), logs |-> LastLogs(logs)]]
    /\ IF h = Owner
       THEN /\ memory' = [tickets |-> Normalized(rows),
                          logs |-> Ascending(LastLogs(logs))]
            /\ crossed' = FALSE /\ failed' = FALSE
       ELSE UNCHANGED <<memory, crossed, failed>>
    /\ UNCHANGED <<file, unit, clock, starts, cut, dropped>>

Load(h) ==
    /\ At(h, "load")
    /\ Readable
    /\ Loaded(h, file.tickets.rows, file.logs)

LoadFails(h) ==
    /\ At(h, "load")
    /\ To(h, "sqlite")
    /\ crossed' = IF h = Owner THEN FALSE ELSE crossed
    /\ failed' = (failed \/ h = Owner)
    /\ UNCHANGED <<file, memory, unit, clock, starts, cut, dropped>>

Replace(h) ==
    /\ At(h, "replace")
    /\ Readable
    /\ file' = [file EXCEPT !.tickets.rows = process[h].rows, !.logs = process[h].logs]
    /\ To(h, "sqlite")
    /\ failed' = (failed \/ h = Guest)
    /\ UNCHANGED <<memory, unit, clock, starts, cut, crossed, dropped>>

ReplaceFails(h) ==
    /\ At(h, "replace")
    /\ To(h, "sqlite")
    /\ failed' = (failed \/ h = Owner)
    /\ UNCHANGED <<file, memory, unit, clock, starts, cut, crossed, dropped>>

(* A process ends at any moment.                                           *)
Stop(h) ==
    /\ ~At(h, "off")
    /\ process' = [process EXCEPT ![h] = Off]
    /\ memory' = IF h = Owner THEN [tickets |-> NoRows, logs |-> <<>>] ELSE memory
    /\ unit' = IF h = Owner THEN [w \in Workers |-> NoUnit] ELSE unit
    /\ dropped' = IF h = Owner THEN {} ELSE dropped
    /\ cut' = (cut \/ (Migrating(h) /\ file.version < 2))
    /\ UNCHANGED <<file, clock, starts, crossed, failed>>

-----------------------------------------------------------------------------
(* Units of work of the owner.                                             *)

Others(w) == \E v \in Workers \ {w} : unit[v].stage # "none"

Begin(w, changes) ==
    /\ Working
    /\ unit[w].stage = "none"
    /\ unit' = [unit EXCEPT ![w] = changes]
    /\ crossed' = (crossed \/ Others(w))
    /\ UNCHANGED <<file, process, starts, cut, failed, dropped>>

Open == [NoUnit EXCEPT !.stage = "open"]

(* A ticket is acquired; the buffer may have to drop another.              *)
Acquire(w) ==
    /\ clock < MaxClock
    /\ clock' = clock + 1
    /\ LET row == [updated |-> clock', canonical |-> TRUE]
           rows == With(memory.tickets, clock', row)
       IN  /\ memory' = [memory EXCEPT !.tickets = Newest(rows)]
           /\ Begin(w, [Open EXCEPT !.upsert = clock', !.row = row, !.deletes = Overflow(rows)])

(* A poll, a release or a retry has its answer; a ticket that was dropped  *)
(* meanwhile is an error.                                                  *)
Touch(w, t) ==
    /\ t \in DOMAIN memory.tickets
    /\ clock < MaxClock
    /\ clock' = clock + 1
    /\ LET row == [updated |-> clock', canonical |-> TRUE]
       IN  /\ memory' = [memory EXCEPT !.tickets[t] = row]
           /\ Begin(w, [Open EXCEPT !.upsert = t, !.row = row])

(* An entry for the log gets its time before it gets its place.            *)
StampOnly(w) ==
    /\ clock < MaxClock
    /\ clock' = clock + 1
    /\ Begin(w, [Open EXCEPT !.stamp = clock'])
    /\ UNCHANGED memory

StampEntry(w) ==
    /\ unit[w].stage = "open"
    /\ unit[w].logs = {} /\ unit[w].stamp = None
    /\ clock < MaxClock
    /\ clock' = clock + 1
    /\ unit' = [unit EXCEPT ![w].stamp = clock']
    /\ UNCHANGED <<file, process, memory, starts, cut, crossed, failed, dropped>>

PushEntry(w) ==
    /\ unit[w].stamp # None
    /\ memory' = [memory EXCEPT !.logs = Ring(Append(@, unit[w].stamp))]
    /\ unit' = [unit EXCEPT ![w].stage = "ready", ![w].logs = {unit[w].stamp}, ![w].stamp = None]
    /\ UNCHANGED <<file, process, clock, starts, cut, crossed, failed, dropped>>

ClearLogs(w) ==
    /\ memory' = [memory EXCEPT !.logs = <<>>]
    /\ Begin(w, [Open EXCEPT !.stage = "ready", !.clear = TRUE])
    /\ UNCHANGED clock

(* Defect: a unit that deletes does not insert.                            *)
RowsWithEither(u, rows) ==
    IF u.deletes # {} THEN Restrict(rows, DOMAIN rows \ u.deletes)
                      ELSE With(rows, u.upsert, u.row)

(* What a unit makes of the rows and of the log: upserts before deletions, *)
(* entries before the trimming.                                            *)
RowsWith(u, rows) ==
    LET upserted == IF u.upsert = None THEN rows ELSE With(rows, u.upsert, u.row)
    IN  Restrict(upserted, DOMAIN upserted \ u.deletes)
Applied(u, logs) == LastLogs((IF u.clear THEN {} ELSE logs) \cup u.logs)

(* Defect: only what was inserted is written.                              *)
CommitInserts(w) ==
    /\ unit[w].stage = "ready"
    /\ At(Owner, "sqlite")
    /\ unit[w].upsert = None \/ Readable
    /\ file' = IF unit[w].upsert \in {None} \cup Rows(file.tickets)
               THEN [file EXCEPT !.logs = Applied(unit[w], @)]
               ELSE [file EXCEPT !.logs = Applied(unit[w], @),
                                 !.tickets.rows = RowsWith(unit[w], @)]
    /\ unit' = [unit EXCEPT ![w] = NoUnit]
    /\ UNCHANGED <<process, memory, clock, starts, cut, crossed, failed, dropped>>

Commit(w) ==
    /\ unit[w].stage = "ready"
    /\ At(Owner, "sqlite")
    /\ unit[w].upsert = None \/ Readable
    /\ file' = IF unit[w].upsert = None
               THEN [file EXCEPT !.logs = Applied(unit[w], @)]
               ELSE [file EXCEPT !.logs = Applied(unit[w], @),
                                 !.tickets.rows = RowsWith(unit[w], @)]
    /\ unit' = [unit EXCEPT ![w] = NoUnit]
    /\ UNCHANGED <<process, memory, clock, starts, cut, crossed, failed, dropped>>

(* An error of the write is ignored.  Without a database there is nothing  *)
(* that outlives the process.                                              *)
CommitFails(w) ==
    /\ unit[w].stage = "ready"
    /\ unit' = [unit EXCEPT ![w] = NoUnit]
    /\ failed' = TRUE
    /\ UNCHANGED <<file, process, memory, clock, starts, cut, crossed, dropped>>

(* A provider of a routing item fails, and the item has another one to     *)
(* try: the unit of the first is never written, what it has changed in     *)
(* memory stays.  It has cleaned a bucket of the pool, perhaps changed the *)
(* ticket whose retry was refused, and has its entries in the log.         *)
Acquired(u) == u.upsert # None /\ u.row.updated = u.upsert
ChangedAt(u) == u.logs \cup (IF u.upsert = None THEN {} ELSE {u.row.updated})
GiveUp(w) ==
    /\ unit[w].stage = "ready"
    /\ ~Acquired(unit[w]) /\ ~unit[w].clear
    /\ unit' = [unit EXCEPT ![w] = NoUnit]
    /\ dropped' = dropped \cup ChangedAt(unit[w])
    /\ UNCHANGED <<file, process, memory, clock, starts, cut, crossed, failed>>

-----------------------------------------------------------------------------
OpenStep(h) ==
    \/ CreateTables(h) \/ ReadVersion(h) \/ RenameTable(h) \/ NewTable(h) \/ CopyRows(h)
    \/ CopyFails(h) \/ DropTable(h) \/ StampVersion(h) \/ Load(h) \/ LoadFails(h)
    \/ Replace(h) \/ ReplaceFails(h)

UnitStep(w) ==
    \/ Acquire(w) \/ StampOnly(w) \/ StampEntry(w) \/ PushEntry(w) \/ ClearLogs(w)
    \/ Commit(w) \/ CommitFails(w) \/ GiveUp(w)
    \/ \E t \in DOMAIN memory.tickets : Touch(w, t)

Next ==
    \/ \E h \in Processes : Start(h) \/ OpenStep(h) \/ Stop(h)
    \/ \E w \in Workers : UnitStep(w)

Spec == Init /\ [][Next]_vars

-----------------------------------------------------------------------------
Stages == {"off", "create", "version", "rename", "new", "copy", "drop", "stamp", "load",
           "replace", "sqlite", "memory"}
Units(c) ==
    {u \in [stage : {"none", "open", "ready"}, upsert : {None} \cup 0..c,
            row : {None} \cup Row(c), deletes : SUBSET (0..c), logs : SUBSET (0..c),
            clear : BOOLEAN, stamp : {None} \cup 0..c] : u.upsert # None => u.row \in Row(c)}
Loads(c) == [stage : Stages, rows : RowSets(c), logs : SUBSET (0..c)]
Memories(c) == [tickets : RowSets(c), logs : Seq(0..c)]

(* Types; no time is in the future, and buffer and ring hold no more than  *)
(* they may.                                                               *)
TypeOK ==
    /\ file \in Files(clock)
    /\ process \in [Processes -> Loads(clock)]
    /\ memory \in Memories(clock)
    /\ Cardinality(DOMAIN memory.tickets) <= TicketBuffer /\ Len(memory.logs) <= LogBuffer
    /\ unit \in [Workers -> Units(clock)]
    /\ clock \in 0..MaxClock /\ starts \in 0..MaxStarts
    /\ cut \in BOOLEAN /\ crossed \in BOOLEAN /\ failed \in BOOLEAN
    /\ dropped \in SUBSET (0..MaxClock)

(* A ticket leaves the file, its table being migrated or not, only because *)
(* the full buffer dropped it, or because a process replaced all tables by *)
(* what it had loaded before the ticket was there or had no room for.      *)
Kept(f) == Rows(f.tickets) \cup Rows(f.legacy)
RowsLeaveOnlyDropped ==
    [][\A t \in Kept(file) \ Kept(file)' :
          \/ \E w \in Workers : t \in unit[w].deletes
          \/ \E h \in Processes : At(h, "replace") /\ t \notin DOMAIN process[h].rows]_vars

(* A database of any version is opened, by both processes, unless a        *)
(* migration was broken off or two processes started during one: then none *)
(* of them falls back to working without it.                               *)
OpensUnlessCut == ~cut => \A h \in Processes : ~At(h, "memory")

(* Whenever no unit of work is under way, each ticket that the service     *)
(* shows would survive a restart, however the units before crossed, as     *)
(* long as the writes succeeded and no migration was cut.                  *)
AtRest == \A w \in Workers : unit[w].stage = "none"
MemoryIsOnDisk ==
    AtRest /\ At(Owner, "sqlite") /\ ~failed /\ ~cut =>
        DOMAIN memory.tickets \subseteq Rows(file.tickets)

(* And as long as no two units crossed, a restart brings back the same     *)
(* tickets and the same log, a cleared one included, but for what the      *)
(* units that were given up have changed: a ticket may come back as it was *)
(* before such a change, and an entry of such a unit is missing, which may *)
(* leave room for an older one.                                            *)
Recovers(loaded, tickets, given) ==
    /\ DOMAIN loaded = DOMAIN tickets
    /\ \A t \in DOMAIN tickets : loaded[t] = tickets[t] \/ tickets[t].updated \in given
SerialRestartLosesOnlyDropped ==
    AtRest /\ At(Owner, "sqlite") /\ ~failed /\ ~cut /\ ~crossed =>
        LET ring == ToSet(memory.logs)
            last == LastLogs(file.logs)
        IN  /\ Recovers(Normalized(file.tickets.rows), memory.tickets, dropped)
            /\ ring \ dropped \subseteq last
            /\ \A l \in last \ ring : ring \cap dropped # {} /\ \A m \in ring : l < m

(* The service behaves as if this held, too: nothing is lost.  It does     *)
(* not, as soon as one unit is given up.                                   *)
SerialRestartLosesNothing ==
    AtRest /\ At(Owner, "sqlite") /\ ~failed /\ ~cut /\ ~crossed =>
        /\ Normalized(file.tickets.rows) = memory.tickets
        /\ LastLogs(file.logs) = ToSet(memory.logs)
=============================================================================
