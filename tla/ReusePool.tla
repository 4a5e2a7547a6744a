----------------------------- MODULE ReusePool -----------------------------
(***************************************************************************)
(* The reuse pool of one provider, service and country: finishing a ticket *)
(* records its number, acquiring takes the first usable candidate of the   *)
(* pool and asks the provider for that number again. Nothing reserves the  *)
(* candidate while the provider is awaited. Each operation changes memory  *)
(* and then writes its unit of work; the process may die between the two.  *)
(***************************************************************************)
EXTENDS Selections

CONSTANTS
    Requests,     \* requests that may be under way at the same time
    Numbers,      \* phone numbers the provider sells
    Absent,       \* no candidate, no bucket to write, no number, no ticket
    MaxReuse,     \* defaults.reuse_max
    Ttl,          \* defaults.reuse_ttl_hours, in clock steps
    MaxTickets,   \* bound of the number of tickets acquired
    MaxTime,      \* bound of the clock
    MaxRestarts   \* bound of the number of process restarts

ASSUME BoundsAssumption ==
    MaxReuse \in Nat /\ Ttl \in Nat \ {0} /\ MaxTime \in Nat
    /\ MaxTickets \in Nat /\ MaxRestarts \in Nat

VARIABLES
    now,
    mem,        \* reuse bucket and tickets in memory
    disk,       \* the same in runtime.db
    step,       \* request -> the step of its operation
    live,       \* number -> the ticket of its open activation at the provider
    sold,       \* numbers the provider has sold
    uses,       \* number -> how often it was handed out again from the pool
    restarts

poolVars == <<now, mem, disk, step, live, sold, uses, restarts>>

TicketIds == 1..MaxTickets

Entry == [number : Numbers, count : 0..(MaxReuse + 1), expires : 0..(MaxTime + Ttl)]

ASSUME AbsentAssumption == Absent \notin Numbers \cup Nat \cup Seq(Entry)

NoTicket == [number |-> Absent, status |-> "none", count |-> 0, path |-> "fresh", retry |-> FALSE]
Ticket == [number : Numbers \cup {Absent}, status : {"none", "open", "finished", "cancelled"},
           count : 0..MaxReuse, path : {"fresh", "exact", "retry"}, retry : BOOLEAN]

State == [pool : Seq(Entry), tickets : [TicketIds -> Ticket]]

(* bucket, tickets: what the unit of work writes; served: the number that  *)
(* the pool served.                                                        *)
Step == [pc : {"idle", "refused", "asked", "commit"}, candidate : Entry \cup {Absent},
         bucket : Seq(Entry) \cup {Absent}, tickets : SUBSET TicketIds,
         served : Numbers \cup {Absent}]

Idle == [pc |-> "idle", candidate |-> Absent, bucket |-> Absent, tickets |-> {}, served |-> Absent]

Writing(bucket, written, served) ==
    [pc |-> "commit", candidate |-> Absent, bucket |-> bucket, tickets |-> written,
     served |-> served]

PoolInit ==
    /\ now = 0
    /\ mem = [pool |-> <<>>, tickets |-> [t \in TicketIds |-> NoTicket]]
    /\ disk = mem
    /\ step = [r \in Requests |-> Idle]
    /\ live = [n \in Numbers |-> Absent]
    /\ sold = {}
    /\ uses = [n \in Numbers |-> 0]
    /\ restarts = 0

-----------------------------------------------------------------------------
Retryable == {t \in TicketIds : /\ mem.tickets[t].status = "open"
                               /\ mem.tickets[t].retry
                               /\ mem.tickets[t].count < MaxReuse}

(* An acquire retries an open activation if there is one; the provider     *)
(* grants it, ...                                                          *)
RetryTaken(r, t) ==
    /\ step[r].pc = "idle"
    /\ t \in Retryable
    /\ live[mem.tickets[t].number] = t
    /\ mem' = [mem EXCEPT !.tickets[t].path = "retry", !.tickets[t].count = @ + 1]
    /\ step' = [step EXCEPT ![r] = Writing(Absent, {t}, Absent)]
    /\ UNCHANGED <<now, disk, live, sold, uses, restarts>>

(* ... or does not, and the acquire goes on.                               *)
RetryRefused(r, t) ==
    /\ step[r].pc = "idle"
    /\ t \in Retryable
    /\ mem' = [mem EXCEPT !.tickets[t].retry = FALSE]
    /\ step' = [step EXCEPT ![r].pc = "refused", ![r].tickets = {t}]
    /\ UNCHANGED <<now, disk, live, sold, uses, restarts>>

Usable(pool) == Filtered(pool, {e \in Entry : e.expires > now /\ e.count < MaxReuse})

(* prepare_reuse_request: the pool is cleaned, its first entry is the      *)
(* candidate and stays in the pool. A pool that has shrunk is to be        *)
(* written as it is now.                                                   *)
Peek(r) ==
    LET usable == Usable(mem.pool)
    IN  /\ \/ step[r].pc = "idle" /\ Retryable = {}
           \/ step[r].pc = "refused"
        /\ mem' = [mem EXCEPT !.pool = usable]
        /\ step' = [step EXCEPT
                      ![r].pc = "asked",
                      ![r].candidate = IF usable = <<>> THEN Absent ELSE Head(usable),
                      ![r].bucket = IF Len(usable) = Len(mem.pool) THEN Absent ELSE usable]
        /\ UNCHANGED <<now, disk, live, sold, uses, restarts>>

(* Defect: the candidate is left in the pool.                              *)
NotConsumed(pool, candidate) == pool

Consumed(pool, candidate) ==
    LET at == SelectInSeq(pool, LAMBDA e : e.number = candidate.number)
    IN  IF at = 0 THEN pool ELSE RemoveAt(pool, at)

(* A provider sells a number again when its last activation is closed. Its *)
(* answer says of new numbers only that they may be retried.               *)
NumberAcquired(r, t, n, retry) ==
    LET c == step[r].candidate
        pool == IF c = Absent THEN mem.pool ELSE Consumed(mem.pool, c)
        ticket == [number |-> n, status |-> "open", retry |-> retry,
                   path |-> IF c = Absent THEN "fresh" ELSE "exact",
                   count |-> IF c = Absent THEN 0 ELSE c.count + 1]
    IN  /\ step[r].pc = "asked"
        /\ t = Cardinality({u \in TicketIds : mem.tickets[u] # NoTicket}) + 1
        /\ IF c = Absent THEN n \notin sold
                       ELSE n = c.number /\ live[n] = Absent /\ ~retry
        /\ mem' = [pool |-> pool, tickets |-> [mem.tickets EXCEPT ![t] = ticket]]
        /\ step' = [step EXCEPT ![r] =
                      Writing(IF c = Absent THEN step[r].bucket ELSE pool,
                              step[r].tickets \cup {t}, IF c = Absent THEN Absent ELSE n)]
        /\ live' = [live EXCEPT ![n] = t]
        /\ sold' = sold \cup {n}
        /\ UNCHANGED <<now, disk, uses, restarts>>

(* The provider refuses: the candidate stays where it is.                  *)
NotAcquired(r) ==
    /\ step[r].pc = "asked"
    /\ step' = [step EXCEPT ![r] = Writing(step[r].bucket, step[r].tickets, Absent)]
    /\ UNCHANGED <<now, mem, disk, live, sold, uses, restarts>>

(* Where the routing item has further providers, the unit with the cleaned *)
(* bucket and the refused retry waits in last_error, and the next of them  *)
(* to fail or to succeed displaces it: it is never written.                *)
UnitDropped(r) ==
    /\ step[r].pc = "asked"
    /\ step' = [step EXCEPT ![r] = Idle]
    /\ UNCHANGED <<now, mem, disk, live, sold, uses, restarts>>

-----------------------------------------------------------------------------
(* Defect: the count starts again with every ticket.                       *)
RecordedFromZero(t) == [number |-> t.number, expires |-> now + Ttl, count |-> 0]

(* What finishing records of a ticket: an exact reuse counts on, anything  *)
(* else starts from zero.                                                  *)
Recorded(t) ==
    [number |-> t.number, expires |-> now + Ttl,
     count |-> IF t.path = "exact" /\ t.count > 0 THEN t.count + 1 ELSE 0]

Finish(r, t) ==
    LET pool == Append(mem.pool, Recorded(mem.tickets[t]))
    IN  /\ step[r].pc = "idle"
        /\ mem.tickets[t].status = "open"
        /\ live[mem.tickets[t].number] = t
        /\ mem' = [pool |-> pool, tickets |-> [mem.tickets EXCEPT ![t].status = "finished"]]
        /\ step' = [step EXCEPT ![r] = Writing(pool, {t}, Absent)]
        /\ live' = [live EXCEPT ![mem.tickets[t].number] = Absent]
        /\ UNCHANGED <<now, disk, sold, uses, restarts>>

Cancel(r, t) ==
    /\ step[r].pc = "idle"
    /\ mem.tickets[t].status = "open"
    /\ live[mem.tickets[t].number] = t
    /\ mem' = [mem EXCEPT !.tickets[t].status = "cancelled", !.tickets[t].retry = FALSE]
    /\ step' = [step EXCEPT ![r] = Writing(Absent, {t}, Absent)]
    /\ live' = [live EXCEPT ![mem.tickets[t].number] = Absent]
    /\ UNCHANGED <<now, disk, sold, uses, restarts>>

(* Defect: the emptied bucket is not written.                              *)
ClearMemoryOnly(r) ==
    /\ step[r].pc = "idle"
    /\ mem.pool # <<>>
    /\ mem' = [mem EXCEPT !.pool = <<>>]
    /\ step' = [step EXCEPT ![r] = Writing(Absent, {}, Absent)]
    /\ UNCHANGED <<now, disk, live, sold, uses, restarts>>

(* clear_provider_reuse_pool                                               *)
Clear(r) ==
    /\ step[r].pc = "idle"
    /\ mem.pool # <<>>
    /\ mem' = [mem EXCEPT !.pool = <<>>]
    /\ step' = [step EXCEPT ![r] = Writing(<<>>, {}, Absent)]
    /\ UNCHANGED <<now, disk, live, sold, uses, restarts>>

-----------------------------------------------------------------------------
(* The unit of work is written and the caller gets its answer. The counter *)
(* of uses stops one above the limit.                                      *)
Commit(r) ==
    LET s == step[r]
    IN  /\ s.pc = "commit"
        /\ disk' = [pool |-> IF s.bucket = Absent THEN disk.pool ELSE s.bucket,
                    tickets |-> [t \in TicketIds |-> IF t \in s.tickets THEN mem.tickets[t]
                                                     ELSE disk.tickets[t]]]
        /\ uses' = [n \in Numbers |-> IF n = s.served /\ uses[n] <= MaxReuse
                                      THEN uses[n] + 1 ELSE uses[n]]
        /\ step' = [step EXCEPT ![r] = Idle]
        /\ UNCHANGED <<now, mem, live, sold, restarts>>

ProcessRestart ==
    /\ restarts < MaxRestarts
    /\ mem' = disk
    /\ step' = [r \in Requests |-> Idle]
    /\ restarts' = restarts + 1
    /\ UNCHANGED <<now, disk, live, sold, uses>>

(* The provider ends an activation by itself.                              *)
ActivationEnds(n) ==
    /\ live[n] # Absent
    /\ live' = [live EXCEPT ![n] = Absent]
    /\ UNCHANGED <<now, mem, disk, step, sold, uses, restarts>>

Tick ==
    /\ now < MaxTime
    /\ now' = now + 1
    /\ UNCHANGED <<mem, disk, step, live, sold, uses, restarts>>

PoolNext ==
    \/ \E r \in Requests :
          \/ Peek(r)
          \/ \E t \in TicketIds, n \in Numbers, retry \in BOOLEAN : NumberAcquired(r, t, n, retry)
          \/ NotAcquired(r) \/ UnitDropped(r)
          \/ \E t \in TicketIds : RetryTaken(r, t) \/ RetryRefused(r, t)
          \/ \E t \in TicketIds : Finish(r, t) \/ Cancel(r, t)
          \/ Clear(r)
          \/ Commit(r)
    \/ ProcessRestart
    \/ \E n \in Numbers : ActivationEnds(n)
    \/ Tick

PoolSpec == PoolInit /\ [][PoolNext]_poolVars

-----------------------------------------------------------------------------
PoolTypeOK ==
    /\ now \in 0..MaxTime
    /\ mem \in State
    /\ disk \in State
    /\ step \in [Requests -> Step]
    /\ live \in [Numbers -> TicketIds \cup {Absent}]
    /\ sold \subseteq Numbers
    /\ uses \in [Numbers -> 0..(MaxReuse + 1)]
    /\ restarts \in 0..MaxRestarts

(* While one request runs at a time, a number waits in the pool at most    *)
(* once and never while a ticket of it is open, in memory as in the        *)
(* database: neither an operation nor a crash between its two writes lets  *)
(* a second caller have the number of a first                              *)
(* (consume_exact_reuse_candidate, record_exact_reuse_candidate).          *)
PooledOnce ==
    \A s \in {mem, disk} :
        /\ \A i, j \in DOMAIN s.pool : s.pool[i].number = s.pool[j].number => i = j
        /\ \A i \in DOMAIN s.pool, t \in TicketIds :
              s.tickets[t].number = s.pool[i].number => s.tickets[t].status # "open"

(* While one request runs at a time, a restart changes nothing about what  *)
(* can be reused, whenever none is under way: every consumption, record    *)
(* and clearing of the bucket is written, and so is every ticket. What the *)
(* dropped unit of a failed provider leaves behind are entries past their  *)
(* time or count, and the offer of a retry that was refused                *)
(* (try_acquire_from_routing_item_effect).                                 *)
Agree(row, t) == row = t \/ row = [t EXCEPT !.retry = TRUE]

IdleDiskAgrees ==
    (\A r \in Requests : step[r].pc = "idle") =>
        /\ Usable(disk.pool) = Usable(mem.pool)
        /\ \A t \in TicketIds : Agree(disk.tickets[t], mem.tickets[t])

(* The database holds the very pool and tickets: so it would, if the units *)
(* of failed providers were not dropped.                                   *)
IdleDiskIsMemory == (\A r \in Requests : step[r].pc = "idle") => disk = mem

(* README.md:28, "max reuse count": a number is handed out again from the  *)
(* pool at most reuse_max times, whatever the restarts.                    *)
ReusedWithinMax == \A n \in Numbers : uses[n] <= MaxReuse
=============================================================================
