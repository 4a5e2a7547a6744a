-------------------------- MODULE TicketLifecycle --------------------------
(***************************************************************************)
(* The life of acquired tickets inside one SmsService process: client      *)
(* requests (poll_code, release_code, the retry path of acquire_code) and  *)
(* the auto-release loop (maybe_process_pending_releases) working on the   *)
(* same tickets.                                                           *)
(*                                                                         *)
(* Every handler reads the ticket, awaits the provider, changes the ticket *)
(* in memory under the lock and then writes the changed record to          *)
(* runtime.db. No lock is held across those steps, so each of them is an   *)
(* action and anything may happen in between, a restart included.          *)
(*                                                                         *)
(* One clock tick is AUTO_RELEASE_RETRY_INTERVAL_SEC (5 s).                *)
(***************************************************************************)
EXTENDS Integers, FiniteSets

CONSTANTS
    Tickets,        \* tickets acquired by this process at time 0
    Clients,        \* HTTP / socket requests that can be under way together
    Worker,         \* the auto-release loop
    None,           \* an absent time or action
    Ops,            \* the requests clients make, a subset of Operations
    Actions,        \* the release actions clients ask for
    Overlap,        \* FALSE: requests and passes start only when nothing is under way
    DiskFails,      \* TRUE: a write to runtime.db may fail (the error is ignored)
    MinActivation,  \* minActivationTime the provider reports, in ticks
    LeaseLen,       \* AUTO_RELEASE_OWNER_LEASE_SEC, in ticks
    MaxReuse,       \* defaults.reuse_max of the provider manifest
    MaxTime,        \* bound of the clock; it stands for every later moment too
    MaxRequests,    \* bound of the number of client requests
    MaxRestarts     \* bound of the number of process restarts

Operations     == {"poll", "release", "reacquire"}
ReleaseActions == {"finish", "cancel", "ban", "retry"}
CancelLike     == {"cancel", "ban"}

ASSUME ActorAssumption == Worker \notin Clients
ASSUME NoneAssumption  == None \notin Int \cup ReleaseActions
ASSUME OpsAssumption   == Ops \subseteq Operations /\ Actions \subseteq ReleaseActions
ASSUME ModeAssumption  == Overlap \in BOOLEAN /\ DiskFails \in BOOLEAN
ASSUME TimeAssumption  ==
    /\ MinActivation \in Nat /\ LeaseLen \in Nat \ {0}
    /\ MaxTime \in Nat /\ 2 * MinActivation + 1 < MaxTime
ASSUME BoundAssumption == MaxReuse \in Nat /\ MaxRequests \in Nat /\ MaxRestarts \in Nat

VARIABLES
    now,       \* the clock
    mem,       \* ticket -> record in SmsService.tickets
    disk,      \* ticket -> row of the tickets table
    upstream,  \* ticket -> state of the activation at the provider
    call,      \* actor -> the handler step it is in
    wk,        \* the pass of the auto-release loop
    lease,     \* expiry of the release_owner row, or None
    requests,  \* number of client requests started
    restarts   \* number of process restarts

vars == <<now, mem, disk, upstream, call, wk, lease, requests, restarts>>

Actors  == Clients \cup {Worker}
OptTime == Nat \cup {None}

Ticket == [status    : {"waiting_code", "cancel_pending", "code_received",
                        "finished", "cancelled", "failed"},
           code      : BOOLEAN,                    \* code is Some
           action    : CancelLike \cup {None},     \* pending_release_action
           auto      : OptTime,                    \* auto_release_at
           next      : OptTime,                    \* next_release_attempt_at
           deadline  : OptTime,                    \* release_retry_deadline_at
           count     : Nat,                        \* release_retry_count
           retryable : BOOLEAN,                    \* same_activation_retry_supported
           reuses    : Nat]                        \* reuse_count

Claim == [ticket : Tickets, action : CancelLike, next : Nat,
          auto : OptTime, deadline : OptTime, count : Nat]

(* Upstream an activation is open until it is cancelled, finished or       *)
(* expires; a closed one never opens again.                                *)
Open   == {"waiting", "received"}
Closed == {"cancelled", "finished"}

Replies == {"ok", "early", "error", "waiting", "code", "gone", "unknown"}

-----------------------------------------------------------------------------
(* What the handlers do to a ticket record.                                *)

Unscheduled(r) ==
    [r EXCEPT !.action = None, !.auto = None, !.next = None, !.deadline = None]

(* poll_code copies whatever status the provider reported; a code stays.   *)
PollStatus(reply) ==
    CASE reply = "waiting" -> "waiting_code"
      [] reply = "code"    -> "code_received"
      [] OTHER             -> "failed"

Polled(r, reply) ==
    [r EXCEPT !.status = PollStatus(reply), !.code = @ \/ reply = "code"]

(* A release the provider accepted.                                        *)
ReleaseStatus(a) ==
    CASE a = "finish"      -> "finished"
      [] a \in CancelLike  -> "cancelled"
      [] a = "retry"       -> "waiting_code"

Released(r, a) ==
    [Unscheduled(r) EXCEPT !.status = ReleaseStatus(a),
                           !.count = 0,
                           !.retryable = @ /\ a \notin CancelLike]

Later(t, d) == IF t + d < MaxTime THEN t + d ELSE MaxTime

(* EARLY_CANCEL_DENIED: the cancel is scheduled for later. The times and   *)
(* the count come from the ticket as it was read before the provider call. *)
RetryWindow == IF MinActivation >= 1 THEN MinActivation ELSE 1

(* Defect: every denial opens the retry window again.                      *)
RestartedDeadline(seen, t) == Later(t, RetryWindow)

AutoReleaseAt(seen)   == IF seen.auto = None THEN MinActivation ELSE seen.auto
RetryDeadline(seen, t) ==
    IF seen.deadline = None THEN AutoReleaseAt(seen) + RetryWindow ELSE seen.deadline
Retrying(seen, t)     == seen.status = "cancel_pending" /\ t >= AutoReleaseAt(seen)

Deferred(r, seen, a, t) ==
    [r EXCEPT !.status = "cancel_pending",
              !.action = a,
              !.auto = AutoReleaseAt(seen),
              !.next = IF Retrying(seen, t) THEN Later(t, 1) ELSE AutoReleaseAt(seen),
              !.deadline = RetryDeadline(seen, t),
              !.count = IF Retrying(seen, t) THEN seen.count + 1 ELSE seen.count,
              !.retryable = FALSE]

(* Defect: giving up marks the ticket as cancelled.                        *)
CancelledWhenExpired(r, claim) ==
    [Unscheduled(r) EXCEPT !.status = "cancelled", !.count = claim.count]

(* The auto-release loop gives up: window expired, or retry limit reached. *)
Expired(r, claim)  == [Unscheduled(r) EXCEPT !.status = "waiting_code", !.count = claim.count]
LimitReached(r)    == [Unscheduled(r) EXCEPT !.status = "waiting_code"]

(* Defect: failures count down from the limit.                             *)
RetryCountsDown(r, claim, t) ==
    [r EXCEPT !.status = "cancel_pending", !.next = Later(t, 1), !.count = claim.count - 1]

(* Defect: the schedule is cleared, the status is not.                     *)
RetryForgetsSchedule(r, claim, t) ==
    [Unscheduled(r) EXCEPT !.status = "cancel_pending", !.count = claim.count + 1]

(* ... or its cancel failed for another reason and is tried again.         *)
RetryLater(r, claim, t) ==
    [r EXCEPT !.status = "cancel_pending", !.next = Later(t, 1), !.count = claim.count + 1]

(* The activation turns out to be closed upstream already.                 *)
Reconciled(r) ==
    [Unscheduled(r) EXCEPT !.status = "cancelled", !.count = 0, !.retryable = FALSE]

(* acquire_code asked for another SMS on the same activation.              *)
Reacquired(r) ==
    [r EXCEPT !.status = "waiting_code", !.code = FALSE, !.reuses = @ + 1]

(* try_same_activation_retry_candidate; the expiry of the retry offer only *)
(* removes candidates and is left to the choice of the request.            *)
RetryCandidate(r) ==
    r.retryable /\ r.reuses < MaxReuse /\ r.status \in {"waiting_code", "code_received"}

(* auto_release_retry_limit of the window between the two times.           *)
RetryLimit(claim) ==
    LET window == IF claim.deadline = None THEN 0 ELSE claim.deadline - claim.auto
    IN  IF window >= 1 THEN window ELSE 1

TooLate(claim, t) == claim.deadline # None /\ t > claim.deadline
TooOften(claim)   == claim.auto # None /\ claim.count >= RetryLimit(claim)

(* claim_pending_releases: the rows of the database that are due.          *)
ClaimOf(k, r) == [ticket |-> k, action |-> r.action, next |-> r.next,
                  auto |-> r.auto, deadline |-> r.deadline, count |-> r.count]

Claimable(r) == r.status = "cancel_pending" /\ r.action # None /\ r.next # None

(* Defect: the query does not look at the time of the next attempt.        *)
DueOrNot(rows, t) == {ClaimOf(k, rows[k]) : k \in {j \in Tickets : Claimable(rows[j])}}

DueClaims(rows, t) ==
    {ClaimOf(k, rows[k]) : k \in {j \in Tickets : Claimable(rows[j]) /\ rows[j].next <= t}}

-----------------------------------------------------------------------------
Fresh(retryable) ==
    [status |-> "waiting_code", code |-> FALSE, action |-> None, auto |-> None,
     next |-> None, deadline |-> None, count |-> 0, retryable |-> retryable, reuses |-> 0]

(* The steps of a handler: the provider call is sent, with the ticket as   *)
(* it was read; it is answered; the changed ticket waits for its commit.   *)
NoCall   == [pc |-> "idle"]
Sent     == [pc : {"sent"}, op : Operations, ticket : Tickets,
             action : ReleaseActions, seen : Ticket]
Answered == [pc : {"answered"}, op : Operations, ticket : Tickets,
             action : ReleaseActions, seen : Ticket, reply : Replies]
Writing  == [pc : {"commit"}, ticket : Tickets, rec : Ticket]

(* The loop sleeps an interval after each pass. In a pass: the clock as    *)
(* read at its start, the claims left, and the one in hand, if any.        *)
Asleep(t) == [pc |-> "asleep", until |-> t]
Sleep  == [pc : {"asleep"}, until : Nat]
Pass   == [pc : {"next", "probe", "decide", "release"}, at : Nat,
           claims : SUBSET Claim, claim : Claim \cup {None}]

Init ==
    /\ now = 0
    /\ mem \in [Tickets -> {Fresh(b) : b \in BOOLEAN}]
    /\ disk = mem
    /\ upstream = [k \in Tickets |-> "waiting"]
    /\ call = [a \in Actors |-> NoCall]
    /\ wk = Asleep(0)
    /\ lease = None
    /\ requests = 0
    /\ restarts = 0

Send(a, op, k, action) ==
    call' = [call EXCEPT ![a] = [pc |-> "sent", op |-> op, ticket |-> k,
                                 action |-> action, seen |-> mem[k]]]

(* The ticket changes in memory, and the copy goes to the database next.   *)
Store(a, k, r) ==
    /\ mem' = [mem EXCEPT ![k] = r]
    /\ call' = [call EXCEPT ![a] = [pc |-> "commit", ticket |-> k, rec |-> r]]

Idle(a) == call' = [call EXCEPT ![a] = NoCall]

-----------------------------------------------------------------------------
(* Client requests.                                                        *)

Quiet == wk.pc = "asleep" /\ \A a \in Actors : call[a] = NoCall

Begin(c) ==
    /\ call[c] = NoCall
    /\ ~Overlap => Quiet
    /\ requests < MaxRequests
    /\ \E k \in Tickets :
         \/ "poll" \in Ops /\ Send(c, "poll", k, "retry")
         \/ "release" \in Ops /\ \E a \in Actions : Send(c, "release", k, a)
         \/ "reacquire" \in Ops /\ RetryCandidate(mem[k]) /\ Send(c, "reacquire", k, "retry")
    /\ requests' = requests + 1
    /\ UNCHANGED <<now, mem, disk, upstream, wk, lease, restarts>>

FinishPoll(c) ==
    /\ call[c].pc = "answered"
    /\ call[c].op = "poll"
    /\ \/ /\ call[c].reply = "error"
          /\ Idle(c)
          /\ UNCHANGED mem
       \/ /\ call[c].reply # "error"
          /\ Store(c, call[c].ticket, Polled(mem[call[c].ticket], call[c].reply))
    /\ UNCHANGED <<now, disk, upstream, wk, lease, requests, restarts>>

(* release_code_runtime_effect after the provider has answered: only a     *)
(* cancel or a ban can be deferred, any other refusal is an error.         *)
FinishRelease(a) ==
    LET k == call[a].ticket IN
    \/ /\ call[a].reply = "ok"
       /\ Store(a, k, Released(mem[k], call[a].action))
    \/ /\ call[a].reply = "early"
       /\ Store(a, k, Deferred(mem[k], call[a].seen, call[a].action, now))

FinishClientRelease(c) ==
    /\ call[c].pc = "answered"
    /\ call[c].op = "release"
    /\ \/ FinishRelease(c)
       \/ /\ call[c].reply = "error"
          /\ Idle(c)
          /\ UNCHANGED mem
    /\ UNCHANGED <<now, disk, upstream, wk, lease, requests, restarts>>

(* A refused retry changes the ticket in memory. Its unit of work is       *)
(* committed by the caller, unless the candidate stands in a routing item  *)
(* with further providers: last_error then holds the unit until the next   *)
(* of them fails or succeeds, and it is dropped without a commit           *)
(* (try_acquire_from_routing_item_effect).                                 *)
FinishReacquire(c) ==
    LET k       == call[c].ticket
        refused == [mem[k] EXCEPT !.retryable = FALSE]
    IN
    /\ call[c].pc = "answered"
    /\ call[c].op = "reacquire"
    /\ \/ /\ call[c].reply = "ok"
          /\ Store(c, k, Reacquired(mem[k]))
       \/ /\ call[c].reply # "ok"
          /\ Store(c, k, refused)
       \/ /\ call[c].reply # "ok"
          /\ mem' = [mem EXCEPT ![k] = refused]
          /\ Idle(c)
    /\ UNCHANGED <<now, disk, upstream, wk, lease, requests, restarts>>

(* Defect: the changed record is not written.                              *)
CommitMemoryOnly(a) ==
    /\ call[a].pc = "commit"
    /\ Idle(a)
    /\ UNCHANGED <<now, mem, disk, upstream, wk, lease, requests, restarts>>

(* commit_runtime_uow: the record goes to the database in one transaction. *)
Commit(a) ==
    /\ call[a].pc = "commit"
    /\ \/ disk' = [disk EXCEPT ![call[a].ticket] = call[a].rec]
       \/ DiskFails /\ UNCHANGED disk
    /\ Idle(a)
    /\ UNCHANGED <<now, mem, upstream, wk, lease, requests, restarts>>

-----------------------------------------------------------------------------
(* The auto-release loop.                                                  *)

(* Defect: a lease row that was left behind keeps every later pass out.    *)
BeginPassUnlessLeased ==
    /\ wk.pc = "asleep"
    /\ wk.until <= now
    /\ ~Overlap => Quiet
    /\ lease = None
    /\ lease' = Later(now, LeaseLen)
    /\ wk' = [pc |-> "next", at |-> now, claims |-> DueClaims(disk, now), claim |-> None]
    /\ UNCHANGED <<now, mem, disk, upstream, call, requests, restarts>>

(* The lease row must be absent or expired: every pass has an id of its own *)
(* (the lease itself is the subject of ReleaseOwner).                      *)
BeginPass ==
    /\ wk.pc = "asleep"
    /\ wk.until <= now
    /\ ~Overlap => Quiet
    /\ lease # None => lease <= now
    /\ lease' = Later(now, LeaseLen)
    /\ wk' = [pc |-> "next", at |-> now, claims |-> DueClaims(disk, now), claim |-> None]
    /\ UNCHANGED <<now, mem, disk, upstream, call, requests, restarts>>

EndPass ==
    /\ wk.pc = "next"
    /\ call[Worker] = NoCall
    /\ wk.claims = {}
    /\ wk' = Asleep(Later(now, 1))
    /\ lease' = None
    /\ UNCHANGED <<now, mem, disk, upstream, call, requests, restarts>>

(* Takes the next claim, in the order of the attempt times; if the ticket  *)
(* is still waiting to be cancelled the provider is asked for its status.  *)
NextClaim ==
    /\ wk.pc = "next"
    /\ call[Worker] = NoCall
    /\ \E claim \in wk.claims :
         /\ \A other \in wk.claims : claim.next <= other.next
         /\ \/ /\ mem[claim.ticket].status = "cancel_pending"
               /\ wk' = [wk EXCEPT !.pc = "probe", !.claims = @ \ {claim}, !.claim = claim]
               /\ Send(Worker, "poll", claim.ticket, claim.action)
            \/ /\ mem[claim.ticket].status # "cancel_pending"
               /\ wk' = [wk EXCEPT !.pc = "decide", !.claims = @ \ {claim}, !.claim = claim]
               /\ UNCHANGED call
    /\ UNCHANGED <<now, mem, disk, upstream, lease, requests, restarts>>

(* The provider of the ticket is not in the registry: the claim is left    *)
(* for a later pass.                                                       *)
SkipClaim ==
    /\ wk.pc = "next"
    /\ call[Worker] = NoCall
    /\ \E claim \in wk.claims :
         /\ \A other \in wk.claims : claim.next <= other.next
         /\ wk' = [wk EXCEPT !.claims = @ \ {claim}]
    /\ UNCHANGED <<now, mem, disk, upstream, call, lease, requests, restarts>>

ClaimDone == wk' = [wk EXCEPT !.pc = "next", !.claim = None]

(* The answer to the probe: closed upstream means nothing is left to do.   *)
WorkerProbed ==
    LET k == wk.claim.ticket IN
    /\ wk.pc = "probe"
    /\ call[Worker].pc = "answered"
    /\ \/ /\ call[Worker].reply = "gone"
          /\ Store(Worker, k, Reconciled(mem[k]))
          /\ ClaimDone
       \/ /\ call[Worker].reply # "gone"
          /\ wk' = [wk EXCEPT !.pc = "decide"]
          /\ Idle(Worker)
          /\ UNCHANGED mem
    /\ UNCHANGED <<now, disk, upstream, lease, requests, restarts>>

(* Window and limit are judged by the claim and by the clock as read at    *)
(* the start of the pass; the release reads the ticket afresh.             *)
WorkerDecide ==
    LET k == wk.claim.ticket IN
    /\ wk.pc = "decide"
    /\ \/ /\ TooLate(wk.claim, wk.at)
          /\ Store(Worker, k, Expired(mem[k], wk.claim))
          /\ ClaimDone
       \/ /\ ~TooLate(wk.claim, wk.at)
          /\ TooOften(wk.claim)
          /\ Store(Worker, k, LimitReached(mem[k]))
          /\ ClaimDone
       \/ /\ ~TooLate(wk.claim, wk.at)
          /\ ~TooOften(wk.claim)
          /\ Send(Worker, "release", k, wk.claim.action)
          /\ wk' = [wk EXCEPT !.pc = "release"]
          /\ UNCHANGED mem
    /\ UNCHANGED <<now, disk, upstream, lease, requests, restarts>>

WorkerReleased ==
    LET k == wk.claim.ticket IN
    /\ wk.pc = "release"
    /\ call[Worker].pc = "answered"
    /\ \/ FinishRelease(Worker)
       \/ /\ call[Worker].reply = "error"
          /\ Store(Worker, k, RetryLater(mem[k], wk.claim, now))
    /\ ClaimDone
    /\ UNCHANGED <<now, disk, upstream, lease, requests, restarts>>

-----------------------------------------------------------------------------
(* The provider (external) and the world around the process.               *)

(* What the provider may answer in a state, with the state it goes to. An  *)
(* "error" is a refusal, or an answer that was lost after it took effect.  *)
Outcomes(op, action, u) ==
    LET lost == {<<"error", u>>}
        done(v) == IF u \in Open THEN {<<"ok", v>>, <<"error", v>>} ELSE {}
    IN  CASE op = "poll" -> lost \cup
               {<<IF u = "waiting" THEN "waiting" ELSE IF u = "received" THEN "code" ELSE "gone", u>>,
                <<"unknown", u>>}
          [] op # "poll" /\ action = "finish" -> lost \cup done("finished")
          [] op # "poll" /\ action = "retry" -> lost \cup done("waiting")
          [] op # "poll" /\ action \in CancelLike ->
               lost \cup done("cancelled") \cup (IF u \in Open THEN {<<"early", u>>} ELSE {})

UpstreamAnswer(a) ==
    /\ call[a].pc = "sent"
    /\ \E o \in Outcomes(call[a].op, call[a].action, upstream[call[a].ticket]) :
         /\ upstream' = [upstream EXCEPT ![call[a].ticket] = o[2]]
         /\ call' = [call EXCEPT ![a] =
              [pc |-> "answered", op |-> call[a].op, ticket |-> call[a].ticket,
               action |-> call[a].action, seen |-> call[a].seen, reply |-> o[1]]]
    /\ UNCHANGED <<now, mem, disk, wk, lease, requests, restarts>>

(* An SMS arrives, or the activation runs out.                             *)
UpstreamMoves(k) ==
    /\ \/ upstream[k] = "waiting" /\ upstream' = [upstream EXCEPT ![k] = "received"]
       \/ upstream[k] \in Open /\ upstream' = [upstream EXCEPT ![k] = "cancelled"]
    /\ UNCHANGED <<now, mem, disk, call, wk, lease, requests, restarts>>

Tick ==
    /\ now < MaxTime
    /\ now' = now + 1
    /\ UNCHANGED <<mem, disk, upstream, call, wk, lease, requests, restarts>>

(* The process dies and comes back: memory is what load_state reads, the   *)
(* lease row of a pass that was running stays behind.                      *)
Restart ==
    /\ restarts < MaxRestarts
    /\ restarts' = restarts + 1
    /\ mem' = disk
    /\ call' = [a \in Actors |-> NoCall]
    /\ wk' = Asleep(now)
    /\ UNCHANGED <<now, disk, upstream, lease, requests>>

-----------------------------------------------------------------------------
ClientStep(c) == FinishPoll(c) \/ FinishClientRelease(c) \/ FinishReacquire(c)
LoopStep      ==
    BeginPass \/ EndPass \/ NextClaim \/ SkipClaim \/ WorkerProbed \/ WorkerDecide \/ WorkerReleased

Next ==
    \/ \E c \in Clients : Begin(c) \/ ClientStep(c)
    \/ LoopStep
    \/ \E a \in Actors : UpstreamAnswer(a) \/ Commit(a)
    \/ \E k \in Tickets : UpstreamMoves(k)
    \/ Tick
    \/ Restart

Spec == Init /\ [][Next]_vars

(* The loop runs every 5 s for as long as the process lives, every provider *)
(* request ends in an answer or a timeout, what follows an answer is not   *)
(* blocked by anything, and time passes. A provider is not missing from    *)
(* the registry at every pass. Clients owe nobody a request.               *)
Fairness ==
    /\ WF_vars(LoopStep)
    /\ \A k \in Tickets : SF_vars(NextClaim /\ wk'.claim.ticket = k)
    /\ \A c \in Clients : WF_vars(ClientStep(c))
    /\ \A a \in Actors : WF_vars(UpstreamAnswer(a)) /\ WF_vars(Commit(a))
    /\ WF_vars(Tick)

FairSpec == Spec /\ Fairness
-----------------------------------------------------------------------------
(* Properties.                                                             *)

TypeOK ==
    /\ now \in Nat
    /\ mem \in [Tickets -> Ticket]
    /\ disk \in [Tickets -> Ticket]
    /\ upstream \in [Tickets -> Open \cup Closed]
    /\ call \in [Actors -> {NoCall} \cup Sent \cup Answered \cup Writing]
    /\ wk \in Sleep \cup Pass
    /\ lease \in OptTime
    /\ requests \in Nat
    /\ restarts \in Nat

(* A ticket is shown as finished or cancelled, in memory or after a        *)
(* restart, only when nothing can be billed or received on it any more:    *)
(* the activation is closed at the provider. It holds although answers,    *)
(* claims and commits arrive late and in any order (poll_code,             *)
(* release_code_runtime_effect, maybe_process_pending_releases).           *)
TerminalIsClosed ==
    \A k \in Tickets :
        mem[k].status \in Closed \/ disk[k].status \in Closed => upstream[k] \in Closed

(* The loop never asks the provider for a cancel before the cooldown the   *)
(* provider asked for is over, whatever happened to the schedule since     *)
(* (features.md: "Respects provider `minActivationTime` constraints").     *)
AutoCancelWaitsForCooldown ==
    call[Worker].pc = "sent" /\ call[Worker].op = "release" => now >= MinActivation

(* What every copy of a ticket - in memory, in the database, on its way    *)
(* there, or read before a provider call - keeps of its schedule: action   *)
(* and times come and go together, the window keeps the length it was      *)
(* given first, and no attempt lies before the cooldown, so that no        *)
(* sequence of denials, failures and stale writes can stretch the retry    *)
(* window (release_code_runtime_effect).                                   *)
WellScheduled(r) ==
    \/ r.action = None /\ r.auto = None /\ r.deadline = None
    \/ /\ r.action # None
       /\ r.auto = MinActivation
       /\ r.deadline = MinActivation + RetryWindow
       /\ r.next # None /\ r.next >= MinActivation

ScheduleWellFormed ==
    /\ \A k \in Tickets : WellScheduled(mem[k]) /\ WellScheduled(disk[k])
    /\ \A a \in Actors :
         /\ call[a].pc \in {"sent", "answered"} => WellScheduled(call[a].seen)
         /\ call[a].pc = "commit" => WellScheduled(call[a].rec)

(* With one request or pass at a time a pending cancel is always due some  *)
(* day: the record names its action and the time of its next attempt, in   *)
(* memory and in the database the claims are read from.                    *)
PendingIsScheduled ==
    \A k \in Tickets : \A r \in {mem[k], disk[k]} :
        r.status = "cancel_pending" => r.action # None /\ r.next # None /\ r.deadline # None

(* When nothing is under way the database holds what memory holds, so that *)
(* a restart forgets nothing (docs/daemon-api.md: tickets are persisted to *)
(* runtime.db) - except that a retry was refused, where the routing item   *)
(* went on to another provider and the unit of work was dropped.           *)
Agree(row, r) == row = r \/ row = [r EXCEPT !.retryable = TRUE]

QuiescentDiskAgrees == Quiet => \A k \in Tickets : Agree(disk[k], mem[k])

(* A ticket never stays "cancel pending": the loop cancels it, finds it    *)
(* closed, or gives up when the window or the retry limit is exceeded -    *)
(* after a restart and an orphaned lease too, and however often the        *)
(* provider refuses.                                                       *)
CancelPendingResolves ==
    \A k \in Tickets : mem[k].status = "cancel_pending" ~> mem[k].status # "cancel_pending"

(* Nothing at all is forgotten: so it would be, if the units of failed     *)
(* providers were not dropped.                                             *)
NothingIsForgotten == Quiet => disk = mem

(* A scheduled cancel remains one the claim query selects, until the loop  *)
(* or a later release settles it.                                          *)
ScheduleStaysClaimable ==
    \A k \in Tickets : mem[k].action # None => mem[k].status = "cancel_pending"
=============================================================================
