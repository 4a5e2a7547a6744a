----------------------- MODULE TicketLifecycleProofs -----------------------
(***************************************************************************)
(* What TicketLifecycle keeps for every number of tickets and clients,     *)
(* every cooldown and every interleaving: types, the schedule of pending   *)
(* cancels, and that no ticket is shown closed while it is open upstream;  *)
(* and, of requests and passes one at a time, that no pending cancel loses *)
(* its schedule and that a restart forgets no more than a refused retry.   *)
(***************************************************************************)
EXTENDS TicketLifecycle, TLAPS

(* Where the loop stands decides what its provider call is.                *)
PhaseInv ==
    /\ wk.pc \in {"asleep", "next"} => call[Worker].pc \in {"idle", "commit"}
    /\ wk.pc \in {"probe", "decide", "release"} => wk.claim \in Claim
    /\ wk.pc = "decide" => call[Worker].pc = "idle"
    /\ wk.pc \in {"probe", "release"} =>
         /\ call[Worker].pc \in {"sent", "answered"}
         /\ call[Worker].ticket = wk.claim.ticket
         /\ call[Worker].action \in CancelLike
    /\ wk.pc = "probe" => call[Worker].op = "poll"
    /\ wk.pc = "release" => call[Worker].op = "release"

(* A pass only works on claims whose cooldown was over when it began.      *)
Due(claim) == claim.next >= MinActivation /\ claim.next <= wk.at

ClaimInv ==
    /\ wk.pc # "asleep" =>
         /\ wk.at <= now
         /\ \A claim \in wk.claims : Due(claim)
    /\ wk.pc \in {"probe", "decide", "release"} => Due(wk.claim)

(* What an answer says about the activation is still so when it is used.   *)
AnswerInv ==
    \A a \in Actors : call[a].pc = "answered" =>
        /\ call[a].reply = "early" => call[a].action \in CancelLike
        /\ call[a].reply = "gone" => upstream[call[a].ticket] \in Closed
        /\ call[a].reply = "ok" /\ call[a].op = "release" /\ call[a].action # "retry"
             => upstream[call[a].ticket] \in Closed

CommitInv ==
    \A a \in Actors : call[a].pc = "commit" /\ call[a].rec.status \in Closed
                        => upstream[call[a].ticket] \in Closed

IInv ==
    /\ TypeOK
    /\ PhaseInv
    /\ ClaimInv
    /\ AnswerInv
    /\ ScheduleWellFormed
    /\ TerminalIsClosed
    /\ CommitInv

USE ActorAssumption, NoneAssumption, OpsAssumption, ModeAssumption, TimeAssumption, BoundAssumption

-----------------------------------------------------------------------------
(* The changes to a record keep its type and its schedule.                 *)

LEMMA WindowIsNat == RetryWindow \in Nat
BY DEF RetryWindow

LEMMA LaterIsNat ==
    ASSUME NEW t \in Nat, NEW d \in Nat
    PROVE  Later(t, d) \in Nat /\ (t >= MinActivation => Later(t, d) >= MinActivation)
BY DEF Later

LEMMA PolledKeeps ==
    ASSUME NEW r \in Ticket, WellScheduled(r), NEW reply \in Replies
    PROVE  /\ Polled(r, reply) \in Ticket
           /\ WellScheduled(Polled(r, reply))
           /\ Polled(r, reply).status \notin Closed
BY DEF Polled, PollStatus, Ticket, Replies, WellScheduled, Closed

LEMMA ReleasedKeeps ==
    ASSUME NEW r \in Ticket, NEW a \in ReleaseActions
    PROVE  /\ Released(r, a) \in Ticket
           /\ WellScheduled(Released(r, a))
           /\ Released(r, a).status \in Closed => a # "retry"
BY DEF Released, ReleaseStatus, Unscheduled, Ticket, OptTime, ReleaseActions, CancelLike,
       WellScheduled, Closed

LEMMA DeferredKeeps ==
    ASSUME NEW r \in Ticket, NEW seen \in Ticket, WellScheduled(seen),
           NEW a \in CancelLike, NEW t \in Nat
    PROVE  /\ Deferred(r, seen, a, t) \in Ticket
           /\ WellScheduled(Deferred(r, seen, a, t))
           /\ Deferred(r, seen, a, t).status \notin Closed
<1>1. AutoReleaseAt(seen) = MinActivation
  BY DEF AutoReleaseAt, WellScheduled
<1>2. RetryDeadline(seen, t) = MinActivation + RetryWindow
  BY <1>1 DEF RetryDeadline, WellScheduled
<1>3. Retrying(seen, t) => Later(t, 1) >= MinActivation
  BY <1>1, LaterIsNat DEF Retrying
<1>4. Later(t, 1) \in Nat /\ RetryWindow \in Nat
  BY LaterIsNat, WindowIsNat
<1>5. a # None
  BY DEF CancelLike, ReleaseActions
<1> DEFINE next  == IF Retrying(seen, t) THEN Later(t, 1) ELSE AutoReleaseAt(seen)
           count == IF Retrying(seen, t) THEN seen.count + 1 ELSE seen.count
           d     == Deferred(r, seen, a, t)
<1>6. next \in Nat /\ next >= MinActivation /\ next # None
  BY <1>1, <1>3, <1>4
<1>7. count \in Nat
  BY DEF Ticket
<1>8. d = [r EXCEPT !.status = "cancel_pending", !.action = a, !.auto = MinActivation,
                    !.next = next, !.deadline = MinActivation + RetryWindow,
                    !.count = count, !.retryable = FALSE]
  BY <1>1, <1>2 DEF Deferred
<1> HIDE DEF next, count, d
<1>9. MinActivation + RetryWindow \in Nat
  BY <1>4
<1>10. d \in Ticket
  BY <1>6, <1>7, <1>8, <1>9 DEF Ticket, OptTime
<1>11. /\ d.status = "cancel_pending" /\ d.action = a /\ d.auto = MinActivation
       /\ d.next = next /\ d.deadline = MinActivation + RetryWindow
  BY <1>8 DEF Ticket
<1>12. WellScheduled(d) /\ d.status \notin Closed
  BY <1>5, <1>6, <1>11 DEF WellScheduled, Closed
<1> QED
  BY <1>10, <1>12 DEF d

LEMMA GivenUpKeeps ==
    ASSUME NEW r \in Ticket, NEW claim \in Claim
    PROVE  /\ Expired(r, claim) \in Ticket /\ LimitReached(r) \in Ticket
           /\ WellScheduled(Expired(r, claim)) /\ WellScheduled(LimitReached(r))
           /\ Expired(r, claim).status \notin Closed
           /\ LimitReached(r).status \notin Closed
BY DEF Expired, LimitReached, Unscheduled, Ticket, Claim, OptTime, WellScheduled, Closed

LEMMA RetryLaterKeeps ==
    ASSUME NEW r \in Ticket, WellScheduled(r), NEW claim \in Claim,
           NEW t \in Nat, t >= MinActivation
    PROVE  /\ RetryLater(r, claim, t) \in Ticket
           /\ WellScheduled(RetryLater(r, claim, t))
           /\ RetryLater(r, claim, t).status \notin Closed
<1>1. Later(t, 1) \in Nat /\ Later(t, 1) >= MinActivation
  BY LaterIsNat
<1> DEFINE d == RetryLater(r, claim, t)
<1> DEFINE n == claim.count + 1
<1>a. n \in Nat
  BY DEF Claim
<1>b. d = [r EXCEPT !.status = "cancel_pending", !.next = Later(t, 1), !.count = n]
  BY DEF RetryLater
<1> HIDE DEF n
<1>2. [r EXCEPT !.status = "cancel_pending", !.next = Later(t, 1), !.count = n] \in Ticket
  BY <1>1, <1>a DEF Ticket, OptTime
<1>3. /\ d.status = "cancel_pending" /\ d.next = Later(t, 1)
      /\ d.action = r.action /\ d.auto = r.auto /\ d.deadline = r.deadline
  BY DEF RetryLater, Ticket
<1> HIDE DEF d
<1>4. WellScheduled(d) /\ d.status \notin Closed
  BY <1>1, <1>3 DEF WellScheduled, Closed
<1> QED
  BY <1>2, <1>4, <1>b DEF d

LEMMA ReconciledKeeps ==
    ASSUME NEW r \in Ticket
    PROVE  Reconciled(r) \in Ticket /\ WellScheduled(Reconciled(r))
BY DEF Reconciled, Unscheduled, Ticket, OptTime, WellScheduled

LEMMA ReacquiredKeeps ==
    ASSUME NEW r \in Ticket, WellScheduled(r)
    PROVE  /\ Reacquired(r) \in Ticket /\ WellScheduled(Reacquired(r))
           /\ Reacquired(r).status \notin Closed
           /\ [r EXCEPT !.retryable = FALSE] \in Ticket
           /\ WellScheduled([r EXCEPT !.retryable = FALSE])
           /\ [r EXCEPT !.retryable = FALSE].status = r.status
<1> DEFINE d == Reacquired(r)
           e == [r EXCEPT !.retryable = FALSE]
<1> DEFINE n == r.reuses + 1
<1>a. n \in Nat
  BY DEF Ticket
<1>b. d = [r EXCEPT !.status = "waiting_code", !.code = FALSE, !.reuses = n]
  BY DEF Reacquired, Ticket
<1> HIDE DEF n
<1>1. /\ [r EXCEPT !.status = "waiting_code", !.code = FALSE, !.reuses = n] \in Ticket
      /\ e \in Ticket
  BY <1>a DEF Ticket
<1>2. /\ d.status = "waiting_code" /\ e.status = r.status
      /\ d.action = r.action /\ d.auto = r.auto /\ d.deadline = r.deadline /\ d.next = r.next
      /\ e.action = r.action /\ e.auto = r.auto /\ e.deadline = r.deadline /\ e.next = r.next
  BY DEF Reacquired, Ticket
<1> HIDE DEF d, e
<1>3. WellScheduled(d) /\ WellScheduled(e) /\ d.status \notin Closed
  BY <1>2 DEF WellScheduled, Closed
<1> QED
  BY <1>1, <1>2, <1>3, <1>b DEF d, e

(* What the provider answers is a reply, closed activations stay closed,   *)
(* and the answers that say so are right.                                  *)
LEMMA OutcomesAreRight ==
    ASSUME NEW op \in Operations, NEW action \in ReleaseActions,
           NEW u \in Open \cup Closed, NEW o \in Outcomes(op, action, u)
    PROVE  /\ o[1] \in Replies
           /\ o[2] \in Open \cup Closed
           /\ u \in Closed => o[2] \in Closed
           /\ o[1] = "early" => action \in CancelLike
           /\ o[1] = "gone" => o[2] \in Closed
           /\ o[1] = "ok" /\ op = "release" /\ action # "retry" => o[2] \in Closed
<1> USE DEF Outcomes, Operations, ReleaseActions, CancelLike, Open, Closed, Replies
<1>1. CASE op = "poll"
  BY <1>1
<1>2. CASE op # "poll" /\ action = "finish"
  BY <1>2
<1>3. CASE op # "poll" /\ action = "retry"
  BY <1>3
<1>4. CASE op # "poll" /\ action \in CancelLike
  BY <1>4
<1> QED
  BY <1>1, <1>2, <1>3, <1>4

LEMMA DueClaimsAreDue ==
    ASSUME NEW t \in Nat, disk \in [Tickets -> Ticket],
           \A k \in Tickets : WellScheduled(disk[k]),
           NEW claim \in DueClaims(disk, t)
    PROVE  claim \in Claim /\ claim.next >= MinActivation /\ claim.next <= t
<1>1. PICK k \in Tickets : /\ claim = ClaimOf(k, disk[k])
                           /\ Claimable(disk[k]) /\ disk[k].next <= t
  BY DEF DueClaims
<1>2. disk[k] \in Ticket /\ WellScheduled(disk[k])
  OBVIOUS
<1> QED
  BY <1>1, <1>2 DEF ClaimOf, Claimable, Claim, Ticket, OptTime, WellScheduled
-----------------------------------------------------------------------------
(* The three ways in which a handler's step changes its call.              *)

CallInv == AnswerInv /\ ScheduleWellFormed /\ TerminalIsClosed /\ CommitInv

LEMMA StoreKeeps ==
    ASSUME IInv, NEW a \in Actors, NEW k \in Tickets, NEW r \in Ticket,
           WellScheduled(r), r.status \in Closed => upstream[k] \in Closed,
           Store(a, k, r), UNCHANGED <<disk, upstream>>
    PROVE  /\ mem' \in [Tickets -> Ticket]
           /\ call' \in [Actors -> {NoCall} \cup Sent \cup Answered \cup Writing]
           /\ CallInv'
           /\ call'[a].pc = "commit"
           /\ \A b \in Actors \ {a} : call'[b] = call[b]
<1> DEFINE w == [pc |-> "commit", ticket |-> k, rec |-> r]
<1> USE DEF IInv, TypeOK, Store
<1>1. w \in Writing
  BY DEF Writing
<1>2. call' = [call EXCEPT ![a] = w] /\ mem' = [mem EXCEPT ![k] = r]
  OBVIOUS
<1>3. w.pc = "commit" /\ w.ticket = k /\ w.rec = r
  OBVIOUS
<1> HIDE DEF w, Store
<1>4. call'[a] = w /\ \A b \in Actors \ {a} : call'[b] = call[b]
  BY <1>2
<1>5. mem'[k] = r /\ \A j \in Tickets \ {k} : mem'[j] = mem[j]
  BY <1>2
<1>6. mem' \in [Tickets -> Ticket]
  BY <1>2
<1>7. call' \in [Actors -> {NoCall} \cup Sent \cup Answered \cup Writing]
  BY <1>1, <1>2
<1>8. AnswerInv'
  BY <1>3, <1>4 DEF AnswerInv
<1>9. ScheduleWellFormed'
  <2>1. \A j \in Tickets : WellScheduled(mem'[j]) /\ WellScheduled(disk'[j])
    BY <1>5 DEF ScheduleWellFormed
  <2>2. \A b \in Actors : call'[b].pc \in {"sent", "answered"} => WellScheduled(call'[b].seen)
    BY <1>3, <1>4 DEF ScheduleWellFormed
  <2>3. \A b \in Actors : call'[b].pc = "commit" => WellScheduled(call'[b].rec)
    BY <1>3, <1>4 DEF ScheduleWellFormed
  <2> QED
    BY <2>1, <2>2, <2>3 DEF ScheduleWellFormed, WellScheduled
<1>10. TerminalIsClosed'
  BY <1>5 DEF TerminalIsClosed
<1>11. CommitInv'
  BY <1>3, <1>4 DEF CommitInv
<1> QED
  BY <1>3, <1>4, <1>6, <1>7, <1>8, <1>9, <1>10, <1>11 DEF CallInv

LEMMA SendKeeps ==
    ASSUME IInv, NEW a \in Actors, NEW op \in Operations, NEW k \in Tickets,
           NEW action \in ReleaseActions,
           Send(a, op, k, action), UNCHANGED <<mem, disk, upstream>>
    PROVE  /\ call' \in [Actors -> {NoCall} \cup Sent \cup Answered \cup Writing]
           /\ CallInv'
           /\ call'[a].pc = "sent" /\ call'[a].op = op
           /\ call'[a].ticket = k /\ call'[a].action = action
           /\ \A b \in Actors \ {a} : call'[b] = call[b]
<1> DEFINE w == [pc |-> "sent", op |-> op, ticket |-> k, action |-> action, seen |-> mem[k]]
<1> USE DEF IInv, TypeOK
<1>1. w \in Sent
  BY DEF Sent
<1>2. call' = [call EXCEPT ![a] = w]
  BY DEF Send
<1>3. w.pc = "sent" /\ w.op = op /\ w.ticket = k /\ w.action = action /\ w.seen = mem[k]
  OBVIOUS
<1> HIDE DEF w
<1>4. call'[a] = w /\ \A b \in Actors \ {a} : call'[b] = call[b]
  BY <1>2
<1>5. call' \in [Actors -> {NoCall} \cup Sent \cup Answered \cup Writing]
  BY <1>1, <1>2
<1>6. AnswerInv' /\ CommitInv'
  BY <1>3, <1>4 DEF AnswerInv, CommitInv
<1>7. ScheduleWellFormed'
  <2>1. \A b \in Actors : call'[b].pc \in {"sent", "answered"} => WellScheduled(call'[b].seen)
    BY <1>3, <1>4 DEF ScheduleWellFormed
  <2>2. \A b \in Actors : call'[b].pc = "commit" => WellScheduled(call'[b].rec)
    BY <1>3, <1>4 DEF ScheduleWellFormed
  <2> QED
    BY <2>1, <2>2 DEF ScheduleWellFormed, WellScheduled
<1>8. TerminalIsClosed'
  BY DEF TerminalIsClosed
<1> QED
  BY <1>3, <1>4, <1>5, <1>6, <1>7, <1>8 DEF CallInv

LEMMA IdleKeeps ==
    ASSUME IInv, NEW a \in Actors, Idle(a), UNCHANGED <<mem, disk, upstream>>
    PROVE  /\ call' \in [Actors -> {NoCall} \cup Sent \cup Answered \cup Writing]
           /\ CallInv'
           /\ call'[a].pc = "idle"
           /\ \A b \in Actors \ {a} : call'[b] = call[b]
<1> USE DEF IInv, TypeOK
<1>1. NoCall.pc = "idle"
  BY DEF NoCall
<1>2. call'[a] = NoCall /\ \A b \in Actors \ {a} : call'[b] = call[b]
  BY DEF Idle
<1>3. call' \in [Actors -> {NoCall} \cup Sent \cup Answered \cup Writing]
  BY DEF Idle
<1>4. AnswerInv' /\ CommitInv'
  BY <1>1, <1>2 DEF AnswerInv, CommitInv
<1>5. ScheduleWellFormed'
  <2>1. \A b \in Actors : call'[b].pc \in {"sent", "answered"} => WellScheduled(call'[b].seen)
    BY <1>1, <1>2 DEF ScheduleWellFormed
  <2>2. \A b \in Actors : call'[b].pc = "commit" => WellScheduled(call'[b].rec)
    BY <1>1, <1>2 DEF ScheduleWellFormed
  <2> QED
    BY <2>1, <2>2 DEF ScheduleWellFormed, WellScheduled
<1>6. TerminalIsClosed'
  BY DEF TerminalIsClosed
<1> QED
  BY <1>1, <1>2, <1>3, <1>4, <1>5, <1>6 DEF CallInv

(* A handler's unit is dropped: the ticket changes, nothing is written.    *)
LEMMA DropKeeps ==
    ASSUME IInv, NEW a \in Actors, NEW k \in Tickets, NEW r \in Ticket,
           WellScheduled(r), r.status \in Closed => upstream[k] \in Closed,
           mem' = [mem EXCEPT ![k] = r], Idle(a), UNCHANGED <<disk, upstream>>
    PROVE  /\ mem' \in [Tickets -> Ticket]
           /\ call' \in [Actors -> {NoCall} \cup Sent \cup Answered \cup Writing]
           /\ CallInv'
           /\ call'[a].pc = "idle"
           /\ \A b \in Actors \ {a} : call'[b] = call[b]
<1> USE DEF IInv, TypeOK
<1>1. NoCall.pc = "idle"
  BY DEF NoCall
<1>2. call'[a] = NoCall /\ \A b \in Actors \ {a} : call'[b] = call[b]
  BY DEF Idle
<1>3. call' \in [Actors -> {NoCall} \cup Sent \cup Answered \cup Writing]
  BY DEF Idle
<1>4. mem'[k] = r /\ \A j \in Tickets \ {k} : mem'[j] = mem[j]
  OBVIOUS
<1>5. AnswerInv' /\ CommitInv'
  BY <1>1, <1>2 DEF AnswerInv, CommitInv
<1>6. ScheduleWellFormed'
  <2>1. \A j \in Tickets : WellScheduled(mem'[j]) /\ WellScheduled(disk'[j])
    BY <1>4 DEF ScheduleWellFormed
  <2>2. \A b \in Actors : call'[b].pc \in {"sent", "answered"} => WellScheduled(call'[b].seen)
    BY <1>1, <1>2 DEF ScheduleWellFormed
  <2>3. \A b \in Actors : call'[b].pc = "commit" => WellScheduled(call'[b].rec)
    BY <1>1, <1>2 DEF ScheduleWellFormed
  <2> QED
    BY <2>1, <2>2, <2>3 DEF ScheduleWellFormed, WellScheduled
<1>7. TerminalIsClosed'
  BY <1>4 DEF TerminalIsClosed
<1> QED
  BY <1>1, <1>2, <1>3, <1>5, <1>6, <1>7 DEF CallInv

(* The types of what an actor's call holds.                                *)
LEMMA CallTypes ==
    ASSUME TypeOK, NEW a \in Actors
    PROVE  /\ call[a].pc = "sent" => call[a] \in Sent
           /\ call[a].pc = "answered" => call[a] \in Answered
           /\ call[a].pc = "commit" => call[a] \in Writing
           /\ call[a].pc \in {"sent", "answered"} =>
                /\ call[a].op \in Operations /\ call[a].ticket \in Tickets
                /\ call[a].action \in ReleaseActions /\ call[a].seen \in Ticket
           /\ call[a].pc = "answered" => call[a].reply \in Replies
           /\ call[a].pc = "commit" => call[a].ticket \in Tickets /\ call[a].rec \in Ticket
BY DEF TypeOK, NoCall, Sent, Answered, Writing
-----------------------------------------------------------------------------
LEMMA InitIInv == Init => IInv
<1> SUFFICES ASSUME Init PROVE IInv
  OBVIOUS
<1>0. ASSUME NEW b \in BOOLEAN
      PROVE  Fresh(b) \in Ticket /\ WellScheduled(Fresh(b)) /\ Fresh(b).status \notin Closed
  BY DEF Fresh, Ticket, OptTime, WellScheduled, Closed
<1>1. TypeOK
  <2>1. mem \in [Tickets -> Ticket] /\ disk \in [Tickets -> Ticket]
    BY <1>0 DEF Init
  <2>2. upstream \in [Tickets -> Open \cup Closed]
    BY DEF Init, Open
  <2>3. call \in [Actors -> {NoCall} \cup Sent \cup Answered \cup Writing]
    BY DEF Init
  <2>4. wk \in Sleep
    BY DEF Init, Asleep, Sleep
  <2> QED
    BY <2>1, <2>2, <2>3, <2>4 DEF Init, TypeOK, OptTime
<1>2. \A k \in Tickets : mem[k] = disk[k] /\ WellScheduled(mem[k]) /\ mem[k].status \notin Closed
  BY <1>0 DEF Init
<1>3. \A a \in Actors : call[a].pc = "idle"
  BY DEF Init, NoCall
<1>4. wk.pc = "asleep" /\ call[Worker].pc = "idle"
  BY <1>3 DEF Init, Asleep, Actors
<1>5. PhaseInv /\ ClaimInv
  BY <1>4 DEF PhaseInv, ClaimInv
<1>6. AnswerInv /\ ScheduleWellFormed /\ TerminalIsClosed /\ CommitInv
  BY <1>2, <1>3 DEF AnswerInv, ScheduleWellFormed, TerminalIsClosed, CommitInv
<1> QED
  BY <1>1, <1>5, <1>6 DEF IInv

(* A client's step leaves the loop where it is.                            *)
LEMMA ClientKeepsPhase ==
    ASSUME IInv, NEW c \in Clients, \A b \in Actors \ {c} : call'[b] = call[b],
           UNCHANGED <<wk, now>>
    PROVE  PhaseInv' /\ ClaimInv'
<1>1. call'[Worker] = call[Worker]
  BY DEF Actors
<1> QED
  BY <1>1 DEF IInv, PhaseInv, ClaimInv, Due

LEMMA BeginKeeps ==
    ASSUME IInv, NEW c \in Clients, Begin(c)
    PROVE  IInv'
<1> c \in Actors
  BY DEF Actors
<1>1. UNCHANGED <<now, mem, disk, upstream, wk, lease, restarts>> /\ requests' = requests + 1
  BY DEF Begin
<1>2. PICK op \in Operations, k \in Tickets, action \in ReleaseActions : Send(c, op, k, action)
  BY DEF Begin, Operations, ReleaseActions
<1>3. /\ call' \in [Actors -> {NoCall} \cup Sent \cup Answered \cup Writing]
      /\ CallInv' /\ \A b \in Actors \ {c} : call'[b] = call[b]
  BY <1>1, <1>2, SendKeeps
<1>4. PhaseInv' /\ ClaimInv'
  BY <1>1, <1>3, ClientKeepsPhase
<1>5. TypeOK'
  BY <1>1, <1>3 DEF IInv, TypeOK
<1> QED
  BY <1>3, <1>4, <1>5 DEF IInv, CallInv

(* The two provider answers that change a ticket on a release.             *)
LEMMA FinishReleaseKeeps ==
    ASSUME IInv, NEW a \in Actors, call[a].pc = "answered", call[a].op = "release",
           FinishRelease(a), UNCHANGED <<disk, upstream>>
    PROVE  /\ mem' \in [Tickets -> Ticket]
           /\ call' \in [Actors -> {NoCall} \cup Sent \cup Answered \cup Writing]
           /\ CallInv'
           /\ call'[a].pc = "commit"
           /\ \A b \in Actors \ {a} : call'[b] = call[b]
<1> DEFINE k == call[a].ticket
<1>1. /\ k \in Tickets /\ mem[k] \in Ticket /\ now \in Nat
      /\ call[a].action \in ReleaseActions /\ call[a].seen \in Ticket
  BY CallTypes DEF IInv, TypeOK
<1>2. WellScheduled(mem[k]) /\ WellScheduled(call[a].seen)
  BY <1>1 DEF IInv, ScheduleWellFormed
<1>3. CASE call[a].reply = "ok" /\ Store(a, k, Released(mem[k], call[a].action))
  <2>1. /\ Released(mem[k], call[a].action) \in Ticket
        /\ WellScheduled(Released(mem[k], call[a].action))
        /\ Released(mem[k], call[a].action).status \in Closed => call[a].action # "retry"
    BY <1>1, ReleasedKeeps
  <2>2. call[a].action # "retry" => upstream[k] \in Closed
    BY <1>3 DEF IInv, AnswerInv
  <2> QED
    BY <1>1, <1>3, <2>1, <2>2, StoreKeeps
<1>4. CASE /\ call[a].reply = "early"
           /\ Store(a, k, Deferred(mem[k], call[a].seen, call[a].action, now))
  <2>1. call[a].action \in CancelLike
    BY <1>4 DEF IInv, AnswerInv
  <2>2. /\ Deferred(mem[k], call[a].seen, call[a].action, now) \in Ticket
        /\ WellScheduled(Deferred(mem[k], call[a].seen, call[a].action, now))
        /\ Deferred(mem[k], call[a].seen, call[a].action, now).status \notin Closed
    BY <1>1, <1>2, <2>1, DeferredKeeps
  <2> QED
    BY <1>1, <1>4, <2>2, StoreKeeps
<1> QED
  BY <1>3, <1>4 DEF FinishRelease

LEMMA ClientStepKeeps ==
    ASSUME IInv, NEW c \in Clients, ClientStep(c)
    PROVE  IInv'
<1> DEFINE k == call[c].ticket
<1> c \in Actors
  BY DEF Actors
<1>1. UNCHANGED <<now, disk, upstream, wk, lease, requests, restarts>> /\ call[c].pc = "answered"
  BY DEF ClientStep, FinishPoll, FinishClientRelease, FinishReacquire
<1>2. /\ k \in Tickets /\ mem[k] \in Ticket /\ call[c].reply \in Replies
      /\ mem \in [Tickets -> Ticket] /\ WellScheduled(mem[k])
      /\ mem[k].status \in Closed => upstream[k] \in Closed
  BY <1>1, CallTypes DEF IInv, TypeOK, ScheduleWellFormed, TerminalIsClosed
<1> DEFINE Kept == /\ mem' \in [Tickets -> Ticket]
                   /\ call' \in [Actors -> {NoCall} \cup Sent \cup Answered \cup Writing]
                   /\ CallInv'
                   /\ \A b \in Actors \ {c} : call'[b] = call[b]
<1>3. ASSUME FinishPoll(c) PROVE Kept
  <2>1. CASE Idle(c) /\ UNCHANGED mem
    BY <1>1, <1>2, <2>1, IdleKeeps
  <2>2. CASE Store(c, k, Polled(mem[k], call[c].reply))
    BY <1>1, <1>2, <2>2, PolledKeeps, StoreKeeps
  <2> QED
    BY <1>3, <2>1, <2>2 DEF FinishPoll
<1>4. ASSUME FinishClientRelease(c) PROVE Kept
  <2>1. CASE Idle(c) /\ UNCHANGED mem
    BY <1>1, <1>2, <2>1, IdleKeeps
  <2>2. CASE FinishRelease(c)
    <3>1. call[c].op = "release"
      BY <1>4 DEF FinishClientRelease
    <3> QED
      BY <1>1, <2>2, <3>1, FinishReleaseKeeps
  <2> QED
    BY <1>4, <2>1, <2>2 DEF FinishClientRelease
<1>5. ASSUME FinishReacquire(c) PROVE Kept
  <2>1. CASE Store(c, k, Reacquired(mem[k]))
    BY <1>1, <1>2, <2>1, ReacquiredKeeps, StoreKeeps
  <2>2. CASE Store(c, k, [mem[k] EXCEPT !.retryable = FALSE])
    BY <1>1, <1>2, <2>2, ReacquiredKeeps, StoreKeeps
  <2>3. CASE mem' = [mem EXCEPT ![k] = [mem[k] EXCEPT !.retryable = FALSE]] /\ Idle(c)
    BY <1>1, <1>2, <2>3, ReacquiredKeeps, DropKeeps
  <2> QED
    BY <1>5, <2>1, <2>2, <2>3 DEF FinishReacquire
<1>6. Kept
  BY <1>3, <1>4, <1>5 DEF ClientStep
<1>7. PhaseInv' /\ ClaimInv'
  BY <1>1, <1>6, ClientKeepsPhase
<1>8. TypeOK'
  BY <1>1, <1>6 DEF IInv, TypeOK
<1> QED
  BY <1>6, <1>7, <1>8 DEF IInv, CallInv

LEMMA CommitKeeps ==
    ASSUME IInv, NEW a \in Actors, Commit(a)
    PROVE  IInv'
<1> DEFINE k == call[a].ticket
<1>1. /\ UNCHANGED <<now, mem, upstream, wk, lease, requests, restarts>>
      /\ Idle(a) /\ call[a].pc = "commit"
      /\ disk' = [disk EXCEPT ![k] = call[a].rec] \/ UNCHANGED disk
  BY DEF Commit
<1>2. k \in Tickets /\ call[a].rec \in Ticket
  BY <1>1, CallTypes DEF IInv
<1>3. WellScheduled(call[a].rec) /\ (call[a].rec.status \in Closed => upstream[k] \in Closed)
  BY <1>1 DEF IInv, ScheduleWellFormed, CommitInv
<1>4. \A j \in Tickets : disk'[j] = disk[j] \/ (j = k /\ disk'[j] = call[a].rec)
  <2>1. disk \in [Tickets -> Ticket]
    BY DEF IInv, TypeOK
  <2>2. CASE disk' = [disk EXCEPT ![k] = call[a].rec]
    BY <1>2, <2>1, <2>2
  <2>3. CASE UNCHANGED disk
    BY <2>3
  <2> QED
    BY <1>1, <2>2, <2>3
<1>5. call'[a] = NoCall /\ \A b \in Actors \ {a} : call'[b] = call[b]
  BY <1>1 DEF Idle, IInv, TypeOK
<1>6. NoCall.pc = "idle"
  BY DEF NoCall
<1>7. TypeOK'
  BY <1>1, <1>2 DEF IInv, TypeOK, Idle
<1>8. AnswerInv' /\ CommitInv'
  BY <1>1, <1>5, <1>6 DEF IInv, AnswerInv, CommitInv
<1>9. TerminalIsClosed'
  BY <1>1, <1>3, <1>4 DEF IInv, TerminalIsClosed
<1>10. ScheduleWellFormed'
  <2>1. \A j \in Tickets : WellScheduled(mem'[j]) /\ WellScheduled(disk'[j])
    BY <1>1, <1>3, <1>4 DEF IInv, ScheduleWellFormed
  <2>2. \A b \in Actors :
          /\ call'[b].pc \in {"sent", "answered"} => WellScheduled(call'[b].seen)
          /\ call'[b].pc = "commit" => WellScheduled(call'[b].rec)
    BY <1>5, <1>6 DEF IInv, ScheduleWellFormed
  <2> QED
    BY <2>1, <2>2 DEF ScheduleWellFormed, WellScheduled
<1>11. PhaseInv'
  <2>1. Worker \in Actors
    BY DEF Actors
  <2>2. call'[Worker] = call[Worker] \/ (call[Worker].pc = "commit" /\ call'[Worker].pc = "idle")
    BY <1>1, <1>5, <1>6, <2>1
  <2> QED
    BY <1>1, <2>2 DEF IInv, PhaseInv
<1>12. ClaimInv'
  BY <1>1 DEF IInv, ClaimInv, Due
<1> QED
  BY <1>7, <1>8, <1>9, <1>10, <1>11, <1>12 DEF IInv

(* When a step changes neither calls, tickets nor the provider.            *)
LEMMA QuietKeepsCalls ==
    ASSUME IInv, UNCHANGED <<mem, disk, upstream, call>>
    PROVE  CallInv'
BY DEF IInv, CallInv, AnswerInv, ScheduleWellFormed, WellScheduled, TerminalIsClosed, CommitInv

LEMMA BeginPassKeeps == ASSUME IInv, BeginPass PROVE IInv'
<1> DEFINE p == [pc |-> "next", at |-> now, claims |-> DueClaims(disk, now), claim |-> None]
<1>1. /\ UNCHANGED <<now, mem, disk, upstream, call, requests, restarts>>
      /\ wk.pc = "asleep" /\ wk' = p /\ lease' = Later(now, LeaseLen)
  BY DEF BeginPass
<1>2. now \in Nat /\ disk \in [Tickets -> Ticket] /\ \A k \in Tickets : WellScheduled(disk[k])
  BY DEF IInv, TypeOK, ScheduleWellFormed
<1>3. \A claim \in DueClaims(disk, now) :
        claim \in Claim /\ claim.next >= MinActivation /\ claim.next <= now
  BY <1>2, DueClaimsAreDue
<1>4. p \in Pass
  BY <1>2, <1>3 DEF Pass
<1>5. p.pc = "next" /\ p.at = now /\ p.claims = DueClaims(disk, now)
  OBVIOUS
<1>6. lease' \in OptTime
  BY <1>1, <1>2, LaterIsNat DEF OptTime
<1> HIDE DEF p
<1>7. TypeOK'
  BY <1>1, <1>4, <1>6 DEF IInv, TypeOK
<1>8. PhaseInv'
  BY <1>1, <1>5 DEF IInv, PhaseInv
<1>9. ClaimInv'
  BY <1>1, <1>2, <1>3, <1>5 DEF ClaimInv, Due
<1> QED
  BY <1>1, <1>7, <1>8, <1>9, QuietKeepsCalls DEF IInv, CallInv

LEMMA EndPassKeeps == ASSUME IInv, EndPass PROVE IInv'
<1>1. /\ UNCHANGED <<now, mem, disk, upstream, call, requests, restarts>>
      /\ wk.pc = "next" /\ wk' = Asleep(Later(now, 1)) /\ lease' = None
  BY DEF EndPass
<1>2. Later(now, 1) \in Nat
  BY LaterIsNat DEF IInv, TypeOK
<1>3. wk' \in Sleep /\ wk'.pc = "asleep"
  BY <1>1, <1>2 DEF Asleep, Sleep
<1>4. TypeOK'
  BY <1>1, <1>3 DEF IInv, TypeOK, OptTime
<1>5. PhaseInv' /\ ClaimInv'
  BY <1>1, <1>3 DEF IInv, PhaseInv, ClaimInv
<1> QED
  BY <1>1, <1>4, <1>5, QuietKeepsCalls DEF IInv, CallInv

(* How a pass moves on, field by field.                                    *)
LEMMA PassMoves ==
    ASSUME wk \in Pass, NEW q \in {"next", "probe", "decide", "release"},
           NEW claim \in Claim \cup {None}, NEW S \in SUBSET Claim,
           wk' = [wk EXCEPT !.pc = q, !.claims = S, !.claim = claim]
    PROVE  /\ wk' \in Pass /\ wk'.pc = q /\ wk'.claim = claim
           /\ wk'.at = wk.at /\ wk'.claims = S
BY DEF Pass

LEMMA NextClaimKeeps == ASSUME IInv, NextClaim PROVE IInv'
<1> Worker \in Actors
  BY DEF Actors
<1>1. /\ UNCHANGED <<now, mem, disk, upstream, lease, requests, restarts>>
      /\ wk.pc = "next" /\ call[Worker] = NoCall
  BY DEF NextClaim
<1>2. wk \in Pass
  BY <1>1 DEF IInv, TypeOK, Sleep
<1>3. PICK claim \in wk.claims :
        \/ /\ wk' = [wk EXCEPT !.pc = "probe", !.claims = @ \ {claim}, !.claim = claim]
           /\ Send(Worker, "poll", claim.ticket, claim.action)
        \/ /\ wk' = [wk EXCEPT !.pc = "decide", !.claims = @ \ {claim}, !.claim = claim]
           /\ UNCHANGED call
  BY DEF NextClaim
<1>4. claim \in Claim /\ wk.claims \in SUBSET Claim /\ wk.claims \ {claim} \in SUBSET Claim
  BY <1>2 DEF Pass
<1>5. /\ claim.ticket \in Tickets /\ claim.action \in CancelLike
      /\ claim.action \in ReleaseActions /\ "poll" \in Operations
  BY <1>4 DEF Claim, CancelLike, ReleaseActions, Operations
<1>6. Due(claim) /\ wk.at <= now /\ \A other \in wk.claims : Due(other)
  BY <1>1 DEF IInv, ClaimInv
<1>7. CASE /\ wk' = [wk EXCEPT !.pc = "probe", !.claims = @ \ {claim}, !.claim = claim]
           /\ Send(Worker, "poll", claim.ticket, claim.action)
  <2>1. /\ wk' \in Pass /\ wk'.pc = "probe" /\ wk'.claim = claim
        /\ wk'.at = wk.at /\ wk'.claims = wk.claims \ {claim}
    BY <1>2, <1>4, <1>7 DEF Pass
  <2>2. /\ call' \in [Actors -> {NoCall} \cup Sent \cup Answered \cup Writing] /\ CallInv'
        /\ call'[Worker].pc = "sent" /\ call'[Worker].op = "poll"
        /\ call'[Worker].ticket = claim.ticket /\ call'[Worker].action = claim.action
    BY <1>1, <1>5, <1>7, SendKeeps
  <2>3. TypeOK'
    BY <1>1, <2>1, <2>2 DEF IInv, TypeOK
  <2>4. PhaseInv'
    BY <1>4, <1>5, <2>1, <2>2 DEF PhaseInv
  <2>5. ClaimInv'
    BY <1>1, <1>6, <2>1 DEF ClaimInv, Due
  <2> QED
    BY <2>2, <2>3, <2>4, <2>5 DEF IInv, CallInv
<1>8. CASE /\ wk' = [wk EXCEPT !.pc = "decide", !.claims = @ \ {claim}, !.claim = claim]
           /\ UNCHANGED call
  <2>1. /\ wk' \in Pass /\ wk'.pc = "decide" /\ wk'.claim = claim
        /\ wk'.at = wk.at /\ wk'.claims = wk.claims \ {claim}
    BY <1>2, <1>4, <1>8 DEF Pass
  <2>2. call'[Worker].pc = "idle"
    BY <1>1, <1>8 DEF NoCall
  <2>3. TypeOK'
    BY <1>1, <1>8, <2>1 DEF IInv, TypeOK
  <2>4. PhaseInv'
    BY <1>4, <2>1, <2>2 DEF PhaseInv
  <2>5. ClaimInv'
    BY <1>1, <1>6, <2>1 DEF ClaimInv, Due
  <2> QED
    BY <1>1, <1>8, <2>3, <2>4, <2>5, QuietKeepsCalls DEF IInv, CallInv
<1> QED
  BY <1>3, <1>7, <1>8

LEMMA SkipClaimKeeps == ASSUME IInv, SkipClaim PROVE IInv'
<1>1. /\ UNCHANGED <<now, mem, disk, upstream, call, lease, requests, restarts>>
      /\ wk.pc = "next"
  BY DEF SkipClaim
<1>2. wk \in Pass
  BY <1>1 DEF IInv, TypeOK, Sleep
<1>3. PICK claim \in wk.claims : wk' = [wk EXCEPT !.claims = @ \ {claim}]
  BY DEF SkipClaim
<1>4. /\ wk' \in Pass /\ wk'.pc = "next" /\ wk'.at = wk.at
      /\ wk'.claims \subseteq wk.claims
  BY <1>1, <1>2, <1>3 DEF Pass
<1>5. TypeOK'
  BY <1>1, <1>4 DEF IInv, TypeOK
<1>6. PhaseInv'
  BY <1>1, <1>4 DEF IInv, PhaseInv
<1>7. ClaimInv'
  BY <1>1, <1>4 DEF IInv, ClaimInv, Due
<1> QED
  BY <1>1, <1>5, <1>6, <1>7, QuietKeepsCalls DEF IInv, CallInv

(* The steps with a claim in hand: what they may rely on.                  *)
LEMMA InHand ==
    ASSUME IInv, wk.pc \in {"probe", "decide", "release"}
    PROVE  /\ wk \in Pass /\ wk.claim \in Claim /\ Due(wk.claim) /\ wk.at <= now
           /\ now \in Nat /\ now >= MinActivation
           /\ wk.claim.ticket \in Tickets /\ wk.claim.action \in CancelLike
           /\ mem[wk.claim.ticket] \in Ticket /\ WellScheduled(mem[wk.claim.ticket])
           /\ mem \in [Tickets -> Ticket]
<1>1. wk \in Pass /\ wk.claim \in Claim /\ Due(wk.claim) /\ wk.at <= now /\ now \in Nat
  BY DEF IInv, TypeOK, Sleep, PhaseInv, ClaimInv
<1>2. wk.claim.ticket \in Tickets /\ wk.claim.action \in CancelLike /\ wk.claim.next \in Nat
  BY <1>1 DEF Claim
<1>3. wk.at \in Nat
  BY <1>1 DEF Pass
<1>4. now >= MinActivation
  BY <1>1, <1>2, <1>3 DEF Due
<1> QED
  BY <1>1, <1>2, <1>4 DEF IInv, TypeOK, ScheduleWellFormed

LEMMA DoneKeeps ==
    ASSUME IInv, wk.pc \in {"probe", "decide", "release"}, ClaimDone, UNCHANGED now,
           call'[Worker].pc = "commit"
    PROVE  wk' \in Pass /\ PhaseInv' /\ ClaimInv'
<1>1. wk \in Pass /\ wk.at <= now
  BY InHand
<1>2. /\ wk' \in Pass /\ wk'.pc = "next" /\ wk'.at = wk.at /\ wk'.claims = wk.claims
  BY <1>1 DEF ClaimDone, Pass
<1>3. \A claim \in wk.claims : Due(claim)
  BY DEF IInv, ClaimInv
<1> QED
  BY <1>1, <1>2, <1>3 DEF PhaseInv, ClaimInv, Due

LEMMA WorkerProbedKeeps == ASSUME IInv, WorkerProbed PROVE IInv'
<1> DEFINE k == wk.claim.ticket
<1> Worker \in Actors
  BY DEF Actors
<1>1. /\ UNCHANGED <<now, disk, upstream, lease, requests, restarts>>
      /\ wk.pc = "probe" /\ call[Worker].pc = "answered"
  BY DEF WorkerProbed
<1>2. /\ wk \in Pass /\ k \in Tickets /\ mem[k] \in Ticket /\ mem \in [Tickets -> Ticket]
      /\ Due(wk.claim) /\ wk.at <= now /\ call[Worker].ticket = k /\ wk.claim \in Claim
  BY <1>1, InHand DEF IInv, PhaseInv
<1>3. CASE /\ call[Worker].reply = "gone" /\ Store(Worker, k, Reconciled(mem[k])) /\ ClaimDone
  <2>1. upstream[k] \in Closed
    BY <1>1, <1>2, <1>3 DEF IInv, AnswerInv
  <2>2. /\ mem' \in [Tickets -> Ticket]
        /\ call' \in [Actors -> {NoCall} \cup Sent \cup Answered \cup Writing]
        /\ CallInv' /\ call'[Worker].pc = "commit"
    BY <1>1, <1>2, <1>3, <2>1, ReconciledKeeps, StoreKeeps
  <2>3. wk' \in Pass /\ PhaseInv' /\ ClaimInv'
    BY <1>1, <1>3, <2>2, DoneKeeps
  <2>4. TypeOK'
    BY <1>1, <2>2, <2>3 DEF IInv, TypeOK
  <2> QED
    BY <2>2, <2>3, <2>4 DEF IInv, CallInv
<1>4. CASE wk' = [wk EXCEPT !.pc = "decide"] /\ Idle(Worker) /\ UNCHANGED mem
  <2>1. /\ call' \in [Actors -> {NoCall} \cup Sent \cup Answered \cup Writing]
        /\ CallInv' /\ call'[Worker].pc = "idle"
    BY <1>1, <1>4, IdleKeeps
  <2>2. /\ wk' \in Pass /\ wk'.pc = "decide" /\ wk'.claim = wk.claim
        /\ wk'.at = wk.at /\ wk'.claims = wk.claims
    BY <1>2, <1>4 DEF Pass
  <2>3. PhaseInv'
    BY <1>2, <2>1, <2>2 DEF PhaseInv
  <2>4. ClaimInv'
    BY <1>1, <1>2, <2>2 DEF IInv, ClaimInv, Due
  <2>5. TypeOK'
    BY <1>1, <1>4, <2>1, <2>2 DEF IInv, TypeOK
  <2> QED
    BY <2>1, <2>3, <2>4, <2>5 DEF IInv, CallInv
<1> QED
  BY <1>3, <1>4 DEF WorkerProbed

LEMMA WorkerDecideKeeps == ASSUME IInv, WorkerDecide PROVE IInv'
<1> DEFINE k == wk.claim.ticket
<1> Worker \in Actors
  BY DEF Actors
<1>1. UNCHANGED <<now, disk, upstream, lease, requests, restarts>> /\ wk.pc = "decide"
  BY DEF WorkerDecide
<1>2. /\ wk \in Pass /\ k \in Tickets /\ mem[k] \in Ticket /\ mem \in [Tickets -> Ticket]
      /\ Due(wk.claim) /\ wk.at <= now /\ wk.claim \in Claim /\ wk.claim.action \in CancelLike
  BY <1>1, InHand
<1>3. ASSUME NEW r \in Ticket, WellScheduled(r), r.status \notin Closed,
             Store(Worker, k, r), ClaimDone
      PROVE  IInv'
  <2>1. /\ mem' \in [Tickets -> Ticket]
        /\ call' \in [Actors -> {NoCall} \cup Sent \cup Answered \cup Writing]
        /\ CallInv' /\ call'[Worker].pc = "commit"
    BY <1>1, <1>2, <1>3, StoreKeeps
  <2>2. wk' \in Pass /\ PhaseInv' /\ ClaimInv'
    BY <1>1, <1>3, <2>1, DoneKeeps
  <2>3. TypeOK'
    BY <1>1, <2>1, <2>2 DEF IInv, TypeOK
  <2> QED
    BY <2>1, <2>2, <2>3 DEF IInv, CallInv
<1>4. CASE Store(Worker, k, Expired(mem[k], wk.claim)) /\ ClaimDone
  BY <1>2, <1>3, <1>4, GivenUpKeeps
<1>5. CASE Store(Worker, k, LimitReached(mem[k])) /\ ClaimDone
  BY <1>2, <1>3, <1>5, GivenUpKeeps
<1>6. CASE /\ Send(Worker, "release", k, wk.claim.action)
           /\ wk' = [wk EXCEPT !.pc = "release"]
           /\ UNCHANGED mem
  <2>1. wk.claim.action \in ReleaseActions /\ "release" \in Operations
    BY <1>2 DEF CancelLike, ReleaseActions, Operations
  <2>2. /\ call' \in [Actors -> {NoCall} \cup Sent \cup Answered \cup Writing] /\ CallInv'
        /\ call'[Worker].pc = "sent" /\ call'[Worker].op = "release"
        /\ call'[Worker].ticket = k /\ call'[Worker].action = wk.claim.action
    BY <1>1, <1>2, <1>6, <2>1, SendKeeps
  <2>3. /\ wk' \in Pass /\ wk'.pc = "release" /\ wk'.claim = wk.claim
        /\ wk'.at = wk.at /\ wk'.claims = wk.claims
    BY <1>2, <1>6 DEF Pass
  <2>4. PhaseInv'
    BY <1>2, <2>2, <2>3 DEF PhaseInv
  <2>5. ClaimInv'
    BY <1>1, <1>2, <2>3 DEF IInv, ClaimInv, Due
  <2>6. TypeOK'
    BY <1>1, <1>6, <2>2, <2>3 DEF IInv, TypeOK
  <2> QED
    BY <2>2, <2>4, <2>5, <2>6 DEF IInv, CallInv
<1> QED
  BY <1>4, <1>5, <1>6 DEF WorkerDecide

LEMMA WorkerReleasedKeeps == ASSUME IInv, WorkerReleased PROVE IInv'
<1> DEFINE k == wk.claim.ticket
<1> Worker \in Actors
  BY DEF Actors
<1>1. /\ UNCHANGED <<now, disk, upstream, lease, requests, restarts>> /\ ClaimDone
      /\ wk.pc = "release" /\ call[Worker].pc = "answered"
  BY DEF WorkerReleased
<1>2. /\ k \in Tickets /\ mem[k] \in Ticket /\ mem \in [Tickets -> Ticket] /\ wk.claim \in Claim
      /\ WellScheduled(mem[k]) /\ now \in Nat /\ now >= MinActivation
      /\ call[Worker].op = "release"
  BY <1>1, InHand DEF IInv, PhaseInv
<1> DEFINE Kept == /\ mem' \in [Tickets -> Ticket]
                   /\ call' \in [Actors -> {NoCall} \cup Sent \cup Answered \cup Writing]
                   /\ CallInv' /\ call'[Worker].pc = "commit"
<1>3. ASSUME FinishRelease(Worker) PROVE Kept
  BY <1>1, <1>2, <1>3, FinishReleaseKeeps
<1>4. ASSUME Store(Worker, k, RetryLater(mem[k], wk.claim, now)) PROVE Kept
  BY <1>1, <1>2, <1>4, RetryLaterKeeps, StoreKeeps
<1>5. Kept
  BY <1>3, <1>4 DEF WorkerReleased
<1>6. wk' \in Pass /\ PhaseInv' /\ ClaimInv'
  BY <1>1, <1>5, DoneKeeps
<1>7. TypeOK'
  BY <1>1, <1>5, <1>6 DEF IInv, TypeOK
<1> QED
  BY <1>5, <1>6, <1>7 DEF IInv, CallInv

LEMMA UpstreamAnswerKeeps ==
    ASSUME IInv, NEW a \in Actors, UpstreamAnswer(a)
    PROVE  IInv'
<1> DEFINE c == call[a]
           k == c.ticket
<1>1. UNCHANGED <<now, mem, disk, wk, lease, requests, restarts>> /\ c.pc = "sent"
  BY DEF UpstreamAnswer
<1>2. /\ c \in Sent /\ k \in Tickets /\ c.op \in Operations /\ c.action \in ReleaseActions
      /\ c.seen \in Ticket /\ upstream[k] \in Open \cup Closed
      /\ upstream \in [Tickets -> Open \cup Closed]
  BY <1>1, CallTypes DEF IInv, TypeOK
<1>3. PICK o \in Outcomes(c.op, c.action, upstream[k]) :
        /\ upstream' = [upstream EXCEPT ![k] = o[2]]
        /\ call' = [call EXCEPT ![a] =
             [pc |-> "answered", op |-> c.op, ticket |-> k,
              action |-> c.action, seen |-> c.seen, reply |-> o[1]]]
  BY DEF UpstreamAnswer
<1>4. /\ o[1] \in Replies /\ o[2] \in Open \cup Closed
      /\ upstream[k] \in Closed => o[2] \in Closed
      /\ o[1] = "early" => c.action \in CancelLike
      /\ o[1] = "gone" => o[2] \in Closed
      /\ o[1] = "ok" /\ c.op = "release" /\ c.action # "retry" => o[2] \in Closed
  BY <1>2, OutcomesAreRight
<1> DEFINE w == [pc |-> "answered", op |-> c.op, ticket |-> k,
                 action |-> c.action, seen |-> c.seen, reply |-> o[1]]
<1>5. /\ w.pc = "answered" /\ w.op = c.op /\ w.ticket = k /\ w.action = c.action
      /\ w.seen = c.seen /\ w.reply = o[1]
  OBVIOUS
<1>6. w \in Answered
  BY <1>2, <1>4 DEF Answered
<1>7. call' = [call EXCEPT ![a] = w]
  BY <1>3
<1> HIDE DEF w
<1>8. /\ call' \in [Actors -> {NoCall} \cup Sent \cup Answered \cup Writing]
      /\ call'[a] = w /\ \A b \in Actors \ {a} : call'[b] = call[b]
  BY <1>6, <1>7 DEF IInv, TypeOK
<1>9. /\ upstream' \in [Tickets -> Open \cup Closed] /\ upstream'[k] = o[2]
      /\ \A j \in Tickets : upstream[j] \in Closed => upstream'[j] \in Closed
  <2>1. \A j \in Tickets : upstream'[j] = IF j = k THEN o[2] ELSE upstream[j]
    BY <1>2, <1>3
  <2> QED
    BY <1>2, <1>3, <1>4, <2>1
<1>10. TypeOK'
  BY <1>1, <1>8, <1>9 DEF IInv, TypeOK
<1>11. PhaseInv'
  <2>1. Worker \in Actors
    BY DEF Actors
  <2>2. CASE a = Worker
    BY <1>1, <1>5, <1>8, <2>2 DEF IInv, PhaseInv
  <2>3. CASE a # Worker
    BY <1>1, <1>8, <2>1, <2>3 DEF IInv, PhaseInv
  <2> QED
    BY <2>2, <2>3
<1>12. ClaimInv'
  BY <1>1 DEF IInv, ClaimInv, Due
<1>13. AnswerInv'
  <2> SUFFICES ASSUME NEW b \in Actors, call'[b].pc = "answered"
               PROVE  /\ call'[b].reply = "early" => call'[b].action \in CancelLike
                      /\ call'[b].reply = "gone" => upstream'[call'[b].ticket] \in Closed
                      /\ call'[b].reply = "ok" /\ call'[b].op = "release" /\ call'[b].action # "retry"
                           => upstream'[call'[b].ticket] \in Closed
    BY DEF AnswerInv
  <2>1. CASE b = a
    BY <1>4, <1>5, <1>8, <1>9, <2>1
  <2>2. CASE b # a
    <3>1. call'[b] = call[b] /\ call[b].ticket \in Tickets
      BY <1>8, <2>2, CallTypes DEF IInv
    <3> QED
      BY <1>9, <3>1 DEF IInv, AnswerInv
  <2> QED
    BY <2>1, <2>2
<1>14. ScheduleWellFormed'
  <2>1. \A b \in Actors : call'[b].pc \in {"sent", "answered"} => WellScheduled(call'[b].seen)
    BY <1>1, <1>5, <1>8 DEF IInv, ScheduleWellFormed
  <2>2. \A b \in Actors : call'[b].pc = "commit" => WellScheduled(call'[b].rec)
    BY <1>1, <1>5, <1>8 DEF IInv, ScheduleWellFormed
  <2> QED
    BY <1>1, <2>1, <2>2 DEF IInv, ScheduleWellFormed, WellScheduled
<1>15. TerminalIsClosed'
  BY <1>1, <1>9 DEF IInv, TerminalIsClosed
<1>16. CommitInv'
  <2> SUFFICES ASSUME NEW b \in Actors, call'[b].pc = "commit", call'[b].rec.status \in Closed
               PROVE  upstream'[call'[b].ticket] \in Closed
    BY DEF CommitInv
  <2>1. call'[b] = call[b] /\ call[b].ticket \in Tickets
    BY <1>5, <1>8, CallTypes DEF IInv
  <2> QED
    BY <1>9, <2>1 DEF IInv, CommitInv
<1> QED
  BY <1>10, <1>11, <1>12, <1>13, <1>14, <1>15, <1>16 DEF IInv

LEMMA UpstreamMovesKeeps ==
    ASSUME IInv, NEW k \in Tickets, UpstreamMoves(k)
    PROVE  IInv'
<1>1. UNCHANGED <<now, mem, disk, call, wk, lease, requests, restarts>>
  BY DEF UpstreamMoves
<1>2. PICK v \in Open \cup Closed :
        upstream' = [upstream EXCEPT ![k] = v] /\ upstream[k] \in Open
  BY DEF UpstreamMoves, Open, Closed
<1>3. /\ upstream' \in [Tickets -> Open \cup Closed]
      /\ \A j \in Tickets : upstream[j] \in Closed => upstream'[j] \in Closed
  <2>1. upstream \in [Tickets -> Open \cup Closed] /\ upstream[k] \notin Closed
    BY <1>2 DEF IInv, TypeOK, Open, Closed
  <2> QED
    BY <1>2, <2>1
<1>4. \A b \in Actors : call[b].pc \in {"answered", "commit"} => call[b].ticket \in Tickets
  BY CallTypes DEF IInv
<1>5. TypeOK'
  BY <1>1, <1>3 DEF IInv, TypeOK
<1>6. PhaseInv' /\ ClaimInv'
  BY <1>1 DEF IInv, PhaseInv, ClaimInv, Due
<1>7. AnswerInv'
  BY <1>1, <1>3, <1>4 DEF IInv, AnswerInv
<1>8. CommitInv'
  BY <1>1, <1>3, <1>4 DEF IInv, CommitInv
<1>9. ScheduleWellFormed'
  BY <1>1 DEF IInv, ScheduleWellFormed, WellScheduled
<1>10. TerminalIsClosed'
  BY <1>1, <1>3 DEF IInv, TerminalIsClosed
<1> QED
  BY <1>5, <1>6, <1>7, <1>8, <1>9, <1>10 DEF IInv

LEMMA TickKeeps == ASSUME IInv, Tick PROVE IInv'
<1>1. /\ UNCHANGED <<mem, disk, upstream, call, wk, lease, requests, restarts>>
      /\ now' = now + 1 /\ now \in Nat
  BY DEF Tick, IInv, TypeOK
<1>2. TypeOK'
  BY <1>1 DEF IInv, TypeOK
<1>3. PhaseInv'
  BY <1>1 DEF IInv, PhaseInv
<1>4. ClaimInv'
  <2>1. wk.pc # "asleep" => wk.at \in Nat /\ wk.at <= now
    BY DEF IInv, TypeOK, ClaimInv, Sleep, Pass
  <2> QED
    BY <1>1, <2>1 DEF IInv, ClaimInv, Due
<1> QED
  BY <1>1, <1>2, <1>3, <1>4, QuietKeepsCalls DEF IInv, CallInv

LEMMA RestartKeeps == ASSUME IInv, Restart PROVE IInv'
<1>1. /\ UNCHANGED <<now, disk, upstream, lease, requests>> /\ restarts' = restarts + 1
      /\ mem' = disk /\ call' = [a \in Actors |-> NoCall] /\ wk' = Asleep(now)
  BY DEF Restart
<1>2. \A a \in Actors : call'[a].pc = "idle"
  BY <1>1 DEF NoCall
<1>3. wk' \in Sleep /\ wk'.pc = "asleep" /\ call'[Worker].pc = "idle"
  BY <1>1, <1>2 DEF IInv, TypeOK, Asleep, Sleep, Actors
<1>4. TypeOK'
  BY <1>1, <1>3 DEF IInv, TypeOK
<1>5. PhaseInv' /\ ClaimInv'
  BY <1>3 DEF PhaseInv, ClaimInv
<1>6. AnswerInv' /\ CommitInv'
  BY <1>2 DEF AnswerInv, CommitInv
<1>7. ScheduleWellFormed'
  BY <1>1, <1>2 DEF IInv, ScheduleWellFormed, WellScheduled
<1>8. TerminalIsClosed'
  BY <1>1 DEF IInv, TerminalIsClosed
<1> QED
  BY <1>4, <1>5, <1>6, <1>7, <1>8 DEF IInv

LEMMA NextIInv == IInv /\ [Next]_vars => IInv'
<1> SUFFICES ASSUME IInv, [Next]_vars PROVE IInv'
  OBVIOUS
<1>1. ASSUME NEW c \in Clients, Begin(c) PROVE IInv'
  BY <1>1, BeginKeeps
<1>2. ASSUME NEW c \in Clients, ClientStep(c) PROVE IInv'
  BY <1>2, ClientStepKeeps
<1>3. CASE LoopStep
  BY <1>3, BeginPassKeeps, EndPassKeeps, NextClaimKeeps, SkipClaimKeeps,
     WorkerProbedKeeps, WorkerDecideKeeps, WorkerReleasedKeeps DEF LoopStep
<1>4. ASSUME NEW a \in Actors, UpstreamAnswer(a) PROVE IInv'
  BY <1>4, UpstreamAnswerKeeps
<1>5. ASSUME NEW a \in Actors, Commit(a) PROVE IInv'
  BY <1>5, CommitKeeps
<1>6. ASSUME NEW k \in Tickets, UpstreamMoves(k) PROVE IInv'
  BY <1>6, UpstreamMovesKeeps
<1>7. CASE Tick
  BY <1>7, TickKeeps
<1>8. CASE Restart
  BY <1>8, RestartKeeps
<1>9. CASE UNCHANGED vars
  BY <1>9, QuietKeepsCalls DEF vars, IInv, CallInv, TypeOK, PhaseInv, ClaimInv, Due
<1> QED
  BY <1>1, <1>2, <1>3, <1>4, <1>5, <1>6, <1>7, <1>8, <1>9 DEF Next

LEMMA Inductive == Spec => []IInv
BY InitIInv, NextIInv, PTL DEF Spec

-----------------------------------------------------------------------------
(* Every variable keeps its type, whatever the interleaving.               *)
THEOREM TypesHold == Spec => []TypeOK
<1>1. IInv => TypeOK
  BY DEF IInv
<1> QED
  BY <1>1, Inductive, PTL

(* A ticket shown finished or cancelled is closed at the provider          *)
(* (poll_code, release_code_runtime_effect, the auto-release loop).        *)
THEOREM TerminalTicketsAreClosed == Spec => []TerminalIsClosed
<1>1. IInv => TerminalIsClosed
  BY DEF IInv
<1> QED
  BY <1>1, Inductive, PTL

(* Every copy of a ticket keeps the schedule its first denial gave it      *)
(* (release_code_runtime_effect).                                          *)
THEOREM SchedulesStayWellFormed == Spec => []ScheduleWellFormed
<1>1. IInv => ScheduleWellFormed
  BY DEF IInv
<1> QED
  BY <1>1, Inductive, PTL

(* No automatic cancel is sent before the cooldown is over, since claims   *)
(* are due and no copy of a record is ever due earlier                     *)
(* (maybe_process_pending_releases).                                       *)
THEOREM CooldownIsRespected == Spec => []AutoCancelWaitsForCooldown
<1>1. IInv => AutoCancelWaitsForCooldown
  <2> SUFFICES ASSUME IInv, call[Worker].pc = "sent", call[Worker].op = "release"
               PROVE  now >= MinActivation
    BY DEF AutoCancelWaitsForCooldown
  <2>1. wk.pc \in {"asleep", "next", "probe", "decide", "release"}
    BY DEF IInv, TypeOK, Sleep, Pass
  <2>2. wk.pc = "release"
    BY <2>1 DEF IInv, PhaseInv
  <2> QED
    BY <2>2, InHand
<1> QED
  BY <1>1, Inductive, PTL
-----------------------------------------------------------------------------
(* One request or pass at a time, and no write that fails.                 *)
Serial == ~Overlap /\ ~DiskFails

(* Then only one actor is at work, ...                                     *)
Alone ==
    /\ \A a, b \in Actors : call[a].pc # "idle" /\ call[b].pc # "idle" => a = b
    /\ wk.pc # "asleep" => \A c \in Clients : call[c].pc = "idle"
    /\ wk.pc = "asleep" => call[Worker].pc = "idle"

(* ... the database agrees with memory, but for a commit under way, ...    *)
Saved ==
    /\ \A k \in Tickets :
          \/ Agree(disk[k], mem[k])
          \/ \E a \in Actors : call[a].pc = "commit" /\ call[a].ticket = k
    /\ \A a \in Actors : call[a].pc = "commit" => mem[call[a].ticket] = call[a].rec

(* ... what a pass has claimed is still scheduled, each ticket once, ...   *)
Live ==
    /\ wk.pc # "asleep" =>
          /\ \A x \in wk.claims : mem[x.ticket].action # None
          /\ \A x, y \in wk.claims : x.ticket = y.ticket => x = y
    /\ wk.pc \in {"probe", "decide", "release"} =>
          /\ mem[wk.claim.ticket].action # None
          /\ \A x \in wk.claims : x.ticket # wk.claim.ticket

(* ... and so nothing pending loses its schedule.                          *)
Scheduled(r) == r.status = "cancel_pending" => r.action # None
AllScheduled == \A k \in Tickets : Scheduled(mem[k]) /\ Scheduled(disk[k])

SInv == Alone /\ Saved /\ Live /\ AllScheduled

LEMMA InitSInv == Init => SInv
<1> SUFFICES ASSUME Init PROVE SInv
  OBVIOUS
<1>1. \A a \in Actors : call[a].pc = "idle"
  BY DEF Init, NoCall
<1>2. Worker \in Actors /\ Clients \subseteq Actors
  BY DEF Actors
<1>3. wk.pc = "asleep"
  BY DEF Init, Asleep
<1>4. \A k \in Tickets : mem[k].status = "waiting_code" /\ disk[k] = mem[k]
  BY DEF Init, Fresh
<1>5. Alone /\ Live
  BY <1>1, <1>2, <1>3 DEF Alone, Live
<1>6. Saved
  BY <1>1, <1>4 DEF Saved, Agree
<1>7. AllScheduled
  BY <1>4 DEF AllScheduled, Scheduled
<1> QED BY <1>5, <1>6, <1>7 DEF SInv

-----------------------------------------------------------------------------
(* The actor at work changes a ticket, ...                                 *)
LEMMA StoreSaves ==
    ASSUME IInv, SInv, NEW a \in Actors, NEW k \in Tickets, NEW r, Scheduled(r),
           Store(a, k, r), UNCHANGED disk, \A b \in Actors : call[b].pc # "commit"
    PROVE  /\ Saved' /\ AllScheduled'
           /\ \A j \in Tickets \ {k} : mem'[j] = mem[j]
           /\ call'[a].pc = "commit"
           /\ \A b \in Actors \ {a} : call'[b] = call[b]
<1> DEFINE w == [pc |-> "commit", ticket |-> k, rec |-> r]
<1>1. mem \in [Tickets -> Ticket] /\ call \in [Actors -> {NoCall} \cup Sent \cup Answered \cup Writing]
  BY DEF IInv, TypeOK
<1>2. call' = [call EXCEPT ![a] = w] /\ mem' = [mem EXCEPT ![k] = r]
  BY DEF Store
<1>3. w.pc = "commit" /\ w.ticket = k /\ w.rec = r
  OBVIOUS
<1> HIDE DEF w
<1>4. call'[a] = w /\ \A b \in Actors \ {a} : call'[b] = call[b]
  BY <1>1, <1>2
<1>5. mem'[k] = r /\ \A j \in Tickets \ {k} : mem'[j] = mem[j]
  BY <1>1, <1>2
<1>6. Saved'
  BY <1>3, <1>4, <1>5 DEF SInv, Saved, Agree
<1>7. AllScheduled'
  BY <1>5 DEF SInv, AllScheduled, Scheduled
<1> QED BY <1>3, <1>4, <1>5, <1>6, <1>7

(* ... or changes it and writes nothing, ...                               *)
LEMMA DropSaves ==
    ASSUME IInv, SInv, NEW a \in Actors, NEW k \in Tickets,
           mem' = [mem EXCEPT ![k] = [mem[k] EXCEPT !.retryable = FALSE]], UNCHANGED disk,
           \A b \in Actors : call[b].pc # "commit",
           \A b \in Actors \ {a} : call'[b] = call[b], call'[a].pc # "commit"
    PROVE  Saved' /\ AllScheduled'
<1> DEFINE r == [mem[k] EXCEPT !.retryable = FALSE]
<1>1. mem \in [Tickets -> Ticket] /\ disk \in [Tickets -> Ticket]
  BY DEF IInv, TypeOK
<1>2. mem'[k] = r /\ \A j \in Tickets \ {k} : mem'[j] = mem[j]
  BY <1>1
<1>3. \A j \in Tickets : Agree(disk[j], mem[j])
  BY DEF SInv, Saved
<1>4. Agree(disk[k], r)
  <2>1. mem[k] \in Ticket /\ disk[k] \in Ticket
    BY <1>1
  <2>2. mem[k] = r \/ mem[k] = [r EXCEPT !.retryable = TRUE]
    BY <2>1 DEF Ticket
  <2>3. [mem[k] EXCEPT !.retryable = TRUE] = [r EXCEPT !.retryable = TRUE]
    BY <2>1 DEF Ticket
  <2> QED BY <1>3, <2>2, <2>3 DEF Agree
<1>5. Scheduled(r)
  <2>1. r.status = mem[k].status /\ r.action = mem[k].action
    BY <1>1 DEF Ticket
  <2> QED BY <2>1 DEF SInv, AllScheduled, Scheduled
<1> HIDE DEF r
<1>6. Saved'
  BY <1>2, <1>3, <1>4 DEF Saved, Agree
<1>7. AllScheduled'
  BY <1>2, <1>5 DEF SInv, AllScheduled, Scheduled
<1> QED BY <1>6, <1>7

(* ... or only moves on.                                                   *)
LEMMA MoveSaves ==
    ASSUME SInv, NEW a \in Actors, UNCHANGED <<mem, disk>>,
           \A b \in Actors \ {a} : call'[b] = call[b],
           call[a].pc # "commit", call'[a].pc # "commit"
    PROVE  Saved' /\ AllScheduled'
<1>1. \A b \in Actors : call'[b].pc = "commit" => call'[b] = call[b]
  OBVIOUS
<1>2. (\A b \in Actors : call'[b].pc # "commit") => \A b \in Actors : call[b].pc # "commit"
  OBVIOUS
<1> QED BY <1>1, <1>2 DEF SInv, Saved, AllScheduled, Scheduled, Agree

(* How an actor's call moves, for the steps that change no ticket.         *)
LEMMA CallMoves ==
    ASSUME IInv, NEW a \in Actors
    PROVE  /\ Idle(a) => call'[a].pc = "idle" /\ \A b \in Actors \ {a} : call'[b] = call[b]
           /\ \A op, k, action : Send(a, op, k, action) =>
                 call'[a].pc = "sent" /\ \A b \in Actors \ {a} : call'[b] = call[b]
<1>1. call \in [Actors -> {NoCall} \cup Sent \cup Answered \cup Writing]
  BY DEF IInv, TypeOK
<1>2. ASSUME Idle(a) PROVE call'[a].pc = "idle" /\ \A b \in Actors \ {a} : call'[b] = call[b]
  BY <1>1, <1>2 DEF Idle, NoCall
<1>3. ASSUME NEW op, NEW k, NEW action, Send(a, op, k, action)
      PROVE  call'[a].pc = "sent" /\ \A b \in Actors \ {a} : call'[b] = call[b]
  <2> DEFINE w == [pc |-> "sent", op |-> op, ticket |-> k, action |-> action, seen |-> mem[k]]
  <2>1. call' = [call EXCEPT ![a] = w] /\ w.pc = "sent"
    BY <1>3 DEF Send
  <2> HIDE DEF w
  <2> QED BY <1>1, <2>1
<1> QED BY <1>2, <1>3

(* A client is at work: the loop sleeps, and everyone else is idle.        *)
LEMMA ClientAtWork ==
    ASSUME SInv, NEW c \in Clients, call[c].pc # "idle"
    PROVE  wk.pc = "asleep" /\ \A b \in Actors \ {c} : call[b].pc = "idle"
  BY DEF SInv, Alone, Actors

LEMMA ClientAlone ==
    ASSUME NEW c \in Clients, wk.pc = "asleep", UNCHANGED wk,
           \A b \in Actors \ {c} : call[b].pc = "idle" /\ call'[b] = call[b]
    PROVE  Alone' /\ Live'
<1>1. Worker \in Actors \ {c} /\ Clients \subseteq Actors
  BY DEF Actors
<1> QED BY <1>1 DEF Alone, Live

LEMMA WorkerAlone ==
    ASSUME NEW a \in Actors, a = Worker,
           \A b \in Actors \ {a} : call[b].pc = "idle" /\ call'[b] = call[b],
           wk'.pc = "asleep" => call'[a].pc = "idle"
    PROVE  Alone'
<1>1. Clients \subseteq Actors \ {a}
  BY DEF Actors
<1> QED BY <1>1 DEF Alone

(* No change to a record leaves it pending without a schedule.             *)
LEMMA ChangesAreScheduled ==
    ASSUME NEW r \in Ticket, Scheduled(r)
    PROVE  /\ \A reply \in Replies : Scheduled(Polled(r, reply))
           /\ \A a \in ReleaseActions : Scheduled(Released(r, a))
           /\ \A claim : Scheduled(Expired(r, claim))
           /\ Scheduled(LimitReached(r)) /\ Scheduled(Reconciled(r)) /\ Scheduled(Reacquired(r))
           /\ Scheduled([r EXCEPT !.retryable = FALSE])
<1>1. \A reply \in Replies : Scheduled(Polled(r, reply))
  BY DEF Polled, PollStatus, Ticket, Scheduled
<1>2. \A a \in ReleaseActions : Scheduled(Released(r, a))
  BY DEF Released, ReleaseStatus, Unscheduled, ReleaseActions, CancelLike, Ticket, Scheduled
<1>3. ASSUME NEW claim PROVE Scheduled(Expired(r, claim))
  <2> DEFINE n == claim.count
  <2>1. Expired(r, claim) = [Unscheduled(r) EXCEPT !.status = "waiting_code", !.count = n]
    BY DEF Expired
  <2> HIDE DEF n
  <2> QED BY <2>1 DEF Unscheduled, Ticket, Scheduled
<1>4. Scheduled(LimitReached(r)) /\ Scheduled(Reconciled(r)) /\ Scheduled(Reacquired(r))
  BY DEF LimitReached, Reconciled, Reacquired, Unscheduled, Ticket, Scheduled
<1>5. Scheduled([r EXCEPT !.retryable = FALSE])
  BY DEF Ticket, Scheduled
<1> QED BY <1>1, <1>2, <1>3, <1>4, <1>5

LEMMA DeferredIsScheduled ==
    ASSUME NEW r \in Ticket, NEW seen \in Ticket, NEW a \in CancelLike, NEW t \in Nat
    PROVE  Scheduled(Deferred(r, seen, a, t))
<1> DEFINE next  == IF Retrying(seen, t) THEN Later(t, 1) ELSE AutoReleaseAt(seen)
           count == IF Retrying(seen, t) THEN seen.count + 1 ELSE seen.count
           auto  == AutoReleaseAt(seen)
           dead  == RetryDeadline(seen, t)
<1>1. Deferred(r, seen, a, t) =
         [r EXCEPT !.status = "cancel_pending", !.action = a, !.auto = auto, !.next = next,
                   !.deadline = dead, !.count = count, !.retryable = FALSE]
  BY DEF Deferred
<1> HIDE DEF next, count, auto, dead
<1>2. Deferred(r, seen, a, t).action = a
  BY <1>1 DEF Ticket
<1>3. a # None
  BY DEF CancelLike, ReleaseActions
<1> QED BY <1>2, <1>3 DEF Scheduled

LEMMA RetryLaterIsScheduled ==
    ASSUME NEW r \in Ticket, r.action # None, NEW claim, NEW t
    PROVE  Scheduled(RetryLater(r, claim, t))
<1> DEFINE next == Later(t, 1)
           n    == claim.count + 1
<1>1. RetryLater(r, claim, t) =
         [r EXCEPT !.status = "cancel_pending", !.next = next, !.count = n]
  BY DEF RetryLater
<1> HIDE DEF next, n
<1>2. RetryLater(r, claim, t).action = r.action
  BY <1>1 DEF Ticket
<1> QED BY <1>2 DEF Scheduled

(* What an accepted or a deferred release leaves in the ticket.            *)
LEMMA FinishReleaseStores ==
    ASSUME IInv, SInv, NEW a \in Actors, call[a].pc = "answered", FinishRelease(a)
    PROVE  \E r : Scheduled(r) /\ Store(a, call[a].ticket, r)
<1> DEFINE k == call[a].ticket
<1>1. /\ k \in Tickets /\ mem[k] \in Ticket /\ now \in Nat /\ Scheduled(mem[k])
      /\ call[a].action \in ReleaseActions /\ call[a].seen \in Ticket
  BY CallTypes DEF IInv, TypeOK, SInv, AllScheduled
<1>2. CASE call[a].reply = "ok" /\ Store(a, k, Released(mem[k], call[a].action))
  BY <1>1, <1>2, ChangesAreScheduled
<1>3. CASE /\ call[a].reply = "early"
           /\ Store(a, k, Deferred(mem[k], call[a].seen, call[a].action, now))
  <2>1. call[a].action \in CancelLike
    BY <1>3 DEF IInv, AnswerInv
  <2> QED BY <1>1, <1>3, <2>1, DeferredIsScheduled
<1> QED BY <1>2, <1>3 DEF FinishRelease

-----------------------------------------------------------------------------
LEMMA BeginSInv ==
    ASSUME Serial, IInv, SInv, NEW c \in Clients, Begin(c) PROVE SInv'
<1>1. c \in Actors /\ Worker \in Actors \ {c} /\ NoCall.pc = "idle"
  BY DEF Actors, NoCall
<1>2. wk.pc = "asleep" /\ \A b \in Actors : call[b].pc = "idle"
  BY <1>1 DEF Serial, Begin, Quiet
<1>3. UNCHANGED <<mem, disk, wk>> /\ \E op, k, action : Send(c, op, k, action)
  BY DEF Begin
<1>4. call'[c].pc = "sent" /\ \A b \in Actors \ {c} : call'[b] = call[b]
  BY <1>1, <1>3, CallMoves
<1>5. Saved' /\ AllScheduled'
  BY <1>1, <1>2, <1>3, <1>4, MoveSaves
<1>6. Alone' /\ Live'
  BY <1>2, <1>3, <1>4, ClientAlone
<1> QED BY <1>5, <1>6 DEF SInv

LEMMA ClientStepSInv ==
    ASSUME IInv, SInv, NEW c \in Clients, ClientStep(c) PROVE SInv'
<1> DEFINE k == call[c].ticket
<1>1. c \in Actors /\ call[c].pc = "answered" /\ UNCHANGED <<disk, wk>>
  BY DEF Actors, ClientStep, FinishPoll, FinishClientRelease, FinishReacquire
<1>2. wk.pc = "asleep" /\ \A b \in Actors \ {c} : call[b].pc = "idle"
  BY <1>1, ClientAtWork
<1>3. k \in Tickets /\ mem[k] \in Ticket /\ Scheduled(mem[k]) /\ call[c].reply \in Replies
  BY <1>1, CallTypes DEF IInv, TypeOK, SInv, AllScheduled
<1>4. \/ Idle(c) /\ UNCHANGED mem
      \/ \E r : Scheduled(r) /\ Store(c, k, r)
      \/ mem' = [mem EXCEPT ![k] = [mem[k] EXCEPT !.retryable = FALSE]] /\ Idle(c)
  <2>1. CASE FinishPoll(c)
    BY <1>3, <2>1, ChangesAreScheduled DEF FinishPoll
  <2>2. CASE FinishClientRelease(c)
    BY <1>1, <2>2, FinishReleaseStores DEF FinishClientRelease
  <2>3. CASE FinishReacquire(c)
    BY <1>3, <2>3, ChangesAreScheduled DEF FinishReacquire
  <2> QED BY <2>1, <2>2, <2>3 DEF ClientStep
<1> DEFINE Others == \A b \in Actors \ {c} : call'[b] = call[b]
<1>5. Saved' /\ AllScheduled' /\ Others
  <2>1. CASE Idle(c) /\ UNCHANGED mem
    <3>1. call'[c].pc = "idle" /\ Others
      BY <1>1, <2>1, CallMoves
    <3> QED BY <1>1, <2>1, <3>1, MoveSaves
  <2>2. CASE \E r : Scheduled(r) /\ Store(c, k, r)
    <3>1. \A b \in Actors : call[b].pc # "commit"
      BY <1>1, <1>2
    <3> QED BY <1>1, <1>3, <2>2, <3>1, StoreSaves
  <2>3. CASE mem' = [mem EXCEPT ![k] = [mem[k] EXCEPT !.retryable = FALSE]] /\ Idle(c)
    <3>1. call'[c].pc = "idle" /\ Others
      BY <1>1, <2>3, CallMoves
    <3>2. \A b \in Actors : call[b].pc # "commit"
      BY <1>1, <1>2
    <3> QED BY <1>1, <1>3, <2>3, <3>1, <3>2, DropSaves
  <2> QED BY <1>4, <2>1, <2>2, <2>3
<1>6. Alone' /\ Live'
  BY <1>1, <1>2, <1>5, ClientAlone
<1> QED BY <1>5, <1>6 DEF SInv

-----------------------------------------------------------------------------
(* A pass begins when memory and database agree.                           *)
LEMMA BeginPassSInv ==
    ASSUME Serial, IInv, SInv, BeginPass PROVE SInv'
<1> DEFINE p == [pc |-> "next", at |-> now, claims |-> DueClaims(disk, now), claim |-> None]
<1>1. UNCHANGED <<mem, disk, call>> /\ wk' = p
  BY DEF BeginPass
<1>2. p.pc = "next" /\ p.claims = DueClaims(disk, now)
  OBVIOUS
<1> HIDE DEF p
<1>3. NoCall.pc = "idle" /\ Clients \subseteq Actors
  BY DEF NoCall, Actors
<1>4. \A b \in Actors : call[b].pc = "idle"
  BY <1>3 DEF BeginPass, Serial, Quiet
<1>5. \A j \in Tickets : disk[j].action = mem[j].action
  <2>1. \A j \in Tickets : Agree(disk[j], mem[j]) /\ mem[j] \in Ticket
    BY <1>4 DEF SInv, Saved, IInv, TypeOK
  <2> QED BY <2>1 DEF Agree, Ticket
<1>6. \A x \in DueClaims(disk, now) :
        \E j \in Tickets : x = ClaimOf(j, disk[j]) /\ disk[j].action # None
  BY DEF DueClaims, Claimable
<1>7. \A x \in DueClaims(disk, now) : mem[x.ticket].action # None
  BY <1>5, <1>6 DEF ClaimOf
<1>8. \A x, y \in DueClaims(disk, now) : x.ticket = y.ticket => x = y
  BY <1>6 DEF ClaimOf
<1>9. Alone' /\ Live'
  BY <1>1, <1>2, <1>3, <1>4, <1>7, <1>8 DEF Alone, Live
<1>10. Saved' /\ AllScheduled'
  BY <1>1 DEF SInv, Saved, AllScheduled, Scheduled, Agree
<1> QED BY <1>9, <1>10 DEF SInv

LEMMA EndPassSInv ==
    ASSUME IInv, SInv, EndPass PROVE SInv'
<1>1. /\ UNCHANGED <<mem, disk, call>> /\ wk' = Asleep(Later(now, 1))
      /\ wk.pc = "next" /\ call[Worker] = NoCall
  BY DEF EndPass
<1>2. wk'.pc = "asleep" /\ call[Worker].pc = "idle"
  BY <1>1 DEF Asleep, NoCall
<1>3. Alone' /\ Live'
  BY <1>1, <1>2 DEF SInv, Alone, Live
<1>4. Saved' /\ AllScheduled'
  BY <1>1 DEF SInv, Saved, AllScheduled, Scheduled, Agree
<1> QED BY <1>3, <1>4 DEF SInv

LEMMA NextClaimSInv ==
    ASSUME IInv, SInv, NextClaim PROVE SInv'
<1>0. Worker \in Actors
  BY DEF Actors
<1>1. /\ UNCHANGED <<mem, disk>> /\ wk.pc = "next"
      /\ call[Worker].pc = "idle" /\ \A b \in Actors \ {Worker} : call[b].pc = "idle"
  BY DEF NextClaim, NoCall, SInv, Alone, Actors
<1>2. wk \in Pass
  BY <1>1 DEF IInv, TypeOK, Sleep
<1>3. PICK claim \in wk.claims :
        \/ /\ wk' = [wk EXCEPT !.pc = "probe", !.claims = @ \ {claim}, !.claim = claim]
           /\ Send(Worker, "poll", claim.ticket, claim.action)
        \/ /\ wk' = [wk EXCEPT !.pc = "decide", !.claims = @ \ {claim}, !.claim = claim]
           /\ UNCHANGED call
  BY DEF NextClaim
<1>4. wk'.pc \in {"probe", "decide"} /\ wk'.claims = wk.claims \ {claim} /\ wk'.claim = claim
  BY <1>2, <1>3 DEF Pass
<1>5. call'[Worker].pc \in {"idle", "sent"} /\ \A b \in Actors \ {Worker} : call'[b] = call[b]
  BY <1>0, <1>1, <1>3, CallMoves
<1>6. Saved' /\ AllScheduled'
  BY <1>0, <1>1, <1>5, MoveSaves
<1>7. Alone'
  BY <1>0, <1>1, <1>4, <1>5, WorkerAlone
<1>8. Live'
  BY <1>1, <1>4 DEF SInv, Live
<1> QED BY <1>6, <1>7, <1>8 DEF SInv

LEMMA SkipClaimSInv ==
    ASSUME IInv, SInv, SkipClaim PROVE SInv'
<1>1. UNCHANGED <<mem, disk, call>> /\ wk.pc = "next"
  BY DEF SkipClaim
<1>2. wk \in Pass
  BY <1>1 DEF IInv, TypeOK, Sleep
<1>3. PICK claim \in wk.claims : wk' = [wk EXCEPT !.claims = @ \ {claim}]
  BY DEF SkipClaim
<1>4. wk'.pc = "next" /\ wk'.claims \subseteq wk.claims
  BY <1>1, <1>2, <1>3 DEF Pass
<1>5. Alone' /\ Live'
  BY <1>1, <1>4 DEF SInv, Alone, Live
<1>6. Saved' /\ AllScheduled'
  BY <1>1 DEF SInv, Saved, AllScheduled, Scheduled, Agree
<1> QED BY <1>5, <1>6 DEF SInv

(* The loop is done with its claim and has stored the ticket.              *)
LEMMA DoneSInv ==
    ASSUME IInv, SInv, wk.pc \in {"probe", "decide", "release"}, ClaimDone, UNCHANGED disk,
           call[Worker].pc # "commit", NEW r, Scheduled(r), Store(Worker, wk.claim.ticket, r)
    PROVE  SInv'
<1> DEFINE k == wk.claim.ticket
<1>1. Worker \in Actors /\ \A b \in Actors \ {Worker} : call[b].pc = "idle"
  BY DEF SInv, Alone, Actors
<1>2. wk \in Pass /\ k \in Tickets
  BY InHand
<1>3. wk'.pc = "next" /\ wk'.claims = wk.claims
  BY <1>2 DEF ClaimDone, Pass
<1>4. /\ Saved' /\ AllScheduled'
      /\ \A j \in Tickets \ {k} : mem'[j] = mem[j]
      /\ \A b \in Actors \ {Worker} : call'[b] = call[b]
  BY <1>1, <1>2, StoreSaves
<1>5. Alone'
  BY <1>1, <1>3, <1>4, WorkerAlone
<1>6. Live'
  <2>1. \A x \in wk.claims : x.ticket \in Tickets
    BY <1>2 DEF Pass, Claim
  <2> QED BY <1>3, <1>4, <2>1 DEF SInv, Live
<1> QED BY <1>4, <1>5, <1>6 DEF SInv

(* The loop goes on with its claim.                                        *)
LEMMA GoOnSInv ==
    ASSUME IInv, SInv, NEW q \in {"decide", "release"}, wk.pc \in {"probe", "decide"},
           wk' = [wk EXCEPT !.pc = q], UNCHANGED <<mem, disk>>, call[Worker].pc # "commit",
           call'[Worker].pc # "commit", \A b \in Actors \ {Worker} : call'[b] = call[b]
    PROVE  SInv'
<1>1. Worker \in Actors /\ \A b \in Actors \ {Worker} : call[b].pc = "idle"
  BY DEF SInv, Alone, Actors
<1>2. wk \in Pass
  BY InHand
<1>3. wk'.pc = q /\ wk'.claims = wk.claims /\ wk'.claim = wk.claim
  BY <1>2 DEF Pass
<1>4. Saved' /\ AllScheduled'
  BY <1>1, MoveSaves
<1>5. Alone'
  BY <1>1, <1>3, WorkerAlone
<1>6. Live'
  BY <1>3 DEF SInv, Live
<1> QED BY <1>4, <1>5, <1>6 DEF SInv

LEMMA WorkerSInv ==
    ASSUME IInv, SInv, WorkerProbed \/ WorkerDecide \/ WorkerReleased PROVE SInv'
<1> DEFINE k == wk.claim.ticket
<1>0. Worker \in Actors /\ UNCHANGED disk /\ wk.pc \in {"probe", "decide", "release"}
  BY DEF Actors, WorkerProbed, WorkerDecide, WorkerReleased
<1>1. k \in Tickets /\ mem[k] \in Ticket /\ Scheduled(mem[k]) /\ mem[k].action # None
  BY <1>0, InHand DEF SInv, AllScheduled, Live
<1>2. CASE WorkerProbed
  <2>1. wk.pc = "probe" /\ call[Worker].pc = "answered"
    BY <1>2 DEF WorkerProbed
  <2>2. CASE Store(Worker, k, Reconciled(mem[k])) /\ ClaimDone
    BY <1>0, <1>1, <2>1, <2>2, ChangesAreScheduled, DoneSInv
  <2>3. CASE wk' = [wk EXCEPT !.pc = "decide"] /\ Idle(Worker) /\ UNCHANGED mem
    BY <1>0, <2>1, <2>3, CallMoves, GoOnSInv
  <2> QED BY <1>2, <2>2, <2>3 DEF WorkerProbed
<1>3. CASE WorkerDecide
  <2>1. wk.pc = "decide" /\ call[Worker].pc = "idle"
    BY <1>3 DEF WorkerDecide, IInv, PhaseInv
  <2>2. CASE Store(Worker, k, Expired(mem[k], wk.claim)) /\ ClaimDone
    BY <1>0, <1>1, <2>1, <2>2, ChangesAreScheduled, DoneSInv
  <2>3. CASE Store(Worker, k, LimitReached(mem[k])) /\ ClaimDone
    BY <1>0, <1>1, <2>1, <2>3, ChangesAreScheduled, DoneSInv
  <2>4. CASE /\ Send(Worker, "release", k, wk.claim.action)
             /\ wk' = [wk EXCEPT !.pc = "release"] /\ UNCHANGED mem
    BY <1>0, <2>1, <2>4, CallMoves, GoOnSInv
  <2> QED BY <1>3, <2>2, <2>3, <2>4 DEF WorkerDecide
<1>4. CASE WorkerReleased
  <2>1. /\ wk.pc = "release" /\ call[Worker].pc = "answered" /\ ClaimDone
        /\ call[Worker].ticket = k
    BY <1>4 DEF WorkerReleased, IInv, PhaseInv
  <2>2. \E r : Scheduled(r) /\ Store(Worker, k, r)
    BY <1>0, <1>1, <1>4, <2>1, FinishReleaseStores, RetryLaterIsScheduled DEF WorkerReleased
  <2> QED BY <1>0, <2>1, <2>2, DoneSInv
<1> QED BY <1>2, <1>3, <1>4

-----------------------------------------------------------------------------
LEMMA UpstreamAnswerSInv ==
    ASSUME IInv, SInv, NEW a \in Actors, UpstreamAnswer(a) PROVE SInv'
<1>1. UNCHANGED <<mem, disk, wk>> /\ call[a].pc = "sent"
  BY DEF UpstreamAnswer
<1>2. call'[a].pc = "answered" /\ \A b \in Actors \ {a} : call'[b] = call[b]
  <2>1. PICK o : call' = [call EXCEPT ![a] =
              [pc |-> "answered", op |-> call[a].op, ticket |-> call[a].ticket,
               action |-> call[a].action, seen |-> call[a].seen, reply |-> o[1]]]
    BY DEF UpstreamAnswer
  <2> DEFINE w == [pc |-> "answered", op |-> call[a].op, ticket |-> call[a].ticket,
                   action |-> call[a].action, seen |-> call[a].seen, reply |-> o[1]]
  <2>2. call' = [call EXCEPT ![a] = w] /\ w.pc = "answered"
    BY <2>1
  <2> HIDE DEF w
  <2> QED BY <2>2 DEF IInv, TypeOK
<1>3. Saved' /\ AllScheduled'
  BY <1>1, <1>2, MoveSaves
<1>4. \A b \in Actors : call'[b].pc # "idle" <=> call[b].pc # "idle"
  BY <1>1, <1>2
<1>5. Alone' /\ Live'
  BY <1>1, <1>4 DEF SInv, Alone, Live, Actors
<1> QED BY <1>3, <1>5 DEF SInv

LEMMA CommitSInv ==
    ASSUME Serial, IInv, SInv, NEW a \in Actors, Commit(a) PROVE SInv'
<1>1. /\ UNCHANGED <<mem, wk>> /\ call[a].pc = "commit" /\ Idle(a)
      /\ disk' = [disk EXCEPT ![call[a].ticket] = call[a].rec]
  BY DEF Commit, Serial
<1>2. \A k \in Tickets : Agree(disk'[k], mem[k])
  <2>1. disk \in [Tickets -> Ticket] /\ \A b \in Actors \ {a} : call[b].pc # "commit"
    BY <1>1 DEF IInv, TypeOK, SInv, Alone
  <2>2. mem[call[a].ticket] = call[a].rec
    BY <1>1 DEF SInv, Saved
  <2> QED BY <1>1, <2>1, <2>2 DEF SInv, Saved, Agree
<1>3. call'[a].pc = "idle" /\ \A b \in Actors \ {a} : call'[b] = call[b]
  BY <1>1, CallMoves
<1>4. \A b \in Actors : call'[b].pc = "idle"
  BY <1>1, <1>3 DEF SInv, Alone
<1>5. Alone' /\ Live'
  BY <1>1, <1>4 DEF SInv, Alone, Live, Actors
<1>6. Saved'
  BY <1>1, <1>2, <1>4 DEF Saved, Agree
<1>7. AllScheduled'
  <2>1. disk \in [Tickets -> Ticket] /\ mem[call[a].ticket] = call[a].rec
    BY <1>1 DEF IInv, TypeOK, SInv, Saved
  <2>2. \A k \in Tickets : disk'[k] = disk[k] \/ disk'[k] = mem[k]
    BY <1>1, <2>1
  <2> QED BY <1>1, <2>2 DEF SInv, AllScheduled, Scheduled
<1> QED BY <1>5, <1>6, <1>7 DEF SInv

LEMMA RestartSInv ==
    ASSUME IInv, SInv, Restart PROVE SInv'
<1>1. mem' = disk /\ disk' = disk /\ wk' = Asleep(now) /\ call' = [a \in Actors |-> NoCall]
  BY DEF Restart
<1>2. wk'.pc = "asleep" /\ \A a \in Actors : call'[a].pc = "idle"
  BY <1>1 DEF Asleep, NoCall
<1>3. Alone' /\ Live' /\ Saved' /\ AllScheduled'
  BY <1>1, <1>2 DEF Alone, Live, Saved, SInv, AllScheduled, Scheduled, Actors, Agree
<1> QED BY <1>3 DEF SInv

LEMMA NextSInv ==
    ASSUME Serial, IInv, SInv, [Next]_vars PROVE SInv'
<1>1. CASE UNCHANGED <<mem, disk, call, wk>>
  BY <1>1 DEF SInv, Alone, Saved, Live, AllScheduled, Scheduled, Agree
<1>2. ASSUME NEW c \in Clients, Begin(c) \/ ClientStep(c) PROVE SInv'
  BY <1>2, BeginSInv, ClientStepSInv
<1>3. CASE LoopStep
  BY <1>3, BeginPassSInv, EndPassSInv, NextClaimSInv, SkipClaimSInv, WorkerSInv DEF LoopStep
<1>4. ASSUME NEW a \in Actors, UpstreamAnswer(a) \/ Commit(a) PROVE SInv'
  BY <1>4, UpstreamAnswerSInv, CommitSInv
<1>5. CASE (\E k \in Tickets : UpstreamMoves(k)) \/ Tick \/ UNCHANGED vars
  BY <1>1, <1>5 DEF UpstreamMoves, Tick, vars
<1> QED BY <1>2, <1>3, <1>4, <1>5, RestartSInv DEF Next

(* With one request or pass at a time and no failing write a pending       *)
(* cancel always has its action, the time of its next attempt and its      *)
(* deadline, in memory and in the database the loop claims from            *)
(* (release_code_runtime_effect, maybe_process_pending_releases).          *)
THEOREM PendingStaysScheduled == Serial => (Spec => []PendingIsScheduled)
<1> SUFFICES ASSUME Serial PROVE Spec => []PendingIsScheduled
  OBVIOUS
<1>1. IInv /\ SInv /\ [Next]_vars => SInv'
  BY NextSInv
<1>2. IInv /\ SInv => PendingIsScheduled
  <2>1. ASSUME NEW r, WellScheduled(r), Scheduled(r), r.status = "cancel_pending"
        PROVE  r.action # None /\ r.next # None /\ r.deadline # None
    BY <2>1, WindowIsNat DEF WellScheduled, Scheduled
  <2> QED BY <2>1 DEF IInv, ScheduleWellFormed, SInv, AllScheduled, PendingIsScheduled
<1> QED BY InitSInv, Inductive, <1>1, <1>2, PTL DEF Spec

(* And when nothing is under way the database holds what memory holds, so  *)
(* that a restart forgets nothing but that a retry was refused: the unit   *)
(* of a candidate may be dropped, and no later step makes more of it than  *)
(* that one flag (commit_runtime_uow, load_state,                          *)
(* try_acquire_from_routing_item_effect).                                  *)
THEOREM RestartForgetsNoMoreThanARefusal == Serial => (Spec => []QuiescentDiskAgrees)
<1> SUFFICES ASSUME Serial PROVE Spec => []QuiescentDiskAgrees
  OBVIOUS
<1>1. IInv /\ SInv /\ [Next]_vars => SInv'
  BY NextSInv
<1>2. SInv => QuiescentDiskAgrees
  BY DEF SInv, Saved, QuiescentDiskAgrees, Quiet, NoCall
<1> QED BY InitSInv, Inductive, <1>1, <1>2, PTL DEF Spec

=============================================================================
