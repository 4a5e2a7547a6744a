------------------------- MODULE ReuseCallbackProofs -------------------------
(***************************************************************************)
(* What follows a ticket: its number goes into the reuse pool, its code to *)
(* the callbacks.                                                          *)
(*                                                                         *)
(* Of Callbacks, for every set of tickets and callbacks and every size of  *)
(* the buffer: a callback that was answered with success is not posted to  *)
(* again, and none is given up otherwise while its ticket is kept and the  *)
(* process runs. The invariant follows a callback from its registration,   *)
(* when nothing knows it, through the pass that posts to it (Answered:     *)
(* while it is answered but not yet removed, the pass holds it), to its    *)
(* removal.                                                                *)
(*                                                                         *)
(* Of ReusePool, for all numbers, limits, times and restarts: its types,   *)
(* and, with one request at a time, that a number waits once, that what    *)
(* the database offers for reuse is what memory offers, and that no number *)
(* is handed out more often than reuse_max. The invariant (PoolInv) says   *)
(* of memory and database alike that what waits and what is open are       *)
(* different numbers, each once, and carry a count of all uses (Sound);    *)
(* of a request that its unit of work is all the database lacks, that its  *)
(* candidate is the first entry, and that the use it is about to count has *)
(* its place in the count of the ticket (Fits); and, since a unit may be   *)
(* dropped and leave entries behind that memory has cleaned away, that the *)
(* bucket of the database goes with the tickets of memory just as well     *)
(* (Behind).                                                               *)
(***************************************************************************)
EXTENDS Callbacks, ReusePool, SelectionProofs, TLAPS

Types ==
    /\ subs \in [Tickets -> SUBSET Subs]
    /\ client \in [Subs -> Registration]
    /\ loop \in Loop
    /\ acked \subseteq Subs
    /\ loop.pc \notin {"asleep", "next"} => loop.ticket \in Tickets
    /\ \A s \in Subs : client[s].pc = "checked" => client[s].ticket \in Tickets

(* Before it is registered a callback is nowhere.                          *)
Unknown ==
    \A s \in Subs : client[s].pc # "registered" =>
        s \notin acked /\ s \notin loop.left /\ \A t \in Tickets : s \notin subs[t]

(* A callback belongs to one ticket.                                       *)
OneTicket ==
    \A s \in Subs, t, u \in Tickets : s \in subs[t] /\ s \in subs[u] => t = u

(* What is left to post to was not answered, and belongs to the ticket of  *)
(* the pass.                                                               *)
Left ==
    \A s \in loop.left :
        /\ loop.pc = "posting"
        /\ s \notin acked
        /\ \A t \in Tickets : s \in subs[t] => t = loop.ticket

(* What was answered and is still registered is about to be removed.       *)
Answered ==
    \A s \in acked, t \in Tickets : s \in subs[t] =>
        loop.pc = "posting" /\ loop.ticket = t /\ s \in loop.delivered

IInv == Types /\ Unknown /\ OneTicket /\ Left /\ Answered

LEMMA InitIInv == Init => IInv
  BY DEF Init, IInv, Types, Unknown, OneTicket, Left, Answered, Registration, Loop, Asleep

-----------------------------------------------------------------------------
(* Tickets come, go and change: callbacks can only be dropped.             *)
LEMMA TicketSteps ==
    ASSUME IInv, NEW t \in Tickets, Acquire(t) \/ Poll(t) \/ Release(t) \/ Retry(t)
    PROVE  IInv'
<1>1. UNCHANGED <<client, loop, acked>>
  BY DEF Acquire, Poll, Release, Retry, Change
<1>2. subs' \in [Tickets -> SUBSET Subs] /\ \A u \in Tickets : subs'[u] \subseteq subs[u]
  BY DEF Acquire, Poll, Release, Retry, Change, IInv, Types
<1> QED BY <1>1, <1>2 DEF IInv, Types, Unknown, OneTicket, Left, Answered

LEMMA ClientSteps ==
    ASSUME IInv, NEW s \in Subs, Register(s) \/ \E t \in Tickets : Check(s, t)
    PROVE  IInv'
<1> USE DEF IInv, Types, Unknown, OneTicket, Left, Answered, Registration, Registered
<1>1. CASE Register(s)
  <2>1. client[s].pc = "checked" /\ client[s].ticket \in Tickets
    BY <1>1 DEF Register
  <2>2. s \notin acked /\ s \notin loop.left /\ \A t \in Tickets : s \notin subs[t]
    BY <2>1
  <2> QED BY <1>1, <2>1, <2>2 DEF Register
<1>2. CASE \E t \in Tickets : Check(s, t)
  BY <1>2 DEF Check
<1> QED BY <1>1, <1>2

-----------------------------------------------------------------------------
(* The steps of a pass that only move it.                                  *)
LEMMA OnwardIInv ==
    ASSUME IInv, loop.pc # "posting", NEW todo \in SUBSET Tickets,
           loop' = Onward(todo), UNCHANGED <<subs, client, acked>>
    PROVE  IInv'
  BY DEF IInv, Types, Unknown, OneTicket, Left, Answered, Onward, Asleep, Loop

LEMMA MoveIInv ==
    ASSUME IInv, loop.pc # "posting", NEW todo \in SUBSET Tickets, NEW t \in Tickets,
           NEW pc \in {"polling", "polled", "coded"},
           loop' = [Onward(todo) EXCEPT !.pc = pc, !.ticket = t],
           UNCHANGED <<subs, client, acked>>
    PROVE  IInv'
  BY DEF IInv, Types, Unknown, OneTicket, Left, Answered, Onward, Asleep, Loop

LEMMA LoopSteps ==
    ASSUME IInv, LoopStep PROVE IInv'
<1>1. CASE BeginPass
  BY <1>1, OnwardIInv DEF BeginPass
<1>2. CASE NextTicket
  <2>1. PICK t \in loop.todo :
          loop' = IF AtTicket(t) = "next" THEN Onward(loop.todo \ {t})
                  ELSE [Onward(loop.todo \ {t}) EXCEPT !.pc = AtTicket(t), !.ticket = t]
    BY <1>2 DEF NextTicket
  <2>2. loop.todo \subseteq Tickets
    BY DEF IInv, Types, Loop
  <2>3. AtTicket(t) \in {"next", "polling", "coded"}
    BY DEF AtTicket
  <2> QED BY <1>2, <2>1, <2>2, <2>3, OnwardIInv, MoveIInv DEF NextTicket
<1>3. CASE PollAnswered
  BY <1>3 DEF PollAnswered, Onward, Asleep, IInv, Types, Unknown, OneTicket, Left, Answered, Loop
<1>4. CASE ReadAgain
  BY <1>4 DEF ReadAgain, Onward, Asleep, IInv, Types, Unknown, OneTicket, Left, Answered, Loop
<1>5. CASE TakeCallbacks
  BY <1>5 DEF TakeCallbacks, IInv, Types, Unknown, OneTicket, Left, Answered, Loop
<1>6. ASSUME NEW s \in Subs, Posted(s) PROVE IInv'
  <2>1. s \in loop.left /\ loop.pc = "posting" /\ s \notin acked
    BY <1>6 DEF Posted, Post, IInv, Left
  <2>2. /\ loop' \in Loop
        /\ loop'.pc = "posting" /\ loop'.ticket = loop.ticket
        /\ loop'.left = loop.left \ {s} /\ loop'.delivered = loop.delivered \cup {s}
    BY <1>6, <2>1 DEF Posted, IInv, Types, Loop
  <2>3. acked' = acked \cup {s} /\ UNCHANGED <<subs, client>>
    BY <1>6 DEF Posted
  <2>4. Types' /\ Unknown' /\ OneTicket'
    BY <2>1, <2>2, <2>3 DEF IInv, Types, Unknown, OneTicket
  <2>5. Left'
    BY <2>1, <2>2, <2>3 DEF IInv, Left
  <2>6. Answered'
    <3> SUFFICES ASSUME NEW a \in acked', NEW t \in Tickets, a \in subs[t]
                 PROVE  loop'.ticket = t /\ a \in loop'.delivered
      BY <2>2, <2>3 DEF Answered
    <3>1. CASE a = s
      BY <3>1, <2>1, <2>2 DEF IInv, Left
    <3>2. CASE a \in acked
      BY <3>2, <2>2 DEF IInv, Answered
    <3> QED BY <3>1, <3>2, <2>3
  <2> QED BY <2>4, <2>5, <2>6 DEF IInv
<1>7. ASSUME NEW s \in Subs, PostFailed(s) PROVE IInv'
  BY <1>7 DEF PostFailed, Post, IInv, Types, Unknown, OneTicket, Left, Answered, Loop
<1>8. CASE RemoveDelivered
  BY <1>8 DEF RemoveDelivered, Delivered, Onward, Asleep, IInv, Types, Unknown, OneTicket,
              Left, Answered, Loop
<1>9. CASE EndPass
  BY <1>9 DEF EndPass, Asleep, IInv, Types, Unknown, OneTicket, Left, Answered, Loop
<1> QED BY <1>1, <1>2, <1>3, <1>4, <1>5, <1>6, <1>7, <1>8, <1>9 DEF LoopStep

LEMMA RestartIInv ==
    ASSUME IInv, Restart PROVE IInv'
  BY DEF Restart, Asleep, Registered, Registration, IInv, Types, Unknown, OneTicket, Left,
         Answered, Loop

LEMMA NextIInv ==
    ASSUME IInv, [Next]_vars PROVE IInv'
<1>1. CASE UNCHANGED vars
  BY <1>1 DEF vars, IInv, Types, Unknown, OneTicket, Left, Answered
<1> QED BY <1>1, TicketSteps, ClientSteps, LoopSteps, RestartIInv DEF Next

(* A callback that was answered with success is not posted to again        *)
(* (maybe_dispatch_ticket_callbacks), whatever is registered, released,    *)
(* retried or dropped while the pass is under way.                         *)
THEOREM CallbacksAreDeliveredOnce == Spec => []DeliveredOnce
<1>1. Init => IInv
  BY InitIInv
<1>2. IInv /\ [Next]_vars => IInv'
  BY NextIInv
<1>3. IInv => DeliveredOnce
  BY DEF IInv, Left, DeliveredOnce, Post
<1> QED BY <1>1, <1>2, <1>3, PTL DEF Spec

-----------------------------------------------------------------------------
(* What a callback can be lost to: a ticket that has callbacks, or that a  *)
(* client has found, was acquired, so that nothing but the full buffer     *)
(* drops it; and a pass removes nothing that was not answered.             *)
Acquired ==
    /\ order \in Seq(Tickets)
    /\ status \in [Tickets -> Status]
    /\ \A t \in Tickets : t \in Memory \/ subs[t] # {} => status[t] # "new"
    /\ \A s \in Subs : client[s].pc = "checked" => status[client[s].ticket] # "new"

OnlyAnswered == loop.delivered \subseteq acked

KInv == Types /\ Acquired /\ OnlyAnswered

(* Appending adds one element.                                             *)
LEMMA AppendedSet ==
    ASSUME NEW S, NEW q \in Seq(S), NEW e \in S
    PROVE  Append(q, e) \in Seq(S) /\ ToSet(Append(q, e)) = ToSet(q) \cup {e}
<1>1. /\ Append(q, e) \in Seq(S)
      /\ Len(Append(q, e)) = Len(q) + 1
      /\ \A i \in 1..Len(q) : Append(q, e)[i] = q[i]
      /\ Append(q, e)[Len(q) + 1] = e
  BY AppendProperties
<1>2. DOMAIN Append(q, e) = 1..(Len(q) + 1) /\ DOMAIN q = 1..Len(q) /\ Len(q) \in Nat
  BY <1>1
<1>3. ASSUME NEW i \in 1..(Len(q) + 1)
      PROVE  Append(q, e)[i] \in ToSet(q) \cup {e}
  <2>1. CASE i = Len(q) + 1
    BY <1>1, <2>1
  <2>2. CASE i \in 1..Len(q)
    BY <1>1, <1>2, <2>2 DEF ToSet
  <2> QED BY <1>2, <2>1, <2>2
<1>4. ASSUME NEW i \in 1..Len(q) PROVE q[i] \in ToSet(Append(q, e))
  BY <1>1, <1>2 DEF ToSet
<1>5. e \in ToSet(Append(q, e))
  BY <1>1, <1>2 DEF ToSet
<1> QED BY <1>1, <1>2, <1>3, <1>4, <1>5 DEF ToSet

(* An updated ticket moves to the end of the buffer.                       *)
LEMMA UpdatedStays ==
    ASSUME order \in Seq(Tickets), NEW t \in Memory
    PROVE  /\ Updated(t) \in Seq(Tickets) /\ ToSet(Updated(t)) \subseteq Memory
           /\ Len(Updated(t)) = Len(order)
<1> DEFINE at == CHOOSE i \in DOMAIN order : order[i] = t
<1>1. at \in 1..Len(order) /\ t \in Tickets
  <2>1. PICK i \in DOMAIN order : order[i] = t
    BY DEF Memory, ToSet
  <2> QED BY <2>1
<1> HIDE DEF at
<1>2. /\ SubSeq(order, 1, at - 1) \in Seq(Tickets)
      /\ Len(SubSeq(order, 1, at - 1)) = at - 1
      /\ \A i \in 1..(at - 1) : SubSeq(order, 1, at - 1)[i] = order[i]
  BY <1>1
<1>3. /\ SubSeq(order, at + 1, Len(order)) \in Seq(Tickets)
      /\ Len(SubSeq(order, at + 1, Len(order))) = Len(order) - at
      /\ \A i \in 1..(Len(order) - at) : SubSeq(order, at + 1, Len(order))[i] = order[at + i]
  BY <1>1
<1> DEFINE pre  == SubSeq(order, 1, at - 1)
           post == SubSeq(order, at + 1, Len(order))
           rest == pre \o post
<1> HIDE DEF pre, post
<1>4. /\ rest \in Seq(Tickets)
      /\ Len(rest) = Len(order) - 1
      /\ \A i \in 1..(Len(order) - 1) :
            rest[i] = IF i < at THEN order[i] ELSE order[i + 1]
  <2>1. /\ rest \in Seq(Tickets)
        /\ Len(rest) = Len(pre) + Len(post)
        /\ \A i \in 1..(Len(pre) + Len(post)) :
              rest[i] = IF i <= Len(pre) THEN pre[i] ELSE post[i - Len(pre)]
    BY <1>2, <1>3, ConcatProperties DEF pre, post
  <2>2. Len(pre) = at - 1 /\ Len(post) = Len(order) - at
    BY <1>2, <1>3 DEF pre, post
  <2>3. \A i \in 1..(at - 1) : pre[i] = order[i]
    BY <1>2 DEF pre
  <2>4. \A i \in 1..(Len(order) - at) : post[i] = order[at + i]
    BY <1>3 DEF post
  <2> HIDE DEF rest
  <2>5. Len(rest) = Len(order) - 1
    BY <1>1, <2>1, <2>2
  <2>6. ASSUME NEW i \in 1..(Len(order) - 1)
        PROVE  rest[i] = IF i < at THEN order[i] ELSE order[i + 1]
    <3>1. CASE i < at
      BY <1>1, <2>1, <2>2, <2>3, <3>1
    <3>2. CASE ~(i < at)
      <4>1. i - Len(pre) \in 1..(Len(order) - at) /\ at + (i - Len(pre)) = i + 1
        BY <1>1, <2>2, <3>2
      <4>2. rest[i] = post[i - Len(pre)]
        BY <1>1, <2>1, <2>2, <3>2
      <4> QED BY <2>4, <3>2, <4>1, <4>2
    <3> QED BY <3>1, <3>2
  <2> QED BY <2>1, <2>5, <2>6
<1>5. RemoveAt(order, at) = rest
  BY DEF RemoveAt, pre, post
<1> HIDE DEF rest
<1>6. ToSet(rest) \subseteq Memory
  <2> SUFFICES ASSUME NEW i \in 1..Len(rest) PROVE rest[i] \in Memory
    BY <1>4 DEF ToSet
  <2>1. i \in 1..Len(order) /\ i + 1 \in 1..Len(order)
    BY <1>1, <1>4
  <2> QED BY <1>4, <2>1 DEF Memory, ToSet
<1>7. Append(rest, t) \in Seq(Tickets) /\ ToSet(Append(rest, t)) \subseteq Memory
  BY <1>1, <1>4, <1>6, AppendedSet
<1>8. Len(Append(rest, t)) = Len(order)
  BY <1>1, <1>4, AppendProperties
<1> QED BY <1>5, <1>7, <1>8 DEF Updated, at

LEMMA InitKInv == Init => KInv
  BY DEF Init, KInv, Types, Acquired, OnlyAnswered, Memory, ToSet, Status, Registration, Loop,
         Asleep

LEMMA AcquireKInv ==
    ASSUME KInv, NEW t \in Tickets, Acquire(t) PROVE KInv'
<1> DEFINE kept == IF Len(order) >= Buffer THEN Tail(order) ELSE order
<1>1. kept \in Seq(Tickets) /\ ToSet(kept) \subseteq Memory
  <2>1. CASE Len(order) >= Buffer
    <3>1. order \in Seq(Tickets) /\ order # <<>>
      BY <2>1, BufferAssumption DEF KInv, Acquired
    <3>2. /\ Tail(order) \in Seq(Tickets) /\ Len(Tail(order)) = Len(order) - 1
          /\ \A i \in 1..Len(Tail(order)) : Tail(order)[i] = order[i + 1]
      BY <3>1, HeadTailProperties
    <3>3. ASSUME NEW i \in 1..Len(Tail(order)) PROVE Tail(order)[i] \in Memory
      BY <3>1, <3>2 DEF Memory, ToSet
    <3> QED BY <2>1, <3>2, <3>3 DEF ToSet
  <2>2. CASE ~(Len(order) >= Buffer)
    BY <2>2 DEF KInv, Acquired, Memory
  <2> QED BY <2>1, <2>2
<1>2. order' = Append(kept, t)
  BY DEF Acquire
<1> HIDE DEF kept
<1>3. order' \in Seq(Tickets) /\ Memory' \subseteq Memory \cup {t}
  BY <1>1, <1>2, AppendedSet DEF Memory
<1>4. /\ \A u \in Tickets : status'[u] = "new" => status[u] = "new" /\ u # t
      /\ status' \in [Tickets -> Status]
  BY DEF Acquire, KInv, Acquired, Status
<1>5. subs' \in [Tickets -> SUBSET Subs] /\ \A u \in Tickets : subs'[u] \subseteq subs[u]
  BY DEF Acquire, KInv, Types
<1>6. UNCHANGED <<client, loop, acked>>
  BY DEF Acquire
<1>7. Types' /\ OnlyAnswered'
  BY <1>5, <1>6 DEF KInv, Types, OnlyAnswered
<1>8. Acquired'
  BY <1>3, <1>4, <1>5, <1>6 DEF KInv, Types, Acquired
<1> QED BY <1>7, <1>8 DEF KInv

(* A ticket in memory changes, and nothing else.                           *)
LEMMA UpdateKInv ==
    ASSUME KInv, NEW t \in Memory, order' = Updated(t),
           NEW x \in {"open", "pending", "closed"}, status' = [status EXCEPT ![t] = x],
           UNCHANGED <<subs, client>>
    PROVE  Acquired'
<1>1. t \in Tickets
  BY DEF KInv, Acquired, Memory, ToSet
<1>2. order' \in Seq(Tickets) /\ Memory' \subseteq Memory
  BY UpdatedStays DEF KInv, Acquired, Memory
<1>3. status' \in [Tickets -> Status] /\ \A u \in Tickets : status'[u] = "new" => status[u] = "new"
  BY <1>1 DEF KInv, Acquired, Status
<1> QED BY <1>2, <1>3 DEF KInv, Types, Acquired

(* Release and retry are possible for tickets in memory.                   *)
LEMMA TicketKInv ==
    ASSUME KInv, NEW t \in Tickets, Poll(t) \/ Release(t) \/ Retry(t) PROVE KInv'
<1>1. t \in Memory /\ order' = Updated(t) /\ UNCHANGED <<subs, client, loop, acked>>
  BY DEF Poll, PollWrites, Release, Retry, Change
<1>2. \E x \in {"open", "pending", "closed"} : status' = [status EXCEPT ![t] = x]
  BY DEF Poll, PollWrites, Release, Retry, Change
<1>3. Acquired'
  BY <1>1, <1>2, UpdateKInv
<1> QED BY <1>1, <1>3 DEF KInv, Types, OnlyAnswered

LEMMA ClientKInv ==
    ASSUME KInv, NEW s \in Subs, Register(s) \/ \E t \in Tickets : Check(s, t)
    PROVE  KInv'
<1> USE DEF KInv, Types, Acquired, OnlyAnswered, Registration, Registered
<1>1. CASE Register(s)
  <2>1. client[s].pc = "checked" /\ client[s].ticket \in Tickets
        /\ status[client[s].ticket] # "new"
    BY <1>1 DEF Register
  <2>2. UNCHANGED <<order, Memory>>
    BY <1>1 DEF Register, Memory
  <2> QED BY <1>1, <2>1, <2>2 DEF Register
<1>2. CASE \E t \in Tickets : Check(s, t)
  <2>1. PICK t \in Tickets : Check(s, t)
    BY <1>2
  <2>2. status[t] # "new" /\ UNCHANGED Memory
    BY <2>1 DEF Check, Memory
  <2> QED BY <2>1, <2>2 DEF Check
<1> QED BY <1>1, <1>2

LEMMA LoopKInv ==
    ASSUME KInv, Types', LoopStep PROVE KInv'
<1>1. \/ UNCHANGED <<order, status>>
      \/ loop.pc = "polling" /\ PollWrites(loop.ticket) /\ UNCHANGED <<subs, client>>
  BY DEF LoopStep, BeginPass, NextTicket, PollAnswered, ReadAgain, TakeCallbacks, Posted,
         PostFailed, RemoveDelivered, EndPass
<1>2. UNCHANGED client /\ \A t \in Tickets : subs'[t] \subseteq subs[t]
  <2>1. CASE RemoveDelivered
    BY <2>1 DEF RemoveDelivered, Delivered, KInv, Types
  <2>2. CASE ~RemoveDelivered
    BY <2>2 DEF LoopStep, BeginPass, NextTicket, PollAnswered, ReadAgain, TakeCallbacks, Posted,
                PostFailed, EndPass
  <2> QED BY <2>1, <2>2
<1>3. Acquired'
  <2>1. CASE UNCHANGED <<order, status>>
    BY <1>2, <2>1 DEF KInv, Acquired, Memory
  <2>2. CASE PollWrites(loop.ticket) /\ UNCHANGED <<subs, client>>
    BY <2>2, UpdateKInv DEF PollWrites
  <2> QED BY <1>1, <2>1, <2>2
<1>4. OnlyAnswered'
  <2>1. acked \subseteq acked'
    BY DEF LoopStep, BeginPass, NextTicket, PollAnswered, ReadAgain, TakeCallbacks, Posted,
           PostFailed, RemoveDelivered, EndPass
  <2>2. ASSUME NEW s \in Subs, Posted(s) PROVE OnlyAnswered'
    BY <2>2 DEF Posted, KInv, Types, Loop, OnlyAnswered
  <2>3. ASSUME NEW s \in Subs, PostFailed(s) PROVE OnlyAnswered'
    BY <2>3 DEF PostFailed, KInv, Types, Loop, OnlyAnswered
  <2>4. CASE PollAnswered
    BY <2>1, <2>4 DEF PollAnswered, Onward, Asleep, KInv, Types, Loop, OnlyAnswered
  <2>5. CASE ReadAgain \/ TakeCallbacks
    BY <2>1, <2>5 DEF ReadAgain, TakeCallbacks, Onward, Asleep, KInv, Types, Loop, OnlyAnswered
  <2>6. CASE BeginPass \/ RemoveDelivered \/ EndPass
    <3>1. \A todo : Onward(todo).delivered = {} /\ Asleep.delivered = {}
      BY DEF Onward, Asleep
    <3>2. loop' = Asleep \/ \E todo : loop' = Onward(todo)
      BY <2>6 DEF BeginPass, RemoveDelivered, EndPass
    <3> QED BY <3>1, <3>2 DEF OnlyAnswered
  <2>7. CASE NextTicket
    BY <2>1, <2>7 DEF NextTicket, Onward, Asleep, OnlyAnswered
  <2> QED BY <2>2, <2>3, <2>4, <2>5, <2>6, <2>7 DEF LoopStep
<1> QED BY <1>3, <1>4 DEF KInv

LEMMA RestartKInv ==
    ASSUME KInv, Restart PROVE KInv'
  BY DEF Restart, Asleep, Registered, Registration, KInv, Types, Acquired, OnlyAnswered, Memory,
         Loop

LEMMA NextKInv ==
    ASSUME KInv, IInv', [Next]_vars PROVE KInv'
<1>1. Types'
  BY DEF IInv
<1>2. CASE UNCHANGED vars
  BY <1>2 DEF vars, KInv, Types, Acquired, OnlyAnswered, Memory
<1> QED BY <1>1, <1>2, AcquireKInv, TicketKInv, ClientKInv, LoopKInv, RestartKInv DEF Next

-----------------------------------------------------------------------------
(* A callback is given up only when it was delivered, when its ticket is   *)
(* dropped from the buffer, or by a restart: one that is registered while  *)
(* those of its ticket are posted stays                                    *)
(* (maybe_dispatch_ticket_callbacks, trim_tickets).                        *)
THEOREM CallbacksStay == Spec => LeavesOnlyDelivered
<1> DEFINE Allowed(t, s) ==
              \/ s \in acked
              \/ status'[t] = "dropped"
              \/ loop' = Asleep /\ subs' = [u \in Tickets |-> {}]
<1>1. ASSUME KInv, [Next]_vars, NEW t \in Tickets, NEW s \in Subs,
             s \in subs[t], s \notin subs'[t]
      PROVE  Allowed(t, s)
  <2>1. CASE \E u \in Tickets : Acquire(u)
    <3>1. PICK u \in Tickets : Acquire(u)
      BY <2>1
    <3>2. status[t] # "new" /\ status[u] = "new"
      BY <1>1, <3>1 DEF Acquire, KInv, Acquired
    <3>3. status'[t] = "dropped"
      BY <1>1, <3>1, <3>2 DEF Acquire
    <3> QED BY <3>3
  <2>2. CASE RemoveDelivered
    <3>1. s \in loop.delivered
      BY <1>1, <2>2 DEF RemoveDelivered, Delivered, KInv, Types
    <3> QED BY <1>1, <3>1 DEF KInv, OnlyAnswered
  <2>3. CASE Restart
    BY <2>3 DEF Restart
  <2>4. CASE \E r \in Subs : Register(r)
    BY <1>1, <2>4 DEF Register, KInv, Types
  <2>5. CASE UNCHANGED subs
    BY <1>1, <2>5
  <2> QED BY <1>1, <2>1, <2>2, <2>3, <2>4, <2>5
          DEF Next, vars, Poll, Release, Retry, Change, Check, LoopStep, BeginPass, NextTicket,
              PollAnswered, ReadAgain, TakeCallbacks, Posted, PostFailed, EndPass
<1>2. KInv /\ [Next]_vars =>
        [\A t \in Tickets, s \in Subs :
            s \in subs[t] /\ s \notin subs'[t] => Allowed(t, s)]_vars
  BY <1>1
<1>3. Spec => []IInv
  BY InitIInv, NextIInv, PTL DEF Spec
<1>4. Init /\ IInv => KInv
  BY InitKInv
<1>5. KInv /\ IInv' /\ [Next]_vars => KInv'
  BY NextKInv
<1> QED BY <1>2, <1>3, <1>4, <1>5, PTL DEF Spec, LeavesOnlyDelivered

-----------------------------------------------------------------------------
(* The buffer never grows beyond its size, and codes are those of tickets. *)
BufferFits == Len(order) <= Buffer /\ coded \subseteq Tickets

(* Acquiring drops the oldest ticket from a full buffer first.             *)
LEMMA AcquireFits ==
    ASSUME KInv, BufferFits, NEW t \in Tickets, Acquire(t) PROVE BufferFits'
<1> DEFINE kept == IF Len(order) >= Buffer THEN Tail(order) ELSE order
<1>1. order \in Seq(Tickets) /\ Len(order) \in Nat /\ Len(order) <= Buffer /\ Buffer \in Nat \ {0}
  BY BufferAssumption DEF KInv, Acquired, BufferFits
<1>2. kept \in Seq(Tickets) /\ Len(kept) + 1 <= Buffer
  <2>1. CASE Len(order) >= Buffer
    <3>1. order # <<>>
      BY <1>1, <2>1
    <3>2. Tail(order) \in Seq(Tickets) /\ Len(Tail(order)) = Len(order) - 1
      BY <1>1, <3>1, HeadTailProperties
    <3> QED BY <1>1, <2>1, <3>2
  <2>2. CASE ~(Len(order) >= Buffer)
    BY <1>1, <2>2
  <2> QED BY <2>1, <2>2
<1>3. order' = Append(kept, t)
  BY DEF Acquire
<1> HIDE DEF kept
<1>4. Len(order') = Len(kept) + 1
  BY <1>2, <1>3, AppendProperties
<1>5. coded' \subseteq Tickets
  BY DEF Acquire, BufferFits
<1> QED BY <1>2, <1>4, <1>5 DEF BufferFits

(* Every other change of a ticket moves it within the buffer.              *)
LEMMA StepFits ==
    ASSUME KInv, BufferFits, [Next]_vars PROVE BufferFits'
<1>1. CASE \E t \in Tickets : Acquire(t)
  BY <1>1, AcquireFits
<1>2. CASE \E t \in Memory : order' = Updated(t) /\ coded' \subseteq coded \cup {t}
  <2>1. PICK t \in Memory : order' = Updated(t) /\ coded' \subseteq coded \cup {t}
    BY <1>2
  <2>2. t \in Tickets
    BY DEF KInv, Acquired, Memory, ToSet
  <2>3. Len(order') = Len(order)
    BY <2>1, UpdatedStays DEF KInv, Acquired
  <2> QED BY <2>1, <2>2, <2>3 DEF BufferFits
<1>3. CASE UNCHANGED <<order, coded>>
  BY <1>3 DEF BufferFits
<1> QED BY <1>1, <1>2, <1>3
        DEF Next, vars, Poll, PollWrites, Release, Retry, Change, Register, Check, LoopStep,
            BeginPass, NextTicket, PollAnswered, ReadAgain, TakeCallbacks, Posted, PostFailed,
            RemoveDelivered, EndPass, Restart

(* The buffer, the callbacks and the pass keep their types; the buffer     *)
(* never holds more tickets than it may, however registrations, polls and  *)
(* acquisitions are mixed (trim_tickets).                                  *)
THEOREM CallbackTypesHold == Spec => []TypeOK
<1>1. Spec => []IInv
  BY InitIInv, NextIInv, PTL DEF Spec
<1>2. Init /\ IInv => KInv
  BY InitKInv
<1>3. KInv /\ IInv' /\ [Next]_vars => KInv'
  BY NextKInv
<1>4. Init => BufferFits
  BY BufferAssumption DEF Init, BufferFits
<1>5. KInv /\ BufferFits /\ [Next]_vars => BufferFits'
  BY StepFits
<1>6. KInv /\ BufferFits => TypeOK
  BY DEF KInv, Types, Acquired, BufferFits, TypeOK
<1> QED BY <1>1, <1>2, <1>3, <1>4, <1>5, <1>6, PTL DEF Spec

-----------------------------------------------------------------------------
(* The reuse pool.                                                         *)
(* One request is under way at a time.                                     *)
OneRequest == \A q, r \in Requests : q = r

-----------------------------------------------------------------------------
(* One copy s of the bucket and the tickets, with the numbers S that were  *)
(* sold and how often each was used, U.                                    *)
WaitsOnce(s) ==
    \A i, j \in DOMAIN s.pool : s.pool[i].number = s.pool[j].number => i = j

WaitsOrOpen(s) ==
    \A i \in DOMAIN s.pool, t \in TicketIds :
        s.tickets[t].number = s.pool[i].number => s.tickets[t].status # "open"

OpenOnce(s) ==
    \A t, u \in TicketIds :
        /\ s.tickets[t].status = "open" /\ s.tickets[u].status = "open"
        /\ s.tickets[t].number = s.tickets[u].number
        => t = u

(* What waits and what is open was sold.                                   *)
WasSold(s, S) ==
    /\ \A i \in DOMAIN s.pool : s.pool[i].number \in S
    /\ \A t \in TicketIds : s.tickets[t].status = "open" => s.tickets[t].number \in S

(* A ticket of the pool is never offered to be retried.                    *)
PoolNotRetried(s) ==
    \A t \in TicketIds : s.tickets[t].retry => s.tickets[t].path # "exact"

(* What finishing the ticket may take over of its count.                   *)
Credit(t) == IF t.path = "exact" THEN t.count ELSE 0

(* An entry, and an open ticket, counts every use of its number.           *)
EntriesCount(s, U) == \A i \in DOMAIN s.pool : U[s.pool[i].number] <= s.pool[i].count
TicketsCount(s, U) ==
    \A t \in TicketIds :
        s.tickets[t].status = "open" => U[s.tickets[t].number] <= Credit(s.tickets[t])

Sound(s, S, U) == /\ WaitsOnce(s) /\ WaitsOrOpen(s) /\ OpenOnce(s) /\ WasSold(s, S)
                  /\ PoolNotRetried(s) /\ EntriesCount(s, U) /\ TicketsCount(s, U)

-----------------------------------------------------------------------------
(* A request x, with what memory and the database hold.                    *)

(* What its unit of work writes is all that the database lacks; before the *)
(* unit is handed over it may be dropped.                                  *)
WritesTheRest(x, m, d) ==
    /\ x.bucket # Absent => x.bucket = m.pool
    /\ \A t \in TicketIds :
          t \notin x.tickets \/ x.pc # "commit" => Agree(d.tickets[t], m.tickets[t])

(* Its candidate is the first entry of the pool.                           *)
CandidateIsFirst(x, m) ==
    x.candidate # Absent =>
        /\ x.pc = "asked" /\ Len(m.pool) > 0
        /\ x.candidate = m.pool[1] /\ x.candidate.count < MaxReuse

(* A number that the pool served has an open ticket, and the use that is   *)
(* not counted yet has its place in the ticket's count.                    *)
ServedIsOpen(x, m, U) ==
    x.served # Absent =>
        /\ x.pc = "commit" /\ x.bucket # Absent
        /\ \E t \in TicketIds :
              /\ m.tickets[t].status = "open" /\ m.tickets[t].number = x.served
              /\ U[x.served] + 1 <= Credit(m.tickets[t])

OwesNothing(x) == /\ x.pc \in {"idle", "refused"} => x.bucket = Absent
                  /\ x.pc = "idle" => x.tickets = {}

Fits(x, m, d, U) == /\ WritesTheRest(x, m, d) /\ CandidateIsFirst(x, m)
                    /\ ServedIsOpen(x, m, U) /\ OwesNothing(x)

(* Two buckets with the same usable entries.                               *)
UsableAt(p, t) == Filtered(p, {e \in Entry : e.expires > t /\ e.count < MaxReuse})
SameUse(p, q, t) == UsableAt(p, t) = UsableAt(q, t)

(* While the bucket of the database stays as it is, it offers what memory  *)
(* offers, and none of its numbers is open in memory.                      *)
BucketStays(x) == x.pc # "commit" \/ x.bucket = Absent
Mixed(m, d) == [pool |-> d.pool, tickets |-> m.tickets]
Behind(x, m, d, S, U, t) ==
    BucketStays(x) => SameUse(m.pool, d.pool, t) /\ Sound(Mixed(m, d), S, U)

NeverSoldNeverUsed == \A n \in Numbers : n \notin sold => uses[n] = 0

PoolInv ==
    /\ PoolTypeOK
    /\ Sound(mem, sold, uses) /\ Sound(disk, sold, uses)
    /\ \A r \in Requests : Fits(step[r], mem, disk, uses)
    /\ \A r \in Requests : Behind(step[r], mem, disk, sold, uses, now)
    /\ IdleDiskAgrees
    /\ NeverSoldNeverUsed
    /\ ReusedWithinMax

-----------------------------------------------------------------------------
LEMMA StateParts ==
    ASSUME NEW s \in State
    PROVE  /\ s.pool \in Seq(Entry) /\ s.tickets \in [TicketIds -> Ticket]
           /\ s = [pool |-> s.pool, tickets |-> s.tickets]
           /\ DOMAIN s.pool = 1..Len(s.pool) /\ Len(s.pool) \in Nat
           /\ \A i \in DOMAIN s.pool : s.pool[i] \in Entry
  BY DEF State

(* Selling more harms nothing.                                             *)
LEMMA SoundWithMoreSold ==
    ASSUME NEW s, NEW S, NEW T, NEW U, S \subseteq T, Sound(s, S, U)
    PROVE  Sound(s, T, U)
  BY DEF Sound, WasSold

(* Entries may leave the pool.                                             *)
LEMMA SoundWithLess ==
    ASSUME NEW s \in State, NEW S, NEW U, NEW q \in Seq(Entry), NEW f,
           Places(f, q, s.pool), Sound(s, S, U)
    PROVE  /\ [pool |-> q, tickets |-> s.tickets] \in State
           /\ Sound([pool |-> q, tickets |-> s.tickets], S, U)
<1> DEFINE w == [pool |-> q, tickets |-> s.tickets]
<1>1. w \in State /\ w.pool = q /\ w.tickets = s.tickets
  BY StateParts DEF State
<1>2. DOMAIN q = 1..Len(q) /\ Len(q) \in Nat
  OBVIOUS
<1>3. \A i \in DOMAIN q : f[i] \in DOMAIN s.pool /\ q[i] = s.pool[f[i]]
  BY <1>2, StateParts DEF Places
<1>4. \A i, j \in DOMAIN q : f[i] = f[j] => i = j
  <2> TAKE i, j \in DOMAIN q
  <2>1. f[i] \in 1..Len(s.pool) /\ f[j] \in 1..Len(s.pool)
    BY <1>3, StateParts
  <2>2. i < j => f[i] < f[j]
    BY <1>2 DEF Places
  <2>3. j < i => f[j] < f[i]
    BY <1>2 DEF Places
  <2>4. f[i] = f[j] => ~(i < j) /\ ~(j < i)
    BY <2>1, <2>2, <2>3
  <2> QED BY <1>2, <2>4
<1> HIDE DEF w
<1>5. WaitsOnce(w)
  BY <1>1, <1>3, <1>4 DEF Sound, WaitsOnce
<1>6. WaitsOrOpen(w)
  BY <1>1, <1>3 DEF Sound, WaitsOrOpen
<1>7. OpenOnce(w) /\ PoolNotRetried(w) /\ TicketsCount(w, U)
  BY <1>1 DEF Sound, OpenOnce, PoolNotRetried, TicketsCount
<1>8. WasSold(w, S)
  BY <1>1, <1>3 DEF Sound, WasSold
<1>9. EntriesCount(w, U)
  BY <1>1, <1>3 DEF Sound, EntriesCount
<1>10. Sound(w, S, U)
  BY <1>5, <1>6, <1>7, <1>8, <1>9 DEF Sound
<1> QED BY <1>1, <1>10 DEF w

(* What an open ticket k in the place of t needs.                          *)
FitsOpen(k, t, s, S, U) ==
    k.status = "open" =>
        /\ k.number \in S
        /\ \A i \in DOMAIN s.pool : s.pool[i].number # k.number
        /\ \A u \in TicketIds :
              u # t /\ s.tickets[u].status = "open" => s.tickets[u].number # k.number
        /\ U[k.number] <= Credit(k)

LEMMA SoundWithTicket ==
    ASSUME NEW s \in State, NEW S, NEW U, NEW t \in TicketIds, NEW k \in Ticket,
           Sound(s, S, U), k.retry => k.path # "exact", FitsOpen(k, t, s, S, U)
    PROVE  /\ [pool |-> s.pool, tickets |-> [s.tickets EXCEPT ![t] = k]] \in State
           /\ Sound([pool |-> s.pool, tickets |-> [s.tickets EXCEPT ![t] = k]], S, U)
<1> DEFINE w == [pool |-> s.pool, tickets |-> [s.tickets EXCEPT ![t] = k]]
<1>1. w \in State /\ w.pool = s.pool
  BY StateParts DEF State
<1>2. w.tickets[t] = k /\ \A u \in TicketIds : u # t => w.tickets[u] = s.tickets[u]
  BY StateParts
<1> HIDE DEF w
<1>3. WaitsOnce(w) /\ EntriesCount(w, U)
  BY <1>1 DEF Sound, WaitsOnce, EntriesCount
<1>4. WaitsOrOpen(w)
  BY <1>1, <1>2 DEF Sound, WaitsOrOpen, FitsOpen
<1>5. OpenOnce(w)
  BY <1>2 DEF Sound, OpenOnce, FitsOpen
<1>6. WasSold(w, S)
  BY <1>1, <1>2 DEF Sound, WasSold, FitsOpen
<1>7. PoolNotRetried(w)
  BY <1>2 DEF Sound, PoolNotRetried
<1>8. TicketsCount(w, U)
  BY <1>2 DEF Sound, TicketsCount, FitsOpen
<1>9. Sound(w, S, U)
  BY <1>3, <1>4, <1>5, <1>6, <1>7, <1>8 DEF Sound
<1> QED BY <1>1, <1>9 DEF w

LEMMA SoundWithEntry ==
    ASSUME NEW s \in State, NEW S, NEW U, NEW e \in Entry, Sound(s, S, U),
           e.number \in S, U[e.number] <= e.count,
           \A i \in DOMAIN s.pool : s.pool[i].number # e.number,
           \A t \in TicketIds : s.tickets[t].status = "open" => s.tickets[t].number # e.number
    PROVE  /\ [pool |-> Append(s.pool, e), tickets |-> s.tickets] \in State
           /\ Sound([pool |-> Append(s.pool, e), tickets |-> s.tickets], S, U)
<1> DEFINE w == [pool |-> Append(s.pool, e), tickets |-> s.tickets]
           n == Len(s.pool)
<1>1. w \in State /\ w.pool = Append(s.pool, e) /\ w.tickets = s.tickets
  BY StateParts DEF State
<1>2. /\ DOMAIN Append(s.pool, e) = 1..(n + 1) /\ n \in Nat /\ DOMAIN s.pool = 1..n
      /\ Append(s.pool, e)[n + 1] = e
      /\ \A i \in 1..n : Append(s.pool, e)[i] = s.pool[i]
  BY StateParts
<1>3. \A i \in DOMAIN w.pool :
        \/ i \in DOMAIN s.pool /\ w.pool[i] = s.pool[i]
        \/ i = n + 1 /\ w.pool[i] = e
  BY <1>1, <1>2
<1> HIDE DEF w, n
<1>4. WaitsOnce(w)
  BY <1>3 DEF Sound, WaitsOnce
<1>5. WaitsOrOpen(w)
  BY <1>1, <1>3 DEF Sound, WaitsOrOpen
<1>6. OpenOnce(w) /\ PoolNotRetried(w) /\ TicketsCount(w, U)
  BY <1>1 DEF Sound, OpenOnce, PoolNotRetried, TicketsCount
<1>7. WasSold(w, S)
  BY <1>1, <1>3 DEF Sound, WasSold
<1>8. EntriesCount(w, U)
  BY <1>3 DEF Sound, EntriesCount
<1>9. Sound(w, S, U)
  BY <1>4, <1>5, <1>6, <1>7, <1>8 DEF Sound
<1> QED BY <1>1, <1>9 DEF w

(* Taking the first entry out.                                             *)
LEMMA FirstConsumed ==
    ASSUME NEW p \in Seq(Entry), Len(p) > 0
    PROVE  /\ Consumed(p, p[1]) \in Seq(Entry)
           /\ \E f : Places(f, Consumed(p, p[1]), p)
           /\ \A i \in DOMAIN Consumed(p, p[1]) : \E j \in DOMAIN p : j # 1 /\ Consumed(p, p[1])[i] = p[j]
<1> DEFINE I == {i \in 1..Len(p) : p[i].number = p[1].number}
           at == SelectInSeq(p, LAMBDA e : e.number = p[1].number)
           q == SubSeq(p, 2, Len(p))
<1>1. Len(p) \in Nat /\ 1 <= Len(p) /\ 1 \in I /\ I # {}
  OBVIOUS
<1>2. at = 1
  <2>1. at = IF I # {} THEN Min(I) ELSE 0
    BY DEF SelectInSeq
  <2>2. Min(I) = CHOOSE x \in I : \A y \in I : x <= y
    BY DEF Min
  <2>3. \A x \in I : (\A y \in I : x <= y) => x = 1
    BY <1>1
  <2>4. \A y \in I : 1 <= y
    OBVIOUS
  <2> HIDE DEF I, at
  <2> QED BY <1>1, <2>1, <2>2, <2>3, <2>4
<1> HIDE DEF at, I
<1>3. Consumed(p, p[1]) = RemoveAt(p, 1)
  BY <1>2 DEF Consumed, at
<1>4. RemoveAt(p, 1) = SubSeq(p, 1, 0) \o q
  BY DEF RemoveAt
<1>5. q \in Seq(Entry) /\ Len(q) = Len(p) - 1 /\ \A i \in 1..(Len(p) - 1) : q[i] = p[i + 1]
  <2>1. \A i \in 2..Len(p) : p[i] \in Entry
    OBVIOUS
  <2>2. /\ q \in Seq(Entry)
        /\ Len(q) = IF 2 <= Len(p) THEN Len(p) - 2 + 1 ELSE 0
        /\ \A i \in 1..(Len(p) - 2 + 1) : q[i] = p[2 + i - 1]
    BY <1>1, <2>1, SubSeqProperties
  <2> HIDE DEF q
  <2>3. \A i \in 1..(Len(p) - 1) : i \in 1..(Len(p) - 2 + 1) /\ 2 + i - 1 = i + 1
    BY <1>1
  <2>4. \A n \in Nat : 1 <= n => (IF 2 <= n THEN n - 2 + 1 ELSE 0) = n - 1
    OBVIOUS
  <2>5. Len(q) = Len(p) - 1
    BY <1>1, <2>2, <2>4
  <2> QED BY <2>2, <2>3, <2>5
<1>6. SubSeq(p, 1, 0) = <<>>
  BY <1>1
<1>7. RemoveAt(p, 1) = q
  BY <1>4, <1>5, <1>6
<1> DEFINE f == [i \in 1..Len(q) |-> i + 1]
<1>8. Places(f, q, p)
  BY <1>1, <1>5 DEF Places
<1>9. \A i \in DOMAIN q : i + 1 \in DOMAIN p /\ i + 1 # 1 /\ q[i] = p[i + 1]
  BY <1>1, <1>5
<1> HIDE DEF q, f
<1> QED BY <1>3, <1>5, <1>7, <1>8, <1>9

(* The usable entries of the pool are some of it.                          *)
LEMMA UsableEntries ==
    ASSUME NEW p \in Seq(Entry)
    PROVE  /\ Usable(p) \in Seq(Entry)
           /\ \E f : Places(f, Usable(p), p)
           /\ \A i \in DOMAIN Usable(p) : Usable(p)[i].count < MaxReuse
           /\ Len(Usable(p)) = Len(p) => Usable(p) = p
<1> DEFINE S == {e \in Entry : e.expires > now /\ e.count < MaxReuse}
<1>1. Filtered(p, S) \in Seq(Entry \cap S)
  BY FilteredMembers
<1>2. \E f : Places(f, Filtered(p, S), p)
  BY FilteredPlaces
<1>3. Len(Filtered(p, S)) = Len(p) => Filtered(p, S) = p
  BY FilteredKeepsAll
<1>4. \A i \in DOMAIN Filtered(p, S) : Filtered(p, S)[i] \in S
  BY <1>1
<1>5. Usable(p) = Filtered(p, S)
  BY DEF Usable
<1>6. Filtered(p, S) \in Seq(Entry)
  BY <1>1
<1>7. \A e \in S : e.count < MaxReuse
  OBVIOUS
<1> HIDE DEF S
<1> QED BY <1>2, <1>3, <1>4, <1>5, <1>6, <1>7

(* Cleaning a bucket changes nothing about its use, now or later.          *)
LEMMA CleanedIsSame ==
    ASSUME NEW p \in Seq(Entry), NEW q \in Seq(Entry), SameUse(p, q, now)
    PROVE  SameUse(Usable(p), q, now)
<1> DEFINE S == {e \in Entry : e.expires > now /\ e.count < MaxReuse}
<1>1. Filtered(Filtered(p, S), S) = Filtered(p, S \cap S)
  BY FilteredTwice
<1>2. S \cap S = S
  OBVIOUS
<1> HIDE DEF S
<1>3. Filtered(Filtered(p, S), S) = Filtered(p, S)
  BY <1>1, <1>2
<1>4. Filtered(p, S) = Filtered(q, S)
  BY DEF SameUse, UsableAt, S
<1>5. Usable(p) = Filtered(p, S)
  BY DEF Usable, S
<1> QED BY <1>3, <1>4, <1>5 DEF SameUse, UsableAt, S

LEMMA SameUseLater ==
    ASSUME NEW p \in Seq(Entry), NEW q \in Seq(Entry), NEW t \in Nat, NEW u \in Nat, t <= u,
           SameUse(p, q, t)
    PROVE  SameUse(p, q, u)
<1> DEFINE S == {e \in Entry : e.expires > t /\ e.count < MaxReuse}
           T == {e \in Entry : e.expires > u /\ e.count < MaxReuse}
<1>1. Filtered(Filtered(p, S), T) = Filtered(p, S \cap T)
  BY FilteredTwice
<1>2. Filtered(Filtered(q, S), T) = Filtered(q, S \cap T)
  BY FilteredTwice
<1>3. S \cap T = T
  <2>1. ASSUME NEW e \in Entry, e.expires > u PROVE e.expires > t
    <3>1. e.expires \in Int
      BY BoundsAssumption DEF Entry
    <3> QED BY <2>1, <3>1
  <2> QED BY <2>1
<1>4. Filtered(p, S) = Filtered(q, S)
  BY DEF SameUse, UsableAt
<1> HIDE DEF S, T
<1> QED BY <1>1, <1>2, <1>3, <1>4 DEF SameUse, UsableAt, T

-----------------------------------------------------------------------------
LEMMA StepParts ==
    ASSUME NEW x \in Step
    PROVE  /\ x.pc \in {"idle", "refused", "asked", "commit"}
           /\ x.candidate \in Entry \cup {Absent} /\ x.bucket \in Seq(Entry) \cup {Absent}
           /\ x.tickets \in SUBSET TicketIds /\ x.served \in Numbers \cup {Absent}
  BY DEF Step

LEMMA WritingFields ==
    ASSUME NEW b \in Seq(Entry) \cup {Absent}, NEW w \in SUBSET TicketIds,
           NEW n \in Numbers \cup {Absent}
    PROVE  /\ Writing(b, w, n) \in Step
           /\ Writing(b, w, n).pc = "commit" /\ Writing(b, w, n).candidate = Absent
           /\ Writing(b, w, n).bucket = b /\ Writing(b, w, n).tickets = w
           /\ Writing(b, w, n).served = n
  BY DEF Writing, Step

(* There is only one request to look at.                                   *)
LEMMA OnlyRequest ==
    ASSUME OneRequest, NEW st \in [Requests -> Step], NEW r \in Requests, NEW x \in Step,
           NEW m, NEW d, NEW U, Fits(x, m, d, U)
    PROVE  /\ [st EXCEPT ![r] = x] \in [Requests -> Step]
           /\ [st EXCEPT ![r] = x][r] = x
           /\ \A q \in Requests : Fits([st EXCEPT ![r] = x][q], m, d, U)
<1>1. [st EXCEPT ![r] = x] \in [Requests -> Step] /\ [st EXCEPT ![r] = x][r] = x
  OBVIOUS
<1>2. \A q \in Requests : q = r
  BY DEF OneRequest
<1> QED BY <1>1, <1>2

(* An open ticket may be changed if it keeps its number and its credit.    *)
LEMMA OpenFits ==
    ASSUME NEW s \in State, NEW S, NEW U, Sound(s, S, U), NEW t \in TicketIds, NEW k \in Ticket,
           s.tickets[t].status = "open", k.number = s.tickets[t].number,
           Credit(k) = Credit(s.tickets[t])
    PROVE  FitsOpen(k, t, s, S, U)
<1>1. k.number \in S /\ U[k.number] <= Credit(k)
  BY DEF Sound, WasSold, TicketsCount
<1>2. \A i \in DOMAIN s.pool : s.pool[i].number # k.number
  BY DEF Sound, WaitsOrOpen
<1>3. \A u \in TicketIds :
        u # t /\ s.tickets[u].status = "open" => s.tickets[u].number # k.number
  BY DEF Sound, OpenOnce
<1> QED BY <1>1, <1>2, <1>3 DEF FitsOpen

(* A request at rest owes the database nothing but what was dropped.       *)
LEMMA NothingOwed ==
    ASSUME NEW x, NEW m, NEW d, NEW U, Fits(x, m, d, U)
    PROVE  x.pc # "commit" => \A t \in TicketIds : Agree(d.tickets[t], m.tickets[t])
  BY DEF Fits, WritesTheRest

-----------------------------------------------------------------------------
(* What a request does before its commit leaves to show.                   *)
LEMMA RequestKeeps ==
    ASSUME PoolInv, OneRequest, NEW r \in Requests, NEW x \in Step, x.pc # "idle",
           step' = [step EXCEPT ![r] = x],
           UNCHANGED <<now, disk, uses, restarts>>,
           sold \subseteq sold', sold' \subseteq Numbers,
           live' \in [Numbers -> TicketIds \cup {Absent}],
           mem' \in State, Sound(mem', sold', uses), Fits(x, mem', disk, uses),
           Behind(x, mem', disk, sold', uses, now)
    PROVE  PoolInv'
<1>1. PoolTypeOK'
  <2>1. step \in [Requests -> Step]
    BY DEF PoolInv, PoolTypeOK
  <2>2. step' \in [Requests -> Step]
    BY <2>1
  <2> QED BY <2>2 DEF PoolInv, PoolTypeOK
<1>2. Sound(mem, sold, uses)' /\ Sound(disk, sold, uses)'
  <2>1. Sound(disk, sold', uses)
    BY SoundWithMoreSold DEF PoolInv
  <2> QED BY <2>1
<1>3. /\ step'[r] = x
      /\ \A q \in Requests : Fits(step'[q], mem', disk', uses')
  <2>1. step \in [Requests -> Step]
    BY DEF PoolInv, PoolTypeOK
  <2> QED BY <2>1, OnlyRequest
<1>4. IdleDiskAgrees'
  BY <1>3 DEF IdleDiskAgrees
<1>5. NeverSoldNeverUsed' /\ ReusedWithinMax'
  BY DEF PoolInv, NeverSoldNeverUsed, ReusedWithinMax
<1>6. \A q \in Requests : Behind(step'[q], mem', disk', sold', uses', now')
  <2>1. \A q \in Requests : q = r
    BY DEF OneRequest
  <2> QED BY <1>3, <2>1
<1> QED BY <1>1, <1>2, <1>3, <1>4, <1>5, <1>6 DEF PoolInv

(* What a request may count on.                                            *)
LEMMA RequestParts ==
    ASSUME PoolInv, NEW r \in Requests
    PROVE  /\ step \in [Requests -> Step] /\ step[r] \in Step
           /\ mem \in State /\ disk \in State
           /\ Sound(mem, sold, uses) /\ Sound(disk, sold, uses)
           /\ Fits(step[r], mem, disk, uses)
           /\ Behind(step[r], mem, disk, sold, uses, now)
           /\ sold \subseteq Numbers /\ live \in [Numbers -> TicketIds \cup {Absent}]
  BY DEF PoolInv, PoolTypeOK

(* ... as long as it has not handed its unit over.                         *)
LEMMA NotBehind ==
    ASSUME PoolInv, NEW r \in Requests, step[r].pc # "commit"
    PROVE  /\ SameUse(mem.pool, disk.pool, now) /\ Sound(Mixed(mem, disk), sold, uses)
           /\ Mixed(mem, disk) \in State
           /\ Mixed(mem, disk).pool = disk.pool /\ Mixed(mem, disk).tickets = mem.tickets
<1>1. SameUse(mem.pool, disk.pool, now) /\ Sound(Mixed(mem, disk), sold, uses)
  BY RequestParts DEF Behind, BucketStays
<1>2. mem \in State /\ disk \in State
  BY RequestParts
<1> QED BY <1>1, <1>2, StateParts DEF Mixed, State

(* A changed ticket that fits memory and the bucket of the database.       *)
LEMMA TicketBehind ==
    ASSUME PoolInv, NEW r \in Requests, step[r].pc # "commit",
           NEW t \in TicketIds, NEW k \in Ticket, NEW S, sold \subseteq S, NEW m, NEW x,
           m = [pool |-> mem.pool, tickets |-> [mem.tickets EXCEPT ![t] = k]],
           k.retry => k.path # "exact", FitsOpen(k, t, Mixed(mem, disk), S, uses)
    PROVE  Behind(x, m, disk, S, uses, now)
<1> DEFINE s == Mixed(mem, disk)
<1>1. s \in State /\ s.pool = disk.pool /\ s.tickets = mem.tickets
      /\ SameUse(mem.pool, disk.pool, now) /\ Sound(s, sold, uses)
  BY NotBehind
<1> HIDE DEF s
<1>2. Sound(s, S, uses)
  BY <1>1, SoundWithMoreSold
<1>3. Sound([pool |-> s.pool, tickets |-> [s.tickets EXCEPT ![t] = k]], S, uses)
  BY <1>1, <1>2, SoundWithTicket DEF s
<1>4. m.pool = mem.pool
      /\ Mixed(m, disk) = [pool |-> s.pool, tickets |-> [s.tickets EXCEPT ![t] = k]]
  BY <1>1 DEF Mixed
<1> QED BY <1>1, <1>3, <1>4 DEF Behind

(* A bucket that is about to be written leaves nothing behind.             *)
LEMMA WrittenBehind ==
    ASSUME NEW x, NEW m, NEW d, NEW S, NEW U, NEW t, x.pc = "commit", x.bucket # Absent
    PROVE  Behind(x, m, d, S, U, t)
  BY DEF Behind, BucketStays

-----------------------------------------------------------------------------
(* A unit of work that writes one ticket.                                  *)
LEMMA WritesTicket ==
    ASSUME NEW x, NEW m \in State, NEW d, NEW U, Fits(x, m, d, U), x.pc = "idle",
           NEW t \in TicketIds, NEW n \in State, NEW b \in Seq(Entry) \cup {Absent},
           b # Absent => b = n.pool,
           \A u \in TicketIds : u # t => n.tickets[u] = m.tickets[u]
    PROVE  Fits(Writing(b, {t}, Absent), n, d, U)
<1> DEFINE w == Writing(b, {t}, Absent)
<1>1. /\ w.pc = "commit" /\ w.candidate = Absent /\ w.bucket = b /\ w.tickets = {t}
      /\ w.served = Absent
  BY WritingFields
<1> HIDE DEF w
<1>2. WritesTheRest(w, n, d)
  BY <1>1, NothingOwed DEF WritesTheRest
<1>3. CandidateIsFirst(w, n) /\ ServedIsOpen(w, n, U) /\ OwesNothing(w)
  BY <1>1 DEF CandidateIsFirst, ServedIsOpen, OwesNothing
<1>4. Fits(w, n, d, U)
  BY <1>2, <1>3 DEF Fits
<1> QED BY <1>4 DEF w

LEMMA RetryTakenKeeps ==
    ASSUME PoolInv, OneRequest, NEW r \in Requests, NEW t \in TicketIds, RetryTaken(r, t)
    PROVE  PoolInv'
<1> DEFINE old == mem.tickets[t]
           k == [old EXCEPT !.path = "retry", !.count = @ + 1]
           m == [pool |-> mem.pool, tickets |-> [mem.tickets EXCEPT ![t] = k]]
           w == Writing(Absent, {t}, Absent)
<1>1. /\ step[r].pc = "idle" /\ old.status = "open" /\ old.retry /\ old.count < MaxReuse
      /\ step' = [step EXCEPT ![r] = w]
      /\ UNCHANGED <<now, disk, live, sold, uses, restarts>>
  BY DEF RetryTaken, Retryable
<1>2. old \in Ticket
  BY RequestParts, StateParts
<1>3. /\ k \in Ticket /\ k.path = "retry" /\ k.number = old.number
  <2>1. old.count + 1 \in 0..MaxReuse
    BY <1>1, <1>2, BoundsAssumption DEF Ticket
  <2> QED BY <1>2, <2>1 DEF Ticket
<1>4. mem' = m
  <2>1. mem' = [mem EXCEPT !.tickets[t].path = "retry", !.tickets[t].count = @ + 1]
    BY DEF RetryTaken
  <2>2. mem \in State
    BY RequestParts
  <2> QED BY <2>1, <2>2 DEF State
<1>5. Credit(old) = 0 /\ Credit(k) = 0
  <2>1. old.path # "exact"
    BY <1>1, RequestParts DEF Sound, PoolNotRetried
  <2> QED BY <1>3, <2>1 DEF Credit
<1> HIDE DEF k, old
<1>6. FitsOpen(k, t, mem, sold, uses)
  BY <1>1, <1>3, <1>5, RequestParts, OpenFits DEF old
<1>7. m \in State /\ Sound(m, sold, uses)
  BY <1>3, <1>6, RequestParts, SoundWithTicket
<1>8. m.pool = mem.pool /\ \A u \in TicketIds : u # t => m.tickets[u] = mem.tickets[u]
  BY RequestParts, StateParts
<1> HIDE DEF m
<1>9. Fits(w, m, disk, uses)
  BY <1>1, <1>7, <1>8, RequestParts, WritesTicket
<1>10. w \in Step /\ w.pc # "idle"
  BY WritingFields
<1>11. FitsOpen(k, t, Mixed(mem, disk), sold, uses)
  BY <1>1, <1>3, <1>5, NotBehind, OpenFits DEF old
<1>12. Behind(w, m, disk, sold, uses, now)
  BY <1>1, <1>3, <1>11, TicketBehind DEF m
<1> HIDE DEF w
<1> QED BY <1>1, <1>4, <1>7, <1>9, <1>10, <1>12, RequestParts, RequestKeeps

LEMMA RetryRefusedKeeps ==
    ASSUME PoolInv, OneRequest, NEW r \in Requests, NEW t \in TicketIds, RetryRefused(r, t)
    PROVE  PoolInv'
<1> DEFINE old == mem.tickets[t]
           k == [old EXCEPT !.retry = FALSE]
           m == [pool |-> mem.pool, tickets |-> [mem.tickets EXCEPT ![t] = k]]
           w == [step[r] EXCEPT !.pc = "refused", !.tickets = {t}]
<1>1. /\ step[r].pc = "idle" /\ old.status = "open" /\ old.retry
      /\ UNCHANGED <<now, disk, live, sold, uses, restarts>>
  BY DEF RetryRefused, Retryable
<1>2. old \in Ticket /\ step[r] \in Step
  BY RequestParts, StateParts
<1>3. /\ k \in Ticket /\ k.number = old.number /\ Credit(k) = Credit(old) /\ ~k.retry
      /\ old = [k EXCEPT !.retry = TRUE] /\ [old EXCEPT !.retry = TRUE] = old
  BY <1>1, <1>2 DEF Ticket, Credit
<1>4. mem' = m /\ step' = [step EXCEPT ![r] = w]
  <2>1. /\ mem' = [mem EXCEPT !.tickets[t].retry = FALSE]
        /\ step' = [step EXCEPT ![r].pc = "refused", ![r].tickets = {t}]
    BY DEF RetryRefused
  <2>2. mem \in State /\ step \in [Requests -> Step]
    BY RequestParts
  <2>3. mem' = m
    BY <2>1, <2>2 DEF State
  <2>4. step' = [step EXCEPT ![r] = w]
    BY <2>1, <2>2
  <2> QED BY <2>3, <2>4
<1>5. /\ w \in Step /\ w.pc = "refused" /\ w.candidate = step[r].candidate
      /\ w.bucket = step[r].bucket /\ w.tickets = {t} /\ w.served = step[r].served
  BY <1>2 DEF Step
<1> HIDE DEF k, old, w
<1>6. FitsOpen(k, t, mem, sold, uses)
  BY <1>1, <1>3, RequestParts, OpenFits DEF old
<1>7. m \in State /\ Sound(m, sold, uses)
  BY <1>3, <1>6, RequestParts, SoundWithTicket
<1>8. /\ m.pool = mem.pool /\ m.tickets[t] = k
      /\ \A u \in TicketIds : u # t => m.tickets[u] = mem.tickets[u]
  BY RequestParts, StateParts
<1> HIDE DEF m
<1>9. Fits(w, m, disk, uses)
  <2>1. Fits(step[r], mem, disk, uses)
    BY RequestParts
  <2>2. step[r].bucket = Absent /\ step[r].candidate = Absent /\ step[r].served = Absent
    BY <1>1, <2>1 DEF Fits, OwesNothing, CandidateIsFirst, ServedIsOpen
  <2>3. WritesTheRest(w, m, disk)
    <3>1. \A u \in TicketIds : Agree(disk.tickets[u], mem.tickets[u])
      BY <1>1, <2>1, NothingOwed
    <3>2. Agree(disk.tickets[t], k)
      BY <1>3, <3>1 DEF Agree, old
    <3>3. \A u \in TicketIds : Agree(disk.tickets[u], m.tickets[u])
      BY <1>8, <3>1, <3>2
    <3> QED BY <1>5, <2>2, <3>3 DEF WritesTheRest
  <2>4. CandidateIsFirst(w, m) /\ ServedIsOpen(w, m, uses) /\ OwesNothing(w)
    BY <1>5, <2>2 DEF CandidateIsFirst, ServedIsOpen, OwesNothing
  <2> QED BY <2>3, <2>4 DEF Fits
<1>10. FitsOpen(k, t, Mixed(mem, disk), sold, uses)
  BY <1>1, <1>3, NotBehind, OpenFits DEF old
<1>11. Behind(w, m, disk, sold, uses, now)
  BY <1>1, <1>3, <1>10, TicketBehind DEF m
<1> QED BY <1>1, <1>4, <1>5, <1>7, <1>9, <1>11, RequestParts, RequestKeeps

LEMMA CancelKeeps ==
    ASSUME PoolInv, OneRequest, NEW r \in Requests, NEW t \in TicketIds, Cancel(r, t)
    PROVE  PoolInv'
<1> DEFINE old == mem.tickets[t]
           k == [old EXCEPT !.status = "cancelled", !.retry = FALSE]
           m == [pool |-> mem.pool, tickets |-> [mem.tickets EXCEPT ![t] = k]]
           w == Writing(Absent, {t}, Absent)
<1>1. /\ step[r].pc = "idle"
      /\ step' = [step EXCEPT ![r] = w]
      /\ live' = [live EXCEPT ![old.number] = Absent]
      /\ UNCHANGED <<now, disk, sold, uses, restarts>>
  BY DEF Cancel
<1>2. old \in Ticket
  BY RequestParts, StateParts
<1>3. k \in Ticket /\ ~k.retry /\ k.status = "cancelled"
  BY <1>2 DEF Ticket
<1>4. mem' = m
  <2>1. mem' = [mem EXCEPT !.tickets[t].status = "cancelled", !.tickets[t].retry = FALSE]
    BY DEF Cancel
  <2>2. mem \in State
    BY RequestParts
  <2> QED BY <2>1, <2>2 DEF State
<1> HIDE DEF k, old
<1>5. FitsOpen(k, t, mem, sold, uses)
  BY <1>3 DEF FitsOpen
<1>6. m \in State /\ Sound(m, sold, uses)
  BY <1>3, <1>5, RequestParts, SoundWithTicket
<1>7. m.pool = mem.pool /\ \A u \in TicketIds : u # t => m.tickets[u] = mem.tickets[u]
  BY RequestParts, StateParts
<1> HIDE DEF m
<1>8. Fits(w, m, disk, uses)
  BY <1>1, <1>6, <1>7, RequestParts, WritesTicket
<1>9. w \in Step /\ w.pc # "idle"
  BY WritingFields
<1>10. live' \in [Numbers -> TicketIds \cup {Absent}]
  BY <1>1, RequestParts
<1>11. FitsOpen(k, t, Mixed(mem, disk), sold, uses)
  BY <1>3 DEF FitsOpen
<1>12. Behind(w, m, disk, sold, uses, now)
  BY <1>1, <1>3, <1>11, TicketBehind DEF m
<1> HIDE DEF w
<1> QED BY <1>1, <1>4, <1>6, <1>8, <1>9, <1>10, <1>12, RequestParts, RequestKeeps

LEMMA FinishKeeps ==
    ASSUME PoolInv, OneRequest, NEW r \in Requests, NEW t \in TicketIds, Finish(r, t)
    PROVE  PoolInv'
<1> DEFINE old == mem.tickets[t]
           k == [old EXCEPT !.status = "finished"]
           closed == [pool |-> mem.pool, tickets |-> [mem.tickets EXCEPT ![t] = k]]
           e == Recorded(old)
           pool == Append(mem.pool, e)
           m == [pool |-> pool, tickets |-> closed.tickets]
           w == Writing(pool, {t}, Absent)
<1>1. /\ step[r].pc = "idle" /\ old.status = "open"
      /\ step' = [step EXCEPT ![r] = w]
      /\ live' = [live EXCEPT ![old.number] = Absent]
      /\ UNCHANGED <<now, disk, sold, uses, restarts>>
  BY DEF Finish
<1>2. old \in Ticket
  BY RequestParts, StateParts
<1>3. k \in Ticket /\ k.status = "finished" /\ k.retry = old.retry /\ k.path = old.path
  BY <1>2 DEF Ticket
<1>4. mem' = m
  <2>1. mem' = [pool |-> pool, tickets |-> [mem.tickets EXCEPT ![t].status = "finished"]]
    BY DEF Finish
  <2>2. mem \in State
    BY RequestParts
  <2> QED BY <2>1, <2>2 DEF State
<1>5. FitsOpen(k, t, mem, sold, uses)
  BY <1>3 DEF FitsOpen
<1>6. k.retry => k.path # "exact"
  BY <1>3, RequestParts DEF Sound, PoolNotRetried
<1>7. /\ old.number \in sold /\ old.number \in Numbers
      /\ \A i \in DOMAIN mem.pool : mem.pool[i].number # old.number
      /\ \A u \in TicketIds :
            u # t /\ mem.tickets[u].status = "open" => mem.tickets[u].number # old.number
      /\ uses[old.number] <= Credit(old)
  BY <1>1, RequestParts DEF Sound, WasSold, WaitsOrOpen, OpenOnce, TicketsCount
<1>8. e \in Entry /\ e.number = old.number /\ uses[e.number] <= e.count
  <2>1. uses[old.number] \in Nat /\ old.count \in 0..MaxReuse /\ now \in 0..MaxTime
    BY <1>2, <1>7 DEF PoolInv, PoolTypeOK, Ticket
  <2>2. e.number = old.number /\ e.expires = now + Ttl
        /\ e.count = IF old.path = "exact" /\ old.count > 0 THEN old.count + 1 ELSE 0
    BY DEF Recorded
  <2>3. e.expires \in 0..(MaxTime + Ttl)
    BY <2>1, <2>2, BoundsAssumption
  <2>4. e.count \in 0..(MaxReuse + 1)
    BY <2>1, <2>2, BoundsAssumption
  <2>5. e \in Entry
    BY <1>7, <2>2, <2>3, <2>4 DEF Recorded, Entry
  <2>6. uses[old.number] <= e.count
    BY <1>7, <2>1, <2>2 DEF Credit
  <2> QED BY <2>2, <2>5, <2>6
<1> HIDE DEF k, e
<1>9. /\ closed \in State /\ Sound(closed, sold, uses) /\ closed.pool = mem.pool
      /\ closed.tickets[t] = k
      /\ \A u \in TicketIds : u # t => closed.tickets[u] = mem.tickets[u]
  BY <1>3, <1>5, <1>6, RequestParts, StateParts, SoundWithTicket
<1> HIDE DEF old, closed
<1>10. \A u \in TicketIds : closed.tickets[u].status = "open" => closed.tickets[u].number # e.number
  BY <1>3, <1>7, <1>8, <1>9
<1>11. m \in State /\ Sound(m, sold, uses)
  BY <1>7, <1>8, <1>9, <1>10, SoundWithEntry
<1>12. m.pool = pool /\ \A u \in TicketIds : u # t => m.tickets[u] = mem.tickets[u]
  BY <1>9
<1>13. pool \in Seq(Entry)
  BY <1>8, RequestParts, StateParts
<1> HIDE DEF m, pool
<1>14. pool # Absent
  BY <1>13, AbsentAssumption
<1>15. Fits(w, m, disk, uses)
  BY <1>1, <1>11, <1>12, <1>13, <1>14, RequestParts, WritesTicket
<1>16. w \in Step /\ w.pc # "idle"
  BY <1>13, WritingFields
<1>17. live' \in [Numbers -> TicketIds \cup {Absent}]
  BY <1>1, RequestParts
<1>18. Behind(w, m, disk, sold, uses, now)
  BY <1>13, <1>14, WritingFields, WrittenBehind
<1> HIDE DEF w
<1> QED BY <1>1, <1>4, <1>11, <1>15, <1>16, <1>17, <1>18, RequestParts, RequestKeeps

LEMMA ClearKeeps ==
    ASSUME PoolInv, OneRequest, NEW r \in Requests, Clear(r)
    PROVE  PoolInv'
<1> DEFINE m == [pool |-> <<>>, tickets |-> mem.tickets]
           w == Writing(<<>>, {}, Absent)
           f == [i \in 1..0 |-> 1]
<1>1. /\ step[r].pc = "idle" /\ step' = [step EXCEPT ![r] = w]
      /\ UNCHANGED <<now, disk, live, sold, uses, restarts>>
  BY DEF Clear
<1>2. mem' = m
  <2>1. mem' = [mem EXCEPT !.pool = <<>>]
    BY DEF Clear
  <2>2. mem \in State
    BY RequestParts
  <2> QED BY <2>1, <2>2 DEF State
<1>3. <<>> \in Seq(Entry) /\ Places(f, <<>>, mem.pool)
  BY DEF Places
<1> HIDE DEF f
<1>4. m \in State /\ Sound(m, sold, uses)
  BY <1>3, RequestParts, SoundWithLess
<1>5. <<>> # Absent
  BY <1>3, AbsentAssumption
<1>6. /\ w \in Step /\ w.pc = "commit" /\ w.candidate = Absent /\ w.bucket = <<>>
      /\ w.tickets = {} /\ w.served = Absent
  BY <1>3 DEF Writing, Step
<1> HIDE DEF w
<1>7. Fits(w, m, disk, uses)
  <2>1. WritesTheRest(w, m, disk)
    BY <1>1, <1>5, <1>6, RequestParts, NothingOwed DEF WritesTheRest
  <2>2. CandidateIsFirst(w, m) /\ ServedIsOpen(w, m, uses) /\ OwesNothing(w)
    BY <1>6 DEF CandidateIsFirst, ServedIsOpen, OwesNothing
  <2> QED BY <2>1, <2>2 DEF Fits
<1> HIDE DEF m
<1>8. Behind(w, m, disk, sold, uses, now)
  BY <1>5, <1>6, WrittenBehind
<1> QED BY <1>1, <1>2, <1>4, <1>6, <1>7, <1>8, RequestParts, RequestKeeps

LEMMA PeekKeeps ==
    ASSUME PoolInv, OneRequest, NEW r \in Requests, Peek(r)
    PROVE  PoolInv'
<1> DEFINE usable == Usable(mem.pool)
           m == [pool |-> usable, tickets |-> mem.tickets]
           first == IF usable = <<>> THEN Absent ELSE Head(usable)
           bucket == IF Len(usable) = Len(mem.pool) THEN Absent ELSE usable
           w == [step[r] EXCEPT !.pc = "asked", !.candidate = first, !.bucket = bucket]
<1>1. /\ step[r].pc \in {"idle", "refused"}
      /\ UNCHANGED <<now, disk, live, sold, uses, restarts>>
  BY DEF Peek
<1>2. /\ usable \in Seq(Entry)
      /\ \E f : Places(f, usable, mem.pool)
      /\ \A i \in DOMAIN usable : usable[i].count < MaxReuse
      /\ Len(usable) = Len(mem.pool) => usable = mem.pool
  BY RequestParts, StateParts, UsableEntries
<1>3. mem' = m /\ step' = [step EXCEPT ![r] = w]
  <2>1. /\ mem' = [mem EXCEPT !.pool = usable]
        /\ step' = [step EXCEPT ![r].pc = "asked", ![r].candidate = first, ![r].bucket = bucket]
    BY DEF Peek
  <2>2. mem \in State /\ step \in [Requests -> Step]
    BY RequestParts
  <2> HIDE DEF usable, first, bucket
  <2>3. mem' = m
    BY <2>1, <2>2 DEF State
  <2>4. step' = [step EXCEPT ![r] = w]
    BY <2>1, <2>2
  <2> QED BY <2>3, <2>4
<1> HIDE DEF usable
<1>4. m \in State /\ Sound(m, sold, uses)
  BY <1>2, RequestParts, SoundWithLess
<1>5. /\ usable = <<>> => first = Absent
      /\ usable # <<>> => /\ Len(usable) > 0 /\ first = usable[1] /\ first \in Entry
                          /\ first.count < MaxReuse
  <2>1. usable # <<>> => Len(usable) > 0 /\ 1 \in DOMAIN usable /\ Head(usable) = usable[1]
                         /\ usable[1] \in Entry
    BY <1>2
  <2> QED BY <1>2, <2>1
<1>6. bucket \in Seq(Entry) \cup {Absent}
  BY <1>2
<1>7. /\ bucket = Absent => usable = mem.pool
      /\ bucket # Absent => bucket = usable
  BY <1>2, AbsentAssumption
<1> HIDE DEF first, bucket
<1>8. /\ w \in Step /\ w.pc = "asked" /\ w.candidate = first
      /\ w.bucket = bucket /\ w.tickets = step[r].tickets /\ w.served = step[r].served
  <2>1. step[r] \in Step
    BY RequestParts
  <2> QED BY <1>5, <1>6, <2>1 DEF Step
<1> HIDE DEF w
<1>9. Fits(w, m, disk, uses)
  <2>1. Fits(step[r], mem, disk, uses)
    BY RequestParts
  <2>2. step[r].served = Absent
    BY <1>1, <2>1 DEF Fits, ServedIsOpen
  <2>3. m.pool = usable /\ m.tickets = mem.tickets
    OBVIOUS
  <2> HIDE DEF m
  <2>4. WritesTheRest(w, m, disk)
    BY <1>1, <1>7, <1>8, <2>1, <2>3, NothingOwed DEF WritesTheRest
  <2>5. CandidateIsFirst(w, m)
    BY <1>5, <1>8, <2>3 DEF CandidateIsFirst
  <2>6. ServedIsOpen(w, m, uses) /\ OwesNothing(w)
    BY <1>8, <2>2 DEF ServedIsOpen, OwesNothing
  <2> QED BY <2>4, <2>5, <2>6 DEF Fits
<1>10. w.pc # "idle"
  BY <1>8
<1>11. Behind(w, m, disk, sold, uses, now)
  <2>1. SameUse(mem.pool, disk.pool, now) /\ Sound(Mixed(mem, disk), sold, uses)
    BY <1>1, NotBehind
  <2>2. SameUse(usable, disk.pool, now)
    BY <2>1, RequestParts, StateParts, CleanedIsSame DEF usable
  <2>3. m.pool = usable /\ Mixed(m, disk) = Mixed(mem, disk)
    BY DEF Mixed
  <2> QED BY <2>1, <2>2, <2>3 DEF Behind
<1> HIDE DEF m
<1> QED BY <1>1, <1>3, <1>4, <1>8, <1>9, <1>10, <1>11, RequestParts, RequestKeeps

LEMMA NotAcquiredKeeps ==
    ASSUME PoolInv, OneRequest, NEW r \in Requests, NotAcquired(r)
    PROVE  PoolInv'
<1> DEFINE w == Writing(step[r].bucket, step[r].tickets, Absent)
<1>1. /\ step' = [step EXCEPT ![r] = w] /\ step[r].pc = "asked"
      /\ UNCHANGED <<now, mem, disk, live, sold, uses, restarts>>
  BY DEF NotAcquired
<1>2. step[r] \in Step /\ Fits(step[r], mem, disk, uses)
  BY RequestParts
<1>3. /\ w \in Step /\ w.pc = "commit" /\ w.candidate = Absent
      /\ w.bucket = step[r].bucket /\ w.tickets = step[r].tickets /\ w.served = Absent
  <2>1. step[r].bucket \in Seq(Entry) \cup {Absent} /\ step[r].tickets \in SUBSET TicketIds
    BY <1>2, StepParts
  <2> QED BY <2>1, WritingFields
<1> HIDE DEF w
<1>4. Fits(w, mem, disk, uses)
  <2>1. WritesTheRest(w, mem, disk)
    BY <1>1, <1>2, <1>3, NothingOwed DEF Fits, WritesTheRest
  <2>2. CandidateIsFirst(w, mem) /\ ServedIsOpen(w, mem, uses) /\ OwesNothing(w)
    BY <1>3 DEF CandidateIsFirst, ServedIsOpen, OwesNothing
  <2> QED BY <2>1, <2>2 DEF Fits
<1>5. w.pc # "idle"
  BY <1>3
<1>6. Behind(w, mem, disk, sold, uses, now)
  BY <1>1, NotBehind DEF Behind
<1> QED BY <1>1, <1>3, <1>4, <1>5, <1>6, RequestParts, RequestKeeps

LEMMA UnitDroppedKeeps ==
    ASSUME PoolInv, OneRequest, NEW r \in Requests, UnitDropped(r)
    PROVE  PoolInv'
<1>1. /\ step' = [step EXCEPT ![r] = Idle] /\ step[r].pc = "asked"
      /\ UNCHANGED <<now, mem, disk, live, sold, uses, restarts>>
  BY DEF UnitDropped
<1>2. /\ Idle \in Step /\ Idle.pc = "idle" /\ Idle.candidate = Absent /\ Idle.bucket = Absent
      /\ Idle.tickets = {} /\ Idle.served = Absent
  BY DEF Idle, Step
<1>3. /\ SameUse(mem.pool, disk.pool, now)
      /\ \A t \in TicketIds : Agree(disk.tickets[t], mem.tickets[t])
  BY <1>1, NotBehind, RequestParts, NothingOwed
<1>4. Fits(Idle, mem, disk, uses) /\ Behind(Idle, mem, disk, sold, uses, now)
  BY <1>1, <1>2, <1>3, NotBehind
     DEF Fits, WritesTheRest, CandidateIsFirst, ServedIsOpen, OwesNothing, Behind
<1>5. /\ step' \in [Requests -> Step] /\ step'[r] = Idle
      /\ \A q \in Requests : Fits(step'[q], mem, disk, uses)
  BY <1>1, <1>2, <1>4, RequestParts, OnlyRequest
<1>6. \A q \in Requests : Behind(step'[q], mem, disk, sold, uses, now)
  <2>1. \A q \in Requests : q = r
    BY DEF OneRequest
  <2> QED BY <1>4, <1>5, <2>1
<1>7. IdleDiskAgrees'
  BY <1>1, <1>3 DEF IdleDiskAgrees, SameUse, UsableAt, Usable
<1>8. PoolTypeOK' /\ Sound(mem, sold, uses)' /\ Sound(disk, sold, uses)'
      /\ NeverSoldNeverUsed' /\ ReusedWithinMax'
  BY <1>1, <1>5 DEF PoolInv, PoolTypeOK, NeverSoldNeverUsed, ReusedWithinMax
<1> QED BY <1>1, <1>5, <1>6, <1>7, <1>8 DEF PoolInv

(* A number that was never sold.                                           *)
LEMMA FreshKeeps ==
    ASSUME PoolInv, OneRequest, NEW r \in Requests, NEW t \in TicketIds, NEW n \in Numbers,
           NEW retry \in BOOLEAN, NumberAcquired(r, t, n, retry), step[r].candidate = Absent
    PROVE  PoolInv'
<1> DEFINE k == [number |-> n, status |-> "open", retry |-> retry, path |-> "fresh", count |-> 0]
           m == [pool |-> mem.pool, tickets |-> [mem.tickets EXCEPT ![t] = k]]
           written == step[r].tickets \cup {t}
           w == Writing(step[r].bucket, written, Absent)
<1>1. /\ n \notin sold /\ mem' = m /\ step[r].pc = "asked"
      /\ step' = [step EXCEPT ![r] = w]
      /\ live' = [live EXCEPT ![n] = t] /\ sold' = sold \cup {n}
      /\ UNCHANGED <<now, disk, uses, restarts>>
  BY DEF NumberAcquired
<1>2. step[r] \in Step /\ Fits(step[r], mem, disk, uses)
  BY RequestParts
<1>3. k \in Ticket /\ k.status = "open" /\ k.number = n /\ k.path # "exact" /\ Credit(k) = 0
  BY BoundsAssumption DEF Ticket, Credit
<1>4. uses[n] = 0
  BY <1>1 DEF PoolInv, NeverSoldNeverUsed
<1>5. Sound(mem, sold', uses)
  BY <1>1, RequestParts, SoundWithMoreSold
<1> HIDE DEF k
<1>6. FitsOpen(k, t, mem, sold', uses)
  <2>1. \A i \in DOMAIN mem.pool : mem.pool[i].number # n
    BY <1>1, RequestParts DEF Sound, WasSold
  <2>2. \A u \in TicketIds : mem.tickets[u].status = "open" => mem.tickets[u].number # n
    BY <1>1, RequestParts DEF Sound, WasSold
  <2>3. n \in sold'
    BY <1>1
  <2> QED BY <1>3, <1>4, <2>1, <2>2, <2>3 DEF FitsOpen
<1>7. m \in State /\ Sound(m, sold', uses)
  BY <1>3, <1>5, <1>6, RequestParts, SoundWithTicket
<1>8. m.pool = mem.pool /\ \A u \in TicketIds : u # t => m.tickets[u] = mem.tickets[u]
  BY RequestParts, StateParts
<1>9. written \in SUBSET TicketIds
  BY <1>2, StepParts
<1>10. /\ w \in Step /\ w.pc = "commit" /\ w.candidate = Absent
       /\ w.bucket = step[r].bucket /\ w.tickets = written /\ w.served = Absent
  BY <1>2, <1>9, StepParts, WritingFields
<1> HIDE DEF m, w
<1>11. Fits(w, m, disk, uses)
  <2>1. WritesTheRest(w, m, disk)
    BY <1>1, <1>2, <1>8, <1>10, NothingOwed DEF Fits, WritesTheRest
  <2>2. CandidateIsFirst(w, m) /\ ServedIsOpen(w, m, uses) /\ OwesNothing(w)
    BY <1>10 DEF CandidateIsFirst, ServedIsOpen, OwesNothing
  <2> QED BY <2>1, <2>2 DEF Fits
<1>12. /\ sold \subseteq sold' /\ sold' \subseteq Numbers
       /\ live' \in [Numbers -> TicketIds \cup {Absent}]
  BY <1>1, RequestParts
<1>13. w.pc # "idle"
  BY <1>10
<1>14. FitsOpen(k, t, Mixed(mem, disk), sold', uses)
  <2>1. /\ \A i \in DOMAIN Mixed(mem, disk).pool : Mixed(mem, disk).pool[i].number # n
        /\ \A u \in TicketIds :
              Mixed(mem, disk).tickets[u].status = "open" => Mixed(mem, disk).tickets[u].number # n
    BY <1>1, NotBehind DEF Sound, WasSold
  <2>2. n \in sold'
    BY <1>1
  <2> QED BY <1>3, <1>4, <2>1, <2>2 DEF FitsOpen
<1>15. Behind(w, m, disk, sold', uses, now)
  BY <1>1, <1>3, <1>12, <1>14, TicketBehind DEF m
<1> QED BY <1>1, <1>7, <1>10, <1>11, <1>12, <1>13, <1>15, RequestKeeps

(* A number of the pool, sold once more.                                   *)
LEMMA ExactKeeps ==
    ASSUME PoolInv, OneRequest, NEW r \in Requests, NEW t \in TicketIds, NEW n \in Numbers,
           NEW retry \in BOOLEAN, NumberAcquired(r, t, n, retry), step[r].candidate # Absent
    PROVE  PoolInv'
<1> DEFINE c == step[r].candidate
           pool == Consumed(mem.pool, c)
           k == [number |-> n, status |-> "open", retry |-> retry, path |-> "exact",
                 count |-> c.count + 1]
           left == [pool |-> pool, tickets |-> mem.tickets]
           m == [pool |-> pool, tickets |-> [mem.tickets EXCEPT ![t] = k]]
           written == step[r].tickets \cup {t}
           w == Writing(pool, written, n)
<1>1. /\ n = c.number /\ ~retry /\ mem' = m /\ step[r].pc = "asked"
      /\ step' = [step EXCEPT ![r] = w]
      /\ live' = [live EXCEPT ![n] = t] /\ sold' = sold \cup {n}
      /\ UNCHANGED <<now, disk, uses, restarts>>
  BY DEF NumberAcquired
<1>2. step[r] \in Step /\ Fits(step[r], mem, disk, uses)
  BY RequestParts
<1>3. Len(mem.pool) > 0 /\ c = mem.pool[1] /\ c.count < MaxReuse /\ c \in Entry
  BY <1>2, StepParts DEF Fits, CandidateIsFirst
<1>4. /\ pool \in Seq(Entry)
      /\ \E f : Places(f, pool, mem.pool)
      /\ \A i \in DOMAIN pool : \E j \in DOMAIN mem.pool : j # 1 /\ pool[i] = mem.pool[j]
  <2>1. mem.pool \in Seq(Entry)
    BY RequestParts, StateParts
  <2> HIDE DEF c
  <2>2. pool = Consumed(mem.pool, mem.pool[1])
    BY <1>3
  <2> HIDE DEF pool
  <2> QED BY <1>3, <2>1, <2>2, FirstConsumed
<1> HIDE DEF pool
<1>5. /\ left \in State /\ Sound(left, sold, uses) /\ left.pool = pool
      /\ left.tickets = mem.tickets
  BY <1>4, RequestParts, SoundWithLess
<1>6. 1 \in DOMAIN mem.pool /\ n = mem.pool[1].number
  BY <1>1, <1>3, RequestParts, StateParts
<1>7. /\ n \in sold
      /\ \A i \in DOMAIN pool : pool[i].number # n
      /\ \A u \in TicketIds : mem.tickets[u].status = "open" => mem.tickets[u].number # n
      /\ uses[n] <= c.count
  BY <1>3, <1>4, <1>6, RequestParts DEF Sound, WasSold, WaitsOnce, WaitsOrOpen, EntriesCount
<1>8. c.count \in Nat /\ c.count + 1 \in 0..MaxReuse /\ uses[n] \in Nat
  BY <1>3, BoundsAssumption DEF Entry, PoolInv, PoolTypeOK
<1>9. /\ k \in Ticket /\ k.status = "open" /\ k.number = n /\ ~k.retry /\ Credit(k) = c.count + 1
  BY <1>1, <1>8 DEF Ticket, Credit
<1>10. uses[n] + 1 <= Credit(k) /\ uses[n] <= Credit(k)
  BY <1>7, <1>8, <1>9
<1> HIDE DEF k, left
<1>11. FitsOpen(k, t, left, sold, uses)
  BY <1>5, <1>7, <1>9, <1>10 DEF FitsOpen
<1>12. m \in State /\ Sound(m, sold, uses)
  BY <1>5, <1>9, <1>11, SoundWithTicket
<1>13. /\ m.pool = pool /\ m.tickets[t] = k
       /\ \A u \in TicketIds : u # t => m.tickets[u] = mem.tickets[u]
  BY RequestParts, StateParts
<1>14. written \in SUBSET TicketIds /\ t \in written /\ pool # Absent
  BY <1>2, <1>4, StepParts, AbsentAssumption
<1>15. /\ w \in Step /\ w.pc = "commit" /\ w.candidate = Absent
       /\ w.bucket = pool /\ w.tickets = written /\ w.served = n
  BY <1>4, <1>14, WritingFields
<1> HIDE DEF m, w
<1>16. Fits(w, m, disk, uses)
  <2>1. WritesTheRest(w, m, disk)
    BY <1>1, <1>2, <1>13, <1>14, <1>15, NothingOwed DEF WritesTheRest
  <2>2. CandidateIsFirst(w, m) /\ OwesNothing(w)
    BY <1>15 DEF CandidateIsFirst, OwesNothing
  <2>3. ServedIsOpen(w, m, uses)
    BY <1>9, <1>10, <1>13, <1>14, <1>15 DEF ServedIsOpen
  <2> QED BY <2>1, <2>2, <2>3 DEF Fits
<1>17. /\ sold' = sold /\ sold \subseteq sold' /\ sold' \subseteq Numbers
       /\ live' \in [Numbers -> TicketIds \cup {Absent}]
  BY <1>1, <1>7, RequestParts
<1>18. w.pc # "idle"
  BY <1>15
<1>19. Sound(m, sold', uses)
  BY <1>12, <1>17
<1>20. Behind(w, m, disk, sold', uses, now)
  BY <1>14, <1>15, WrittenBehind
<1> QED BY <1>1, <1>12, <1>15, <1>16, <1>17, <1>18, <1>19, <1>20, RequestKeeps

(* A use is counted for the number that was served.                        *)
LEMMA CommitCounts ==
    ASSUME PoolInv, NEW r \in Requests, Commit(r)
    PROVE  /\ uses' \in [Numbers -> 0..(MaxReuse + 1)]
           /\ \A n \in Numbers : uses'[n] <= MaxReuse
           /\ Sound(mem, sold, uses')
           /\ \A n \in Numbers : n \notin sold => uses'[n] = 0
           /\ step[r].bucket = Absent => uses' = uses
<1> DEFINE x == step[r]
           V == [n \in Numbers |-> IF n = x.served /\ uses[n] <= MaxReuse
                                   THEN uses[n] + 1 ELSE uses[n]]
<1>1. uses' = V /\ x.pc = "commit"
  BY DEF Commit
<1>2. /\ uses \in [Numbers -> 0..(MaxReuse + 1)] /\ \A n \in Numbers : uses[n] <= MaxReuse
      /\ \A n \in Numbers : n \notin sold => uses[n] = 0
  BY DEF PoolInv, PoolTypeOK, ReusedWithinMax, NeverSoldNeverUsed
<1>3. x \in Step /\ Fits(x, mem, disk, uses) /\ Sound(mem, sold, uses) /\ mem \in State
  BY RequestParts
<1>4. CASE x.served = Absent
  <2>1. \A n \in Numbers : n # x.served
    BY <1>4, AbsentAssumption
  <2>2. V = uses
    BY <1>2, <2>1
  <2> QED BY <1>1, <1>2, <1>3, <2>2
<1>5. CASE x.served # Absent
  <2>1. PICK t \in TicketIds : /\ mem.tickets[t].status = "open"
                               /\ mem.tickets[t].number = x.served
                               /\ uses[x.served] + 1 <= Credit(mem.tickets[t])
    BY <1>3, <1>5 DEF Fits, ServedIsOpen
  <2> DEFINE n0 == x.served
             k == mem.tickets[t]
  <2>2. n0 \in Numbers /\ k \in Ticket
    BY <1>3, <1>5, StepParts, StateParts
  <2>3. Credit(k) <= MaxReuse /\ Credit(k) \in Nat
    BY <2>2, BoundsAssumption DEF Credit, Ticket
  <2>4. uses[n0] \in Nat /\ uses[n0] + 1 <= MaxReuse
    <3>1. uses[n0] \in Nat
      BY <1>2, <2>2
    <3>2. uses[n0] + 1 <= Credit(k)
      BY <2>1
    <3> HIDE DEF n0, k
    <3> QED BY <2>3, <3>1, <3>2, BoundsAssumption
  <2>5. /\ V[n0] = uses[n0] + 1
        /\ \A n \in Numbers : n # n0 => V[n] = uses[n]
    BY <1>2, <2>2
  <2>6. \A n \in Numbers : V[n] \in 0..(MaxReuse + 1) /\ V[n] <= MaxReuse
    BY <1>2, <2>4, <2>5, BoundsAssumption
  <2>7. V \in [Numbers -> 0..(MaxReuse + 1)]
    BY <2>6
  <2> HIDE DEF V, n0, k
  <2>8. n0 \in sold
    BY <1>3, <2>1 DEF Sound, WasSold, n0, k
  <2>9. EntriesCount(mem, V)
    <3>1. ASSUME NEW i \in DOMAIN mem.pool PROVE V[mem.pool[i].number] <= mem.pool[i].count
      <4>1. mem.pool[i].number # n0
        BY <1>3, <2>1 DEF Sound, WaitsOrOpen, n0
      <4>2. mem.pool[i].number \in Numbers
        BY <1>3, StateParts DEF Entry
      <4>3. uses[mem.pool[i].number] <= mem.pool[i].count
        BY <1>3 DEF Sound, EntriesCount
      <4> QED BY <2>5, <4>1, <4>2, <4>3
    <3> QED BY <3>1 DEF EntriesCount
  <2>10. TicketsCount(mem, V)
    <3>1. ASSUME NEW u \in TicketIds, mem.tickets[u].status = "open"
          PROVE  V[mem.tickets[u].number] <= Credit(mem.tickets[u])
      <4>1. CASE u = t
        BY <2>1, <2>5, <4>1 DEF n0, k
      <4>2. CASE u # t
        <5>1. mem.tickets[u].number # n0
          BY <1>3, <2>1, <3>1, <4>2 DEF Sound, OpenOnce, n0
        <5>2. mem.tickets[u].number \in sold /\ sold \subseteq Numbers
          BY <1>3, <3>1, RequestParts DEF Sound, WasSold
        <5>3. uses[mem.tickets[u].number] <= Credit(mem.tickets[u])
          BY <1>3, <3>1 DEF Sound, TicketsCount
        <5> QED BY <2>5, <5>1, <5>2, <5>3
      <4> QED BY <4>1, <4>2
    <3> QED BY <3>1 DEF TicketsCount
  <2>11. Sound(mem, sold, V)
    BY <1>3, <2>9, <2>10 DEF Sound
  <2>12. \A n \in Numbers : n \notin sold => V[n] = 0
    BY <1>2, <2>5, <2>8
  <2>13. x.bucket # Absent
    BY <1>3, <1>5 DEF Fits, ServedIsOpen
  <2> QED BY <1>1, <2>6, <2>7, <2>11, <2>12, <2>13 DEF V
<1> QED BY <1>4, <1>5

(* Tickets that differ from sound ones in the offer of a retry alone.      *)
LEMMA SoundWithAgreeing ==
    ASSUME NEW s \in State, NEW S, NEW U, Sound(s, S, U), NEW w \in State, w.pool = s.pool,
           \A t \in TicketIds : Agree(w.tickets[t], s.tickets[t]), PoolNotRetried(w)
    PROVE  Sound(w, S, U)
<1>1. \A t \in TicketIds : /\ w.tickets[t].status = s.tickets[t].status
                          /\ w.tickets[t].number = s.tickets[t].number
                          /\ Credit(w.tickets[t]) = Credit(s.tickets[t])
  <2> TAKE t \in TicketIds
  <2>1. s.tickets[t] \in Ticket
    BY StateParts
  <2> QED BY <2>1 DEF Agree, Ticket, Credit
<1>2. WaitsOnce(w) /\ EntriesCount(w, U)
  BY DEF Sound, WaitsOnce, EntriesCount
<1>3. WaitsOrOpen(w) /\ OpenOnce(w)
  BY <1>1 DEF Sound, WaitsOrOpen, OpenOnce
<1>4. WasSold(w, S) /\ TicketsCount(w, U)
  BY <1>1 DEF Sound, WasSold, TicketsCount
<1> QED BY <1>2, <1>3, <1>4 DEF Sound

LEMMA CommitKeeps ==
    ASSUME PoolInv, OneRequest, NEW r \in Requests, Commit(r)
    PROVE  PoolInv'
<1> DEFINE x == step[r]
           tickets == [t \in TicketIds |-> IF t \in x.tickets THEN mem.tickets[t]
                                           ELSE disk.tickets[t]]
           pool == IF x.bucket = Absent THEN disk.pool ELSE x.bucket
<1>1. /\ disk' = [pool |-> pool, tickets |-> tickets]
      /\ step' = [step EXCEPT ![r] = Idle]
      /\ UNCHANGED <<now, mem, live, sold, restarts>>
  BY DEF Commit
<1>2. /\ WritesTheRest(x, mem, disk) /\ mem \in State /\ disk \in State
      /\ step \in [Requests -> Step] /\ x \in Step /\ x.pc = "commit"
      /\ Behind(x, mem, disk, sold, uses, now)
  BY RequestParts DEF Fits, Commit
<1>3. \A t \in TicketIds : Agree(tickets[t], mem.tickets[t])
  BY <1>2 DEF WritesTheRest, Agree
<1>4. tickets \in [TicketIds -> Ticket] /\ PoolNotRetried([pool |-> pool, tickets |-> tickets])
  <2>1. \A t \in TicketIds : tickets[t] = mem.tickets[t] \/ tickets[t] = disk.tickets[t]
    OBVIOUS
  <2>2. tickets = [t \in TicketIds |-> tickets[t]]
    OBVIOUS
  <2>3. PoolNotRetried(mem) /\ PoolNotRetried(disk)
    BY RequestParts DEF Sound
  <2> HIDE DEF tickets, pool
  <2> QED BY <1>2, <2>1, <2>2, <2>3, StateParts DEF PoolNotRetried
<1>5. pool \in Seq(Entry) /\ (x.bucket = Absent => pool = disk.pool)
      /\ (x.bucket # Absent => pool = mem.pool)
  BY <1>2, StateParts, StepParts DEF WritesTheRest
<1> HIDE DEF pool, tickets
<1>6. disk' \in State /\ disk'.pool = pool /\ disk'.tickets = tickets
  BY <1>1, <1>4, <1>5 DEF State
<1>7. Mixed(mem, disk') \in State /\ Sound(Mixed(mem, disk'), sold, uses')
  <2>1. CASE x.bucket = Absent
    <3>1. Mixed(mem, disk') = Mixed(mem, disk)
      BY <1>5, <1>6, <2>1 DEF Mixed
    <3>2. Sound(Mixed(mem, disk), sold, uses) /\ uses' = uses
      BY <1>2, <2>1, CommitCounts DEF Behind, BucketStays
    <3>3. Mixed(mem, disk) \in State
      BY <1>2, StateParts DEF Mixed, State
    <3> QED BY <3>1, <3>2, <3>3
  <2>2. CASE x.bucket # Absent
    <3>1. Mixed(mem, disk') = mem
      BY <1>2, <1>5, <1>6, <2>2, StateParts DEF Mixed
    <3> QED BY <1>2, <3>1, CommitCounts
  <2> QED BY <2>1, <2>2
<1>8. Sound(disk', sold, uses')
  BY <1>1, <1>3, <1>4, <1>6, <1>7, SoundWithAgreeing DEF Mixed
<1>9. SameUse(mem.pool, disk'.pool, now)
  <2>1. CASE x.bucket = Absent
    BY <1>2, <1>5, <1>6, <2>1 DEF Behind, BucketStays
  <2>2. CASE x.bucket # Absent
    BY <1>5, <1>6, <2>2 DEF SameUse
  <2> QED BY <2>1, <2>2
<1>10. /\ Idle \in Step /\ Idle.pc = "idle" /\ Idle.candidate = Absent /\ Idle.bucket = Absent
       /\ Idle.tickets = {} /\ Idle.served = Absent
  BY DEF Idle, Step
<1>11. Fits(Idle, mem, disk', uses') /\ Behind(Idle, mem, disk', sold, uses', now)
  BY <1>3, <1>6, <1>7, <1>9, <1>10
     DEF Fits, WritesTheRest, CandidateIsFirst, ServedIsOpen, OwesNothing, Behind
<1>12. /\ step' \in [Requests -> Step] /\ step'[r] = Idle
       /\ \A q \in Requests : Fits(step'[q], mem, disk', uses')
  BY <1>1, <1>2, <1>10, <1>11, OnlyRequest
<1>13. \A q \in Requests : Behind(step'[q], mem, disk', sold, uses', now)
  <2>1. \A q \in Requests : q = r
    BY DEF OneRequest
  <2> QED BY <1>11, <1>12, <2>1
<1>14. PoolTypeOK'
  BY <1>1, <1>2, <1>6, <1>12, CommitCounts DEF PoolInv, PoolTypeOK
<1>15. Sound(mem, sold, uses)'
  <2>1. Sound(mem, sold, uses')
    BY CommitCounts
  <2> QED BY <1>1, <2>1
<1>16. IdleDiskAgrees'
  BY <1>1, <1>3, <1>6, <1>9 DEF IdleDiskAgrees, SameUse, UsableAt, Usable
<1>17. NeverSoldNeverUsed' /\ ReusedWithinMax'
  BY <1>1, CommitCounts DEF NeverSoldNeverUsed, ReusedWithinMax
<1> QED BY <1>1, <1>8, <1>12, <1>13, <1>14, <1>15, <1>16, <1>17 DEF PoolInv

LEMMA ProcessRestartKeeps ==
    ASSUME PoolInv, ProcessRestart
    PROVE  PoolInv'
<1>1. /\ mem' = disk /\ step' = [r \in Requests |-> Idle] /\ restarts' = restarts + 1
      /\ restarts < MaxRestarts
      /\ UNCHANGED <<now, disk, live, sold, uses>>
  BY DEF ProcessRestart
<1>2. /\ Idle \in Step /\ Idle.pc = "idle" /\ Idle.candidate = Absent /\ Idle.bucket = Absent
      /\ Idle.tickets = {} /\ Idle.served = Absent
  BY DEF Idle, Step
<1>3. /\ Fits(Idle, disk, disk, uses) /\ Behind(Idle, disk, disk, sold, uses, now)
      /\ disk \in State /\ Sound(disk, sold, uses)
  <2>1. disk \in State /\ Sound(disk, sold, uses)
    BY DEF PoolInv, PoolTypeOK
  <2>2. Mixed(disk, disk) = disk
    BY <2>1, StateParts DEF Mixed
  <2> QED BY <1>2, <2>1, <2>2
     DEF Fits, WritesTheRest, Agree, CandidateIsFirst, ServedIsOpen, OwesNothing, Behind, SameUse
<1>4. \A q \in Requests : /\ Fits(step'[q], mem', disk', uses')
                        /\ Behind(step'[q], mem', disk', sold', uses', now')
  BY <1>1, <1>3
<1>5. restarts' \in 0..MaxRestarts
  BY <1>1, BoundsAssumption DEF PoolInv, PoolTypeOK
<1>6. step' \in [Requests -> Step]
  BY <1>1, <1>2
<1>7. PoolTypeOK'
  BY <1>1, <1>5, <1>6 DEF PoolInv, PoolTypeOK
<1>8. Sound(mem, sold, uses)' /\ Sound(disk, sold, uses)'
  BY <1>1 DEF PoolInv
<1>9. IdleDiskAgrees' /\ NeverSoldNeverUsed' /\ ReusedWithinMax'
  BY <1>1 DEF PoolInv, IdleDiskAgrees, Agree, NeverSoldNeverUsed, ReusedWithinMax
<1> QED BY <1>4, <1>7, <1>8, <1>9 DEF PoolInv

(* What neither the pool nor the tickets see.                              *)
LEMMA ElsewhereKeeps ==
    ASSUME PoolInv, UNCHANGED <<mem, disk, step, sold, uses, restarts>>,
           now' \in 0..MaxTime, now <= now', live' \in [Numbers -> TicketIds \cup {Absent}]
    PROVE  PoolInv'
<1>0. /\ now \in Nat /\ now' \in Nat /\ mem.pool \in Seq(Entry) /\ disk.pool \in Seq(Entry)
      /\ SameUse(mem.pool, disk.pool, now) => SameUse(mem.pool, disk.pool, now')
  <2>1. now \in Nat /\ now' \in Nat /\ mem \in State /\ disk \in State
    BY BoundsAssumption DEF PoolInv, PoolTypeOK
  <2>2. mem.pool \in Seq(Entry) /\ disk.pool \in Seq(Entry)
    BY <2>1, StateParts
  <2> QED BY <2>1, <2>2, SameUseLater
<1>1. PoolTypeOK'
  BY DEF PoolInv, PoolTypeOK
<1>2. /\ Sound(mem, sold, uses)' /\ Sound(disk, sold, uses)'
      /\ \A r \in Requests : Fits(step'[r], mem', disk', uses')
  BY DEF PoolInv
<1>3. \A r \in Requests : Behind(step'[r], mem', disk', sold', uses', now')
  BY <1>0 DEF PoolInv, Behind
<1>4. IdleDiskAgrees'
  BY <1>0 DEF PoolInv, IdleDiskAgrees, Usable, SameUse, UsableAt
<1>5. NeverSoldNeverUsed' /\ ReusedWithinMax'
  BY DEF PoolInv, NeverSoldNeverUsed, ReusedWithinMax
<1> QED BY <1>1, <1>2, <1>3, <1>4, <1>5 DEF PoolInv

LEMMA PoolStarts == PoolInit => PoolInv
<1> SUFFICES ASSUME PoolInit PROVE PoolInv
  OBVIOUS
<1> DEFINE none == [t \in TicketIds |-> NoTicket]
           s == [pool |-> <<>>, tickets |-> none]
<1>1. /\ now = 0 /\ mem = s /\ disk = s /\ step = [r \in Requests |-> Idle]
      /\ live = [n \in Numbers |-> Absent] /\ sold = {} /\ uses = [n \in Numbers |-> 0]
      /\ restarts = 0
  BY DEF PoolInit
<1>2. /\ NoTicket \in Ticket /\ NoTicket.status = "none" /\ ~NoTicket.retry
  BY BoundsAssumption DEF NoTicket, Ticket
<1>3. s \in State /\ s.pool = <<>> /\ \A t \in TicketIds : s.tickets[t] = NoTicket
  BY <1>2 DEF State
<1>4. DOMAIN s.pool = {}
  BY <1>3
<1> HIDE DEF s
<1>5. Sound(s, sold, uses)
  BY <1>2, <1>3, <1>4 DEF Sound, WaitsOnce, WaitsOrOpen, OpenOnce, WasSold, PoolNotRetried,
                          EntriesCount, TicketsCount
<1>6. /\ Idle \in Step /\ Idle.pc = "idle" /\ Idle.candidate = Absent /\ Idle.bucket = Absent
      /\ Idle.tickets = {} /\ Idle.served = Absent
  BY DEF Idle, Step
<1>7. Fits(Idle, s, s, uses) /\ Behind(Idle, s, s, sold, uses, now)
  <2>1. Mixed(s, s) = s
    BY <1>3, StateParts DEF Mixed
  <2> QED BY <1>5, <1>6, <2>1
     DEF Fits, WritesTheRest, Agree, CandidateIsFirst, ServedIsOpen, OwesNothing, Behind, SameUse
<1>8. PoolTypeOK
  BY <1>1, <1>3, <1>6, BoundsAssumption DEF PoolTypeOK
<1>9. IdleDiskAgrees /\ NeverSoldNeverUsed /\ ReusedWithinMax
  BY <1>1, BoundsAssumption DEF IdleDiskAgrees, Agree, NeverSoldNeverUsed, ReusedWithinMax
<1> QED BY <1>1, <1>5, <1>7, <1>8, <1>9 DEF PoolInv

LEMMA PoolSteps == PoolInv /\ OneRequest /\ [PoolNext]_poolVars => PoolInv'
<1> SUFFICES ASSUME PoolInv, OneRequest, [PoolNext]_poolVars PROVE PoolInv'
  OBVIOUS
<1>0. /\ now \in 0..MaxTime /\ now <= now /\ live \in [Numbers -> TicketIds \cup {Absent}]
  BY BoundsAssumption DEF PoolInv, PoolTypeOK
<1>1. ASSUME NEW r \in Requests, Peek(r) PROVE PoolInv'
  BY <1>1, PeekKeeps
<1>2. ASSUME NEW r \in Requests, NEW t \in TicketIds, NEW n \in Numbers, NEW retry \in BOOLEAN,
             NumberAcquired(r, t, n, retry)
      PROVE  PoolInv'
  BY <1>2, FreshKeeps, ExactKeeps
<1>3. ASSUME NEW r \in Requests, NotAcquired(r) \/ UnitDropped(r) PROVE PoolInv'
  BY <1>3, NotAcquiredKeeps, UnitDroppedKeeps
<1>4. ASSUME NEW r \in Requests, NEW t \in TicketIds, RetryTaken(r, t) PROVE PoolInv'
  BY <1>4, RetryTakenKeeps
<1>5. ASSUME NEW r \in Requests, NEW t \in TicketIds, RetryRefused(r, t) PROVE PoolInv'
  BY <1>5, RetryRefusedKeeps
<1>6. ASSUME NEW r \in Requests, NEW t \in TicketIds, Finish(r, t) PROVE PoolInv'
  BY <1>6, FinishKeeps
<1>7. ASSUME NEW r \in Requests, NEW t \in TicketIds, Cancel(r, t) PROVE PoolInv'
  BY <1>7, CancelKeeps
<1>8. ASSUME NEW r \in Requests, Clear(r) PROVE PoolInv'
  BY <1>8, ClearKeeps
<1>9. ASSUME NEW r \in Requests, Commit(r) PROVE PoolInv'
  BY <1>9, CommitKeeps
<1>10. CASE ProcessRestart
  BY <1>10, ProcessRestartKeeps
<1>11. ASSUME NEW n \in Numbers, ActivationEnds(n) PROVE PoolInv'
  <2>1. live' \in [Numbers -> TicketIds \cup {Absent}]
    BY <1>0, <1>11 DEF ActivationEnds
  <2> QED BY <1>0, <1>11, <2>1, ElsewhereKeeps DEF ActivationEnds
<1>12. CASE Tick
  <2>1. now' \in 0..MaxTime /\ now <= now'
    BY <1>0, <1>12, BoundsAssumption DEF Tick
  <2> QED BY <1>0, <1>12, <2>1, ElsewhereKeeps DEF Tick
<1>13. CASE UNCHANGED poolVars
  BY <1>0, <1>13, ElsewhereKeeps DEF poolVars
<1> QED BY <1>1, <1>2, <1>3, <1>4, <1>5, <1>6, <1>7, <1>8, <1>9, <1>10, <1>11, <1>12, <1>13
        DEF PoolNext

(* With one request at a time memory and the database hold what they       *)
(* should, and a number is served as often as it may be.                   *)
LEMMA PoolHolds == OneRequest /\ PoolSpec => []PoolInv
<1>1. SUFFICES ASSUME OneRequest PROVE PoolSpec => []PoolInv
  OBVIOUS
<1>2. PoolInv /\ [PoolNext]_poolVars => PoolInv'
  BY <1>1, PoolSteps
<1> QED BY <1>2, PoolStarts, PTL DEF PoolSpec

(* PooledOnce: with one request at a time, a number never waits twice, nor *)
(* while a ticket of it is open.                                           *)
THEOREM NumbersWaitOnce == OneRequest /\ PoolSpec => []PooledOnce
<1>1. PoolInv => PooledOnce
  BY DEF PoolInv, PooledOnce, Sound, WaitsOnce, WaitsOrOpen
<1> QED BY <1>1, PoolHolds, PTL

(* IdleDiskAgrees: with one request at a time, a restart between two       *)
(* operations offers the same numbers for reuse and knows the same         *)
(* tickets, but for the offer of a retry that was refused: what the        *)
(* dropped unit of a failed provider had cleaned away is never offered     *)
(* again, however often that happens and however late the restart.         *)
THEOREM RestartOffersTheSame == OneRequest /\ PoolSpec => []IdleDiskAgrees
<1>1. PoolInv => IdleDiskAgrees
  BY DEF PoolInv
<1> QED BY <1>1, PoolHolds, PTL

(* ReusedWithinMax: with one request at a time, no number is handed out    *)
(* again more than reuse_max times.                                        *)
THEOREM ReuseStopsAtMax == OneRequest /\ PoolSpec => []ReusedWithinMax
<1>1. PoolInv => ReusedWithinMax
  BY DEF PoolInv
<1> QED BY <1>1, PoolHolds, PTL

-----------------------------------------------------------------------------
(* Types need no more than that a candidate was usable when it was taken   *)
(* and that an open ticket has a number, however many requests there are.  *)
CandidatesUsable ==
    \A r \in Requests : step[r].candidate # Absent => step[r].candidate.count < MaxReuse

Numbered == {k \in Ticket : k.status = "open" => k.number \in Numbers}

PoolTypesInv ==
    /\ PoolTypeOK /\ CandidatesUsable
    /\ mem.tickets \in [TicketIds -> Numbered] /\ disk.tickets \in [TicketIds -> Numbered]

(* What is left when a candidate is taken out.                             *)
LEMMA ConsumedEntries ==
    ASSUME NEW p \in Seq(Entry), NEW c
    PROVE  Consumed(p, c) \in Seq(Entry)
<1> DEFINE I == {i \in 1..Len(p) : p[i].number = c.number}
           at == SelectInSeq(p, LAMBDA e : e.number = c.number)
<1>1. at = 0 \/ at \in 1..Len(p)
  <2>1. at = IF I # {} THEN Min(I) ELSE 0
    BY DEF SelectInSeq
  <2>2. Min(I) = CHOOSE x \in I : \A y \in I : x <= y
    BY DEF Min
  <2>3. ASSUME I # {} PROVE Min(I) \in I
    <3>1. I \in SUBSET Nat
      OBVIOUS
    <3> HIDE DEF I
    <3>2. \E x \in I : \A y \in I : x <= y
      BY <2>3, <3>1, LeastNumber
    <3> QED BY <2>2, <3>2
  <2>4. I \subseteq 1..Len(p)
    OBVIOUS
  <2> HIDE DEF I, at
  <2> QED BY <2>1, <2>3, <2>4
<1>2. Consumed(p, c) = IF at = 0 THEN p ELSE RemoveAt(p, at)
  BY DEF Consumed
<1> HIDE DEF at
<1>3. ASSUME NEW i \in 1..Len(p) PROVE RemoveAt(p, i) \in Seq(Entry)
  <2>1. RemoveAt(p, i) = SubSeq(p, 1, i - 1) \o SubSeq(p, i + 1, Len(p))
    BY DEF RemoveAt
  <2>2. Len(p) \in Nat /\ \A j \in 1..Len(p) : p[j] \in Entry
    OBVIOUS
  <2>3. i - 1 \in Int /\ i + 1 \in Int
    BY <2>2
  <2>4. (\A j \in 1..(i - 1) : p[j] \in Entry) /\ (\A j \in (i + 1)..Len(p) : p[j] \in Entry)
    BY <2>2
  <2>5. SubSeq(p, 1, i - 1) \in Seq(Entry)
    BY <2>3, <2>4, SubSeqProperties
  <2>6. SubSeq(p, i + 1, Len(p)) \in Seq(Entry)
    BY <2>2, <2>3, <2>4, SubSeqProperties
  <2> QED BY <2>1, <2>5, <2>6
<1> QED BY <1>1, <1>2, <1>3

LEMMA PoolTypesStep ==
    ASSUME PoolTypesInv, [PoolNext]_poolVars
    PROVE  PoolTypesInv'
<1>0. /\ now \in 0..MaxTime /\ mem \in State /\ disk \in State /\ step \in [Requests -> Step]
      /\ live \in [Numbers -> TicketIds \cup {Absent}] /\ sold \subseteq Numbers
      /\ uses \in [Numbers -> 0..(MaxReuse + 1)] /\ restarts \in 0..MaxRestarts
      /\ CandidatesUsable
  BY DEF PoolTypesInv, PoolTypeOK
<1>m. /\ mem.pool \in Seq(Entry) /\ mem.tickets \in [TicketIds -> Numbered]
      /\ disk.pool \in Seq(Entry) /\ disk.tickets \in [TicketIds -> Numbered]
  BY <1>0, StateParts DEF PoolTypesInv
(* A request takes a step: memory, its step and the provider may change.   *)
<1>r. ASSUME NEW r \in Requests, NEW x \in Step, step' = [step EXCEPT ![r] = x],
             x.candidate # Absent => x.candidate.count < MaxReuse,
             NEW p \in Seq(Entry), NEW k \in [TicketIds -> Numbered],
             mem' = [pool |-> p, tickets |-> k],
             live' \in [Numbers -> TicketIds \cup {Absent}], sold' \subseteq Numbers,
             UNCHANGED <<now, disk, uses, restarts>>
      PROVE  PoolTypesInv'
  <2>0. k \in [TicketIds -> Ticket]
    BY <1>r DEF Numbered
  <2>1. step' \in [Requests -> Step] /\ mem' \in State /\ mem'.tickets = k
    BY <1>0, <1>r, <2>0 DEF State
  <2>2. \A q \in Requests : step'[q] = IF q = r THEN x ELSE step[q]
    BY <1>0, <1>r
  <2>3. CandidatesUsable'
    BY <1>0, <1>r, <2>2 DEF CandidatesUsable
  <2>4. PoolTypeOK'
    BY <1>0, <1>r, <2>1 DEF PoolTypeOK
  <2>5. mem'.tickets \in [TicketIds -> Numbered] /\ disk'.tickets \in [TicketIds -> Numbered]
    BY <1>r, <1>m, <2>1
  <2> QED BY <2>3, <2>4, <2>5 DEF PoolTypesInv
<1>w. /\ {} \in SUBSET TicketIds /\ \A t \in TicketIds : {t} \in SUBSET TicketIds
      /\ <<>> \in Seq(Entry)
  OBVIOUS
<1>t. mem = [pool |-> mem.pool, tickets |-> mem.tickets]
  BY <1>0, StateParts
<1>1. ASSUME NEW r \in Requests, Peek(r) PROVE PoolTypesInv'
  <2> DEFINE usable == Usable(mem.pool)
             first == IF usable = <<>> THEN Absent ELSE Head(usable)
             bucket == IF Len(usable) = Len(mem.pool) THEN Absent ELSE usable
             x == [step[r] EXCEPT !.pc = "asked", !.candidate = first, !.bucket = bucket]
  <2>1. usable \in Seq(Entry) /\ \A i \in DOMAIN usable : usable[i].count < MaxReuse
    BY <1>m, UsableEntries
  <2>2. /\ mem' = [mem EXCEPT !.pool = usable]
        /\ step' = [step EXCEPT ![r].pc = "asked", ![r].candidate = first, ![r].bucket = bucket]
        /\ UNCHANGED <<now, disk, live, sold, uses, restarts>>
    BY <1>1 DEF Peek
  <2> HIDE DEF usable
  <2>3. /\ first \in Entry \cup {Absent} /\ (first # Absent => first.count < MaxReuse)
        /\ bucket \in Seq(Entry) \cup {Absent}
    <3>1. usable # <<>> => 1 \in DOMAIN usable /\ Head(usable) = usable[1] /\ usable[1] \in Entry
      BY <2>1
    <3> QED BY <2>1, <3>1
  <2> HIDE DEF first, bucket
  <2>4. mem' = [pool |-> usable, tickets |-> mem.tickets]
    BY <1>0, <2>2 DEF State
  <2>5. step' = [step EXCEPT ![r] = x]
    BY <1>0, <2>2
  <2>6. x \in Step /\ x.candidate = first
    BY <1>0, <2>3 DEF Step
  <2> HIDE DEF x
  <2> QED BY <1>0, <1>m, <1>r, <2>1, <2>2, <2>3, <2>4, <2>5, <2>6
<1>2. ASSUME NEW r \in Requests, NEW t \in TicketIds, NEW n \in Numbers, NEW retry \in BOOLEAN,
             NumberAcquired(r, t, n, retry)
      PROVE  PoolTypesInv'
  <2> DEFINE c == step[r].candidate
             pool == IF c = Absent THEN mem.pool ELSE Consumed(mem.pool, c)
             k == [number |-> n, status |-> "open", retry |-> retry,
                   path |-> IF c = Absent THEN "fresh" ELSE "exact",
                   count |-> IF c = Absent THEN 0 ELSE c.count + 1]
             b == IF c = Absent THEN step[r].bucket ELSE pool
             s == IF c = Absent THEN Absent ELSE n
             x == Writing(b, step[r].tickets \cup {t}, s)
  <2>1. /\ mem' = [pool |-> pool, tickets |-> [mem.tickets EXCEPT ![t] = k]]
        /\ step' = [step EXCEPT ![r] = x]
        /\ live' = [live EXCEPT ![n] = t] /\ sold' = sold \cup {n}
        /\ UNCHANGED <<now, disk, uses, restarts>>
    BY <1>2 DEF NumberAcquired
  <2>2. step[r] \in Step /\ c \in Entry \cup {Absent}
    BY <1>0, StepParts
  <2>3. c # Absent => c.count + 1 \in 0..MaxReuse
    BY <1>0, <2>2, BoundsAssumption DEF CandidatesUsable, Entry
  <2>4. k \in Numbered
    BY <2>3, BoundsAssumption DEF Ticket, Numbered
  <2>5. pool \in Seq(Entry)
    BY <1>m, ConsumedEntries
  <2> HIDE DEF k, pool
  <2>6. b \in Seq(Entry) \cup {Absent} /\ s \in Numbers \cup {Absent}
        /\ step[r].tickets \cup {t} \in SUBSET TicketIds
    BY <2>2, <2>5, StepParts
  <2> HIDE DEF b, s
  <2>7. x \in Step /\ x.candidate = Absent
    BY <2>6, WritingFields
  <2>8. [mem.tickets EXCEPT ![t] = k] \in [TicketIds -> Numbered]
    BY <1>m, <2>4
  <2>9. live' \in [Numbers -> TicketIds \cup {Absent}] /\ sold' \subseteq Numbers
    BY <1>0, <2>1
  <2> HIDE DEF x
  <2> QED BY <1>r, <2>1, <2>5, <2>7, <2>8, <2>9
<1>3. ASSUME NEW r \in Requests, NotAcquired(r) PROVE PoolTypesInv'
  <2> DEFINE x == Writing(step[r].bucket, step[r].tickets, Absent)
  <2>1. /\ step[r].bucket \in Seq(Entry) \cup {Absent} /\ step[r].tickets \in SUBSET TicketIds
    BY <1>0, StepParts
  <2>2. x \in Step /\ x.candidate = Absent
    BY <2>1, WritingFields
  <2>3. step' = [step EXCEPT ![r] = x] /\ UNCHANGED <<now, mem, disk, live, sold, uses, restarts>>
    BY <1>3 DEF NotAcquired
  <2> HIDE DEF x
  <2> QED BY <1>0, <1>m, <1>t, <1>r, <2>2, <2>3
<1>d. ASSUME NEW r \in Requests, UnitDropped(r) PROVE PoolTypesInv'
  <2>1. step' = [step EXCEPT ![r] = Idle] /\ UNCHANGED <<now, mem, disk, live, sold, uses, restarts>>
    BY <1>d DEF UnitDropped
  <2>2. Idle \in Step /\ Idle.candidate = Absent
    BY DEF Idle, Step
  <2> QED BY <1>0, <1>m, <1>t, <1>r, <2>1, <2>2
<1>4. ASSUME NEW r \in Requests, NEW t \in TicketIds, RetryTaken(r, t)
      PROVE  PoolTypesInv'
  <2> DEFINE x == Writing(Absent, {t}, Absent)
             k == [mem.tickets EXCEPT ![t] = [mem.tickets[t] EXCEPT !.path = "retry", !.count = @ + 1]]
  <2>1. /\ mem' = [mem EXCEPT !.tickets[t].path = "retry", !.tickets[t].count = @ + 1]
        /\ step' = [step EXCEPT ![r] = x] /\ mem.tickets[t].count < MaxReuse
        /\ UNCHANGED <<now, disk, live, sold, uses, restarts>>
    BY <1>4 DEF RetryTaken, Retryable
  <2>2. mem.tickets[t].count + 1 \in 0..MaxReuse
    BY <1>m, <2>1, BoundsAssumption DEF Ticket, Numbered
  <2>3. k \in [TicketIds -> Numbered]
    BY <1>m, <2>2 DEF Ticket, Numbered
  <2>4. mem' = [pool |-> mem.pool, tickets |-> k]
    BY <1>0, <2>1 DEF State
  <2>5. x \in Step /\ x.candidate = Absent
    BY <1>w, WritingFields
  <2> HIDE DEF x, k
  <2> QED BY <1>0, <1>m, <1>r, <2>1, <2>3, <2>4, <2>5
<1>5. ASSUME NEW r \in Requests, NEW t \in TicketIds, RetryRefused(r, t)
      PROVE  PoolTypesInv'
  <2> DEFINE x == [step[r] EXCEPT !.pc = "refused", !.tickets = {t}]
             k == [mem.tickets EXCEPT ![t] = [@ EXCEPT !.retry = FALSE]]
  <2>1. /\ mem' = [mem EXCEPT !.tickets[t].retry = FALSE]
        /\ step' = [step EXCEPT ![r].pc = "refused", ![r].tickets = {t}]
        /\ UNCHANGED <<now, disk, live, sold, uses, restarts>>
    BY <1>5 DEF RetryRefused
  <2>2. k \in [TicketIds -> Numbered]
    BY <1>m DEF Ticket, Numbered
  <2>3. mem' = [pool |-> mem.pool, tickets |-> k]
    BY <1>0, <2>1 DEF State
  <2>4. x \in Step /\ x.candidate = step[r].candidate
    BY <1>0 DEF Step
  <2>5. step' = [step EXCEPT ![r] = x]
    BY <1>0, <2>1
  <2>6. x.candidate # Absent => x.candidate.count < MaxReuse
    BY <1>0, <2>4 DEF CandidatesUsable
  <2> HIDE DEF x, k
  <2> QED BY <1>0, <1>m, <1>r, <2>1, <2>2, <2>3, <2>4, <2>5, <2>6
<1>6. ASSUME NEW r \in Requests, NEW t \in TicketIds, Finish(r, t)
      PROVE  PoolTypesInv'
  <2> DEFINE e == Recorded(mem.tickets[t])
             pool == Append(mem.pool, e)
             x == Writing(pool, {t}, Absent)
             k == [mem.tickets EXCEPT ![t].status = "finished"]
  <2>1. /\ mem' = [pool |-> pool, tickets |-> k]
        /\ step' = [step EXCEPT ![r] = x]
        /\ live' = [live EXCEPT ![mem.tickets[t].number] = Absent]
        /\ live[mem.tickets[t].number] = t
        /\ UNCHANGED <<now, disk, sold, uses, restarts>>
    BY <1>6 DEF Finish
  <2>2. mem.tickets[t].number \in Numbers
    BY <1>6, <1>m DEF Finish, Numbered
  <2>3. e \in Entry
    BY <1>0, <1>m, <2>2, BoundsAssumption DEF Recorded, Entry, Ticket, Numbered
  <2>4. k \in [TicketIds -> Numbered]
    BY <1>m DEF Ticket, Numbered
  <2>5. pool \in Seq(Entry)
    BY <1>m, <2>3
  <2> HIDE DEF pool, k
  <2>6. x \in Step /\ x.candidate = Absent
    BY <1>w, <2>5, WritingFields
  <2>7. live' \in [Numbers -> TicketIds \cup {Absent}]
    BY <1>0, <2>1
  <2> HIDE DEF x
  <2> QED BY <1>0, <1>r, <2>1, <2>4, <2>5, <2>6, <2>7
<1>7. ASSUME NEW r \in Requests, NEW t \in TicketIds, Cancel(r, t)
      PROVE  PoolTypesInv'
  <2> DEFINE x == Writing(Absent, {t}, Absent)
             k == [mem.tickets EXCEPT ![t] = [@ EXCEPT !.status = "cancelled", !.retry = FALSE]]
  <2>1. /\ mem' = [mem EXCEPT !.tickets[t].status = "cancelled", !.tickets[t].retry = FALSE]
        /\ step' = [step EXCEPT ![r] = x]
        /\ live' = [live EXCEPT ![mem.tickets[t].number] = Absent]
        /\ UNCHANGED <<now, disk, sold, uses, restarts>>
    BY <1>7 DEF Cancel
  <2>2. k \in [TicketIds -> Numbered]
    BY <1>m DEF Ticket, Numbered
  <2>3. mem' = [pool |-> mem.pool, tickets |-> k]
    BY <1>0, <2>1 DEF State
  <2>4. x \in Step /\ x.candidate = Absent
    BY <1>w, WritingFields
  <2>5. live' \in [Numbers -> TicketIds \cup {Absent}]
    BY <1>0, <2>1
  <2> HIDE DEF x, k
  <2> QED BY <1>0, <1>m, <1>r, <2>1, <2>2, <2>3, <2>4, <2>5
<1>8. ASSUME NEW r \in Requests, Clear(r) PROVE PoolTypesInv'
  <2> DEFINE x == Writing(<<>>, {}, Absent)
  <2>1. /\ mem' = [mem EXCEPT !.pool = <<>>] /\ step' = [step EXCEPT ![r] = x]
        /\ UNCHANGED <<now, disk, live, sold, uses, restarts>>
    BY <1>8 DEF Clear
  <2>2. mem' = [pool |-> <<>>, tickets |-> mem.tickets]
    BY <1>0, <2>1 DEF State
  <2>3. x \in Step /\ x.candidate = Absent
    BY <1>w DEF Writing, Step
  <2> HIDE DEF x
  <2> QED BY <1>0, <1>m, <1>w, <1>r, <2>1, <2>2, <2>3
(* The other steps.                                                        *)
<1>i. Idle \in Step /\ Idle.candidate = Absent
  BY DEF Idle, Step
<1>9. ASSUME NEW r \in Requests, Commit(r) PROVE PoolTypesInv'
  <2> DEFINE pool == IF step[r].bucket = Absent THEN disk.pool ELSE step[r].bucket
             k == [t \in TicketIds |-> IF t \in step[r].tickets THEN mem.tickets[t]
                                       ELSE disk.tickets[t]]
  <2>1. /\ disk' = [pool |-> pool, tickets |-> k] /\ step' = [step EXCEPT ![r] = Idle]
        /\ uses' = [n \in Numbers |-> IF n = step[r].served /\ uses[n] <= MaxReuse
                                      THEN uses[n] + 1 ELSE uses[n]]
        /\ UNCHANGED <<now, mem, live, sold, restarts>>
    BY <1>9 DEF Commit
  <2>2. pool \in Seq(Entry)
    BY <1>0, <1>m, StepParts
  <2>3. k \in [TicketIds -> Numbered]
    BY <1>m
  <2>4. k \in [TicketIds -> Ticket]
    BY <2>3 DEF Numbered
  <2>5. uses' \in [Numbers -> 0..(MaxReuse + 1)]
    BY <1>0, <2>1, BoundsAssumption
  <2> HIDE DEF pool, k
  <2>6. disk' \in State /\ disk'.tickets = k
    BY <2>1, <2>2, <2>4 DEF State
  <2>7. step' \in [Requests -> Step] /\ \A q \in Requests : step'[q] = IF q = r THEN Idle ELSE step[q]
    BY <1>0, <1>i, <2>1
  <2>8. CandidatesUsable'
    BY <1>0, <1>i, <2>7 DEF CandidatesUsable
  <2>9. PoolTypeOK'
    BY <1>0, <2>1, <2>5, <2>6, <2>7 DEF PoolTypeOK
  <2> QED BY <1>m, <2>1, <2>3, <2>6, <2>8, <2>9 DEF PoolTypesInv
<1>10. CASE ProcessRestart
  <2>1. /\ mem' = disk /\ step' = [q \in Requests |-> Idle] /\ restarts' = restarts + 1
        /\ restarts < MaxRestarts
        /\ UNCHANGED <<now, disk, live, sold, uses>>
    BY <1>10 DEF ProcessRestart
  <2>2. restarts' \in 0..MaxRestarts
    BY <1>0, <2>1, BoundsAssumption
  <2>3. step' \in [Requests -> Step] /\ CandidatesUsable'
    BY <1>i, <2>1 DEF CandidatesUsable
  <2>4. PoolTypeOK'
    BY <1>0, <2>1, <2>2, <2>3 DEF PoolTypeOK
  <2> QED BY <1>m, <2>1, <2>3, <2>4 DEF PoolTypesInv
<1>11. ASSUME UNCHANGED <<mem, disk, step, sold, uses, restarts>>,
              now' \in 0..MaxTime, live' \in [Numbers -> TicketIds \cup {Absent}]
       PROVE  PoolTypesInv'
  BY <1>0, <1>m, <1>11 DEF PoolTypesInv, PoolTypeOK, CandidatesUsable
<1>12. ASSUME NEW n \in Numbers, ActivationEnds(n) PROVE PoolTypesInv'
  <2>1. live' \in [Numbers -> TicketIds \cup {Absent}]
    BY <1>0, <1>12 DEF ActivationEnds
  <2> QED BY <1>0, <1>11, <1>12, <2>1 DEF ActivationEnds
<1>13. CASE Tick
  <2>1. now' \in 0..MaxTime
    BY <1>0, <1>13, BoundsAssumption DEF Tick
  <2> QED BY <1>0, <1>11, <1>13, <2>1 DEF Tick
<1>14. CASE UNCHANGED poolVars
  BY <1>0, <1>11, <1>14 DEF poolVars
<1> QED BY <1>1, <1>2, <1>3, <1>d, <1>4, <1>5, <1>6, <1>7, <1>8, <1>9, <1>10, <1>12, <1>13, <1>14
        DEF PoolNext

(* PoolTypeOK, however many requests are under way.                        *)
THEOREM PoolTypesHold == PoolSpec => []PoolTypeOK
<1>1. PoolInit => PoolTypesInv
  <2> SUFFICES ASSUME PoolInit PROVE PoolTypesInv
    OBVIOUS
  <2>1. PoolTypeOK
    BY PoolStarts DEF PoolInv
  <2>2. /\ mem = [pool |-> <<>>, tickets |-> [t \in TicketIds |-> NoTicket]] /\ disk = mem
        /\ step = [r \in Requests |-> Idle]
    BY DEF PoolInit
  <2>3. CandidatesUsable
    BY <2>2 DEF CandidatesUsable, Idle
  <2>4. NoTicket \in Numbered
    BY BoundsAssumption DEF NoTicket, Ticket, Numbered
  <2> QED BY <2>1, <2>2, <2>3, <2>4 DEF PoolTypesInv
<1>2. PoolTypesInv /\ [PoolNext]_poolVars => PoolTypesInv'
  BY PoolTypesStep
<1>3. PoolTypesInv => PoolTypeOK
  BY DEF PoolTypesInv
<1> QED BY <1>1, <1>2, <1>3, PTL DEF PoolSpec
=============================================================================
