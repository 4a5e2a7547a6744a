----------------------------- MODULE Callbacks -----------------------------
(***************************************************************************)
(* Callbacks that clients register for a ticket, and the pass of the       *)
(* background loop that delivers them: it polls the tickets that have      *)
(* callbacks, posts the code to each callback, and then removes those that *)
(* were answered with success. Tickets are registered for, polled,         *)
(* released, retried and dropped from the full ticket buffer meanwhile.    *)
(***************************************************************************)
EXTENDS SequencesExt

CONSTANTS
    Tickets,   \* tickets that may be acquired
    Subs,      \* callbacks that clients may register
    None,      \* no ticket
    Buffer     \* ticket_buffer: the number of tickets that are kept

ASSUME BufferAssumption == Buffer \in Nat \ {0} /\ None \notin Tickets

VARIABLES
    order,    \* the tickets in memory, the one updated longest ago first
    status,   \* ticket -> its status
    coded,    \* tickets that hold a code
    subs,     \* ticket -> its callback_subscriptions
    client,   \* callback -> how far its registration has come
    loop,     \* the pass of the background loop
    acked     \* callbacks that were answered with success

vars == <<order, status, coded, subs, client, loop, acked>>

Memory == ToSet(order)

(* open: waiting for a code, or it was received; closed: finished,         *)
(* cancelled or failed; pending: cancel_pending.                           *)
Status == {"new", "open", "pending", "closed", "dropped"}

Registration == [pc : {"none", "checked", "registered"}, ticket : Tickets \cup {None}]

Registered == [pc |-> "registered", ticket |-> None]

(* todo: tickets the pass has yet to look at; left: callbacks of the       *)
(* current ticket to post to; delivered: those answered with success.      *)
Loop == [pc : {"asleep", "next", "polling", "polled", "coded", "posting"},
         todo : SUBSET Tickets, ticket : Tickets \cup {None},
         left : SUBSET Subs, delivered : SUBSET Subs]

Asleep == [pc |-> "asleep", todo |-> {}, ticket |-> None, left |-> {}, delivered |-> {}]

(* On to the next ticket.                                                  *)
Onward(todo) == [Asleep EXCEPT !.pc = "next", !.todo = todo]

Init ==
    /\ order = <<>>
    /\ status = [t \in Tickets |-> "new"]
    /\ coded = {}
    /\ subs = [t \in Tickets |-> {}]
    /\ client = [s \in Subs |-> [pc |-> "none", ticket |-> None]]
    /\ loop = Asleep
    /\ acked = {}

-----------------------------------------------------------------------------
Updated(t) ==
    LET at == CHOOSE i \in DOMAIN order : order[i] = t
    IN  Append(RemoveAt(order, at), t)

(* A new ticket enters the buffer. A full buffer drops the ticket that was *)
(* updated longest ago, with its callbacks (trim_tickets).                 *)
Acquire(t) ==
    LET full == Len(order) >= Buffer
        oldest == Head(order)
    IN  /\ status[t] = "new"
        /\ order' = Append(IF full THEN Tail(order) ELSE order, t)
        /\ status' = [u \in Tickets |-> IF u = t THEN "open"
                                        ELSE IF full /\ u = oldest THEN "dropped"
                                        ELSE status[u]]
        /\ subs' = [u \in Tickets |-> IF full /\ u = oldest THEN {} ELSE subs[u]]
        /\ coded' = IF full THEN coded \ {oldest} ELSE coded
        /\ UNCHANGED <<client, loop, acked>>

(* poll_code writes the answer of the provider over the ticket, with or    *)
(* without a code; an activation that has failed may come with one too.    *)
PollWrites(t) ==
    /\ t \in Memory
    /\ order' = Updated(t)
    /\ \E s \in {"open", "closed"} : status' = [status EXCEPT ![t] = s]
    /\ coded' \in {coded, coded \cup {t}}

(* Other requests: the client polls or releases the ticket, or is denied   *)
(* for now, or an acquire retries its activation.                          *)
Poll(t) == PollWrites(t) /\ UNCHANGED <<subs, client, loop, acked>>

Change(t, s, c) ==
    /\ t \in Memory
    /\ order' = Updated(t)
    /\ status' = [status EXCEPT ![t] = s]
    /\ coded' = c
    /\ UNCHANGED <<subs, client, loop, acked>>

Release(t) ==
    /\ status[t] \in {"open", "pending"}
    /\ \E s \in {"closed", "pending"} : Change(t, s, coded)
Retry(t) ==
    /\ status[t] = "open"
    /\ Change(t, "open", coded \ {t})

-----------------------------------------------------------------------------
(* register_ticket_callback looks for the ticket, and then adds the        *)
(* callback under another lock.                                            *)
Check(s, t) ==
    /\ client[s].pc = "none"
    /\ t \in Memory
    /\ client' = [client EXCEPT ![s] = [pc |-> "checked", ticket |-> t]]
    /\ UNCHANGED <<order, status, coded, subs, loop, acked>>

Register(s) ==
    /\ client[s].pc = "checked"
    /\ subs' = [subs EXCEPT ![client[s].ticket] = @ \cup {s}]
    /\ client' = [client EXCEPT ![s] = Registered]
    /\ UNCHANGED <<order, status, coded, loop, acked>>

-----------------------------------------------------------------------------
BeginPass ==
    /\ loop.pc = "asleep"
    /\ loop' = Onward({t \in Tickets : subs[t] # {}})
    /\ UNCHANGED <<order, status, coded, subs, client, acked>>

(* Defect: a closed ticket is passed over, code or not.                    *)
AtOpenTicket(t) ==
    IF t \notin Memory \/ status[t] \in {"pending", "closed"} THEN "next"
    ELSE IF t \in coded THEN "coded"
    ELSE "polling"

(* Where the pass goes from a ticket: on to the next one if the ticket is  *)
(* gone or waits for its cancel; else to its code, which is polled for if  *)
(* it is not there.                                                        *)
AtTicket(t) ==
    IF t \notin Memory \/ status[t] = "pending" THEN "next"
    ELSE IF t \in coded THEN "coded"
    ELSE "polling"

(* The pass takes up the next ticket.                                      *)
NextTicket ==
    /\ loop.pc = "next"
    /\ \E t \in loop.todo :
          loop' = IF AtTicket(t) = "next" THEN Onward(loop.todo \ {t})
                  ELSE [Onward(loop.todo \ {t}) EXCEPT !.pc = AtTicket(t), !.ticket = t]
    /\ UNCHANGED <<order, status, coded, subs, client, acked>>

(* The poll is answered; or it fails, or the ticket is gone, and the pass  *)
(* goes on to the next one.                                                *)
PollAnswered ==
    /\ loop.pc = "polling"
    /\ \/ PollWrites(loop.ticket) /\ loop' = [loop EXCEPT !.pc = "polled"]
       \/ loop' = Onward(loop.todo) /\ UNCHANGED <<order, status, coded>>
    /\ UNCHANGED <<subs, client, acked>>

(* The ticket is read again: it may have changed since the answer.         *)
ReadAgain ==
    /\ loop.pc = "polled"
    /\ loop' = IF loop.ticket \in Memory \cap coded THEN [loop EXCEPT !.pc = "coded"]
               ELSE Onward(loop.todo)
    /\ UNCHANGED <<order, status, coded, subs, client, acked>>

TakeCallbacks ==
    /\ loop.pc = "coded"
    /\ loop' = [loop EXCEPT !.pc = "posting", !.left = subs[loop.ticket]]
    /\ UNCHANGED <<order, status, coded, subs, client, acked>>

Post(s) == loop.pc = "posting" /\ s \in loop.left

(* The callback answers with success, ...                                  *)
Posted(s) ==
    /\ Post(s)
    /\ loop' = [loop EXCEPT !.left = @ \ {s}, !.delivered = @ \cup {s}]
    /\ acked' = acked \cup {s}
    /\ UNCHANGED <<order, status, coded, subs, client>>

(* ... or with anything else, or its answer is lost.                       *)
PostFailed(s) ==
    /\ Post(s)
    /\ loop' = [loop EXCEPT !.left = @ \ {s}]
    /\ UNCHANGED <<order, status, coded, subs, client, acked>>

(* Defect: the callbacks are removed together.                             *)
DroppedAll(t) == [subs EXCEPT ![t] = {}]

(* Defect: the callbacks that were posted to are put back as they were.    *)
KeptAll(t) == subs

Delivered(t) == [subs EXCEPT ![t] = @ \ loop.delivered]

(* All are posted: those that were delivered are removed.                  *)
RemoveDelivered ==
    /\ loop.pc = "posting"
    /\ loop.left = {}
    /\ subs' = Delivered(loop.ticket)
    /\ loop' = Onward(loop.todo)
    /\ UNCHANGED <<order, status, coded, client, acked>>

EndPass ==
    /\ loop.pc = "next"
    /\ loop.todo = {}
    /\ loop' = Asleep
    /\ UNCHANGED <<order, status, coded, subs, client, acked>>

(* Callbacks are only kept in memory; tickets are loaded again.            *)
Restart ==
    /\ subs' = [t \in Tickets |-> {}]
    /\ client' = [s \in Subs |-> IF client[s].pc = "checked"
                                 THEN Registered ELSE client[s]]
    /\ loop' = Asleep
    /\ UNCHANGED <<order, status, coded, acked>>

LoopStep ==
    \/ BeginPass
    \/ NextTicket
    \/ PollAnswered
    \/ ReadAgain
    \/ TakeCallbacks
    \/ \E s \in Subs : Posted(s) \/ PostFailed(s)
    \/ RemoveDelivered
    \/ EndPass

Next ==
    \/ \E t \in Tickets : Acquire(t) \/ Poll(t) \/ Release(t) \/ Retry(t)
    \/ \E s \in Subs : Register(s) \/ \E t \in Tickets : Check(s, t)
    \/ LoopStep
    \/ Restart

Spec == Init /\ [][Next]_vars

(* The background loop comes back every minute and its requests time out;  *)
(* a callback that is posted to again and again answers in the end.        *)
FairSpec ==
    Spec /\ WF_vars(LoopStep) /\ \A s \in Subs : SF_vars(Posted(s))

-----------------------------------------------------------------------------
TypeOK ==
    /\ order \in Seq(Tickets)
    /\ Len(order) <= Buffer
    /\ status \in [Tickets -> Status]
    /\ coded \subseteq Tickets
    /\ subs \in [Tickets -> SUBSET Subs]
    /\ client \in [Subs -> Registration]
    /\ loop \in Loop
    /\ acked \subseteq Subs

(* A callback that was answered with success is not posted to again        *)
(* (maybe_dispatch_ticket_callbacks): not in the same pass, and not in the *)
(* next, whatever was registered and removed in between.                   *)
DeliveredOnce == \A s \in acked : ~Post(s)

(* A callback is given up only when it was delivered, when its ticket is   *)
(* dropped from the buffer, or by a restart: in particular a callback that *)
(* is registered while those of its ticket are posted stays.               *)
LeavesOnlyDelivered ==
    [][\A t \in Tickets, s \in Subs :
          s \in subs[t] /\ s \notin subs'[t] =>
              \/ s \in acked
              \/ status'[t] = "dropped"
              \/ loop' = Asleep /\ subs' = [u \in Tickets |-> {}]]_vars

(* A callback whose ticket holds a code and does not wait for its cancel.  *)
Owed(s) == \E t \in Memory \cap coded : s \in subs[t] /\ status[t] # "pending"

(* No callback is owed for ever: it is delivered, unless its ticket loses  *)
(* the code to a retry, is to be cancelled or leaves the buffer, or the    *)
(* process ends (README.md:30, the daemon pushes codes automatically).     *)
CodesArrive == \A s \in Subs : []<>~Owed(s)

=============================================================================
