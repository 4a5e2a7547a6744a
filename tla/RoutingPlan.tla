---------------------------- MODULE RoutingPlan ----------------------------
(***************************************************************************)
(* Requests that walk a routing plan: acquire_code with a plan, failover   *)
(* and replace; and acquire_code without a plan, which walks the providers *)
(* only. A request copies the plan, tries its candidates one after the     *)
(* other and awaits the provider at each; meanwhile other requests acquire *)
(* and retry tickets, and the plan is edited or deleted.                   *)
(* The reuse pool, which the same requests read, is another component.     *)
(***************************************************************************)
EXTENDS RoutingOrder

CONSTANTS
    Requests,        \* requests that may be under way at the same time
    Providers,
    Priority,        \* the providers in the order of their priority
    AnyProvider,     \* the provider of an item that takes whichever provider
    ProviderOf,      \* item -> its provider, or AnyProvider
    CountryOf,       \* item -> its country
    RetryProviders,  \* providers with the capability SameActivationRetry
    MaxReuse,        \* defaults.reuse_max
    Plans,           \* plans that may be saved
    NoPlan,          \* the plan is deleted
    None,            \* no ticket, no item
    MaxTickets,      \* bound of the number of tickets acquired
    MaxEdits,        \* bound of the number of saves and deletions
    MaxRound         \* bound of the rounds of a plan without limit

(* What save_routing_plan lets pass.                                       *)
ASSUME PlansAssumption ==
    /\ NoPlan \notin Plan
    /\ \A p \in Plans : /\ p \in Plan
                        /\ IsInjective(p.items)
                        /\ p.active => EnabledItems(p) # <<>>
ASSUME ProvidersAssumption ==
    /\ AnyProvider \notin Providers
    /\ Priority \in Seq(Providers)
    /\ ProviderOf \in [Items -> Providers \cup {AnyProvider}]
    /\ RetryProviders \subseteq Providers
ASSUME NoneAssumption == None \notin Nat \cup Items
ASSUME BoundsAssumption ==
    MaxReuse \in Nat /\ MaxTickets \in Nat /\ MaxEdits \in Nat /\ MaxRound \in Nat

VARIABLES
    plan,       \* the plan in routing_plans
    tickets,    \* tickets in the order of their acquisition
    disabled,   \* providers disabled for their low balance
    walk,       \* request -> how far it has come
    edits

vars == <<plan, tickets, disabled, walk, edits>>

TicketIds == DOMAIN tickets

(* A ticket that was acquired without a plan has no item.                  *)
Ticket == [item : Items \cup {None}, round : Nat, index : Nat, order : Seq(Items),
           provider : Providers, country : {CountryOf[i] : i \in Items},
           retry : BOOLEAN, reuses : Nat, status : {"open", "pending", "closed"}]

(* left: the attempts to come, the current one first; tried: those that    *)
(* failed; asking: the providers left for the current attempt; from: the   *)
(* ticket that is failed over; candidate: the ticket that is retried.      *)
Walk == [pc : {"resting", "walking", "item", "retry", "acquire", "release", "failed"},
         kind : {"acquire", "direct", "failover", "replace"}, plan : Plan \cup {NoPlan},
         from : Nat \cup {None}, failed : Items \cup {None}, round : Nat, offset : Nat,
         left : Seq(Entry), tried : Seq(Entry), asking : Seq(Providers),
         candidate : Nat \cup {None}, result : Nat \cup {None}]

Resting(r) == walk[r].pc \in {"resting", "failed"}

(* Every request under way may acquire one more ticket.                    *)
Room == Len(tickets) + Cardinality({r \in Requests : ~Resting(r)}) < MaxTickets

Started(kind, p, from, failed, left) ==
    [pc |-> "walking", kind |-> kind, plan |-> p, from |-> from, failed |-> failed,
     round |-> 1, offset |-> 0, left |-> left, tried |-> <<>>, asking |-> <<>>,
     candidate |-> None, result |-> None]

(* A request that is answered is forgotten, but for the ticket it returned. *)
Answered(kind, from, id) ==
    [Started(kind, NoPlan, from, None, <<>>) EXCEPT !.pc = "resting", !.result = id]

Init ==
    /\ plan \in Plans
    /\ tickets = <<>>
    /\ disabled = {}
    /\ walk = [r \in Requests |-> Answered("acquire", None, None)]
    /\ edits = 0

-----------------------------------------------------------------------------
(* acquire_code with a plan: it must be enabled and have a candidate.      *)
BeginAcquire(r) ==
    /\ Resting(r)
    /\ plan # NoPlan
    /\ plan.active
    /\ EnabledItems(plan) # <<>>
    /\ Room
    /\ walk' = [walk EXCEPT ![r] =
                  Started("acquire", plan, None, None, AttemptsForRound(plan, 1, 0))]
    /\ UNCHANGED <<plan, tickets, disabled, edits>>

(* acquire_code without a plan. The request names its provider, or auto,   *)
(* and its country, as an item does; it has one attempt, and the ticket    *)
(* records no routing.                                                     *)
BeginDirect(r, item) ==
    /\ Resting(r)
    /\ Room
    /\ walk' = [walk EXCEPT ![r] =
                  Started("direct", NoPlan, None, None,
                          <<[item |-> item, round |-> 0, index |-> 0, order |-> <<>>]>>)]
    /\ UNCHANGED <<plan, tickets, disabled, edits>>

(* failover_routing_attempt, and replace_routing_attempt up to its         *)
(* failover: the ticket must have a plan, which must exist, and may be     *)
(* disabled. The failed item is named by the client.                       *)
BeginFailover(r, kind, t, failed) ==
    /\ Resting(r)
    /\ tickets[t].item # None
    /\ plan # NoPlan
    /\ Room
    /\ walk' = [walk EXCEPT ![r] =
                  Started(kind, plan, t, failed, Remaining(plan, tickets[t], failed))]
    /\ UNCHANGED <<plan, tickets, disabled, edits>>

-----------------------------------------------------------------------------
(* The providers of an item; for any provider, those that are enabled.     *)
ProvidersFor(item) ==
    IF ProviderOf[item] = AnyProvider THEN Filtered(Priority, Providers \ disabled)
                                     ELSE <<ProviderOf[item]>>

(* The current attempt has failed.                                         *)
Skipped(w) ==
    [w EXCEPT !.pc = "walking", !.asking = <<>>,
              !.tried = Append(w.tried, Head(w.left)), !.left = Tail(w.left)]

(* A provider has failed for the current attempt: on to the next provider. *)
NextProvider(w) ==
    IF Len(w.asking) > 1 THEN [w EXCEPT !.pc = "item", !.asking = Tail(w.asking)]
                         ELSE Skipped(w)

(* Defect: the next ticket may be the one to replace.                      *)
GotAny(w, id) ==
    IF w.kind = "replace"
    THEN [Started(w.kind, NoPlan, w.from, None, <<>>) EXCEPT !.pc = "release", !.result = id]
    ELSE Answered(w.kind, w.from, id)

(* The request has a ticket: a replace goes on to release the current one, *)
(* unless it is the same.                                                  *)
Got(w, id) ==
    IF w.kind = "replace" /\ id # w.from
    THEN [Started(w.kind, NoPlan, w.from, None, <<>>) EXCEPT !.pc = "release", !.result = id]
    ELSE Answered(w.kind, w.from, IF w.kind = "replace" THEN None ELSE id)

Attempt(r) ==
    LET w == walk[r]
        providers == ProvidersFor(Head(w.left).item)
    IN  /\ w.pc = "walking"
        /\ w.left # <<>>
        /\ walk' = [walk EXCEPT ![r] =
                      IF providers = <<>> THEN Skipped(w)
                      ELSE [w EXCEPT !.pc = "item", !.asking = providers]]
        /\ UNCHANGED <<plan, tickets, disabled, edits>>

(* Tickets whose activation can be retried instead of acquiring another.   *)
Retryable(p, country) ==
    IF p \notin RetryProviders THEN {}
    ELSE {t \in TicketIds : /\ tickets[t].provider = p
                            /\ tickets[t].country = country
                            /\ tickets[t].retry
                            /\ tickets[t].reuses < MaxReuse
                            /\ tickets[t].status = "open"}

(* The provider is asked to retry the ticket updated last, which any poll  *)
(* may have made the latest; or for a new number, unless it is disabled.   *)
AskRetry(r) ==
    LET w == walk[r]
    IN  /\ w.pc = "item"
        /\ \E t \in Retryable(Head(w.asking), CountryOf[Head(w.left).item]) :
              walk' = [walk EXCEPT ![r].pc = "retry", ![r].candidate = t]
        /\ UNCHANGED <<plan, tickets, disabled, edits>>

Ask(w) == IF Head(w.asking) \in disabled THEN NextProvider(w)
                                         ELSE [w EXCEPT !.pc = "acquire"]

AskAcquire(r) ==
    LET w == walk[r]
    IN  /\ w.pc = "item"
        /\ Retryable(Head(w.asking), CountryOf[Head(w.left).item]) = {}
        /\ walk' = [walk EXCEPT ![r] = Ask(w)]
        /\ UNCHANGED <<plan, tickets, disabled, edits>>

(* The ticket is retried: it is the answer, with the routing it has.       *)
RetryTaken(r) ==
    LET w == walk[r]
    IN  /\ w.pc = "retry"
        /\ tickets' = [tickets EXCEPT ![w.candidate].status = "open",
                                      ![w.candidate].reuses = @ + 1]
        /\ walk' = [walk EXCEPT ![r] = Got(w, w.candidate)]
        /\ UNCHANGED <<plan, disabled, edits>>

(* The retry is refused: the same provider is asked for a new number.      *)
RetryRefused(r) ==
    LET w == walk[r]
    IN  /\ w.pc = "retry"
        /\ tickets' = [tickets EXCEPT ![w.candidate].retry = FALSE]
        /\ walk' = [walk EXCEPT ![r] = Ask([w EXCEPT !.candidate = None])]
        /\ UNCHANGED <<plan, disabled, edits>>

NewTicket(w, retry) ==
    LET e == Head(w.left)
    IN  [item |-> IF w.kind = "direct" THEN None ELSE e.item, round |-> e.round, index |-> e.index, order |-> e.order,
         provider |-> Head(w.asking), country |-> CountryOf[e.item],
         retry |-> retry, reuses |-> 0, status |-> "open"]

Acquired(r) ==
    LET w == walk[r]
    IN  /\ w.pc = "acquire"
        /\ \E retry \in BOOLEAN :
              /\ retry => Head(w.asking) \in RetryProviders
              /\ tickets' = Append(tickets, NewTicket(w, retry))
        /\ walk' = [walk EXCEPT ![r] = Got(w, Len(tickets) + 1)]
        /\ UNCHANGED <<plan, disabled, edits>>

(* Defect: the same provider is asked again.                               *)
NotAcquiredAskAgain(r) ==
    /\ walk[r].pc = "acquire"
    /\ walk' = [walk EXCEPT ![r].pc = "item"]
    /\ UNCHANGED <<plan, tickets, disabled, edits>>

(* No number, or not enough balance; the requests that walk a plan disable *)
(* the provider then, one without a plan does not.                         *)
NotAcquired(r) ==
    LET w == walk[r]
    IN  /\ w.pc = "acquire"
        /\ disabled' \in {disabled, disabled \cup {Head(w.asking)}}
        /\ w.kind = "direct" => disabled' = disabled
        /\ walk' = [walk EXCEPT ![r] = NextProvider(w)]
        /\ UNCHANGED <<plan, tickets, edits>>

-----------------------------------------------------------------------------
(* The candidates of a round are used up: an acquire goes on to the next   *)
(* round, if there is one; a failover has walked its rounds.               *)
BeginRound(r) ==
    LET w == walk[r]
        offset == w.offset + Len(EnabledItems(w.plan))
    IN  /\ w.pc = "walking"
        /\ w.left = <<>>
        /\ w.kind = "acquire"
        /\ CanContinue(w.plan, w.round)
        /\ w.round < MaxRound
        /\ walk' = [walk EXCEPT ![r].round = w.round + 1,
                                ![r].offset = offset,
                                ![r].left = AttemptsForRound(w.plan, w.round + 1, offset)]
        /\ UNCHANGED <<plan, tickets, disabled, edits>>

GiveUp(r) ==
    LET w == walk[r]
    IN  /\ w.pc = "walking"
        /\ w.left = <<>>
        /\ w.kind = "acquire" => ~CanContinue(w.plan, w.round)
        /\ walk' = [walk EXCEPT ![r].pc = "failed"]
        /\ UNCHANGED <<plan, tickets, disabled, edits>>

(* The release of the replaced ticket: done, denied for now, or refused;   *)
(* then the caller gets the error and not the next ticket.                 *)
ReleaseAnswered(r) ==
    LET w == walk[r]
    IN  /\ w.pc = "release"
        /\ \E status \in {"closed", "pending"} :
              /\ status = "pending" => tickets[w.from].status # "closed"
              /\ tickets' = [tickets EXCEPT ![w.from].status = status]
        /\ walk' = [walk EXCEPT ![r] = Answered("replace", w.from, w.result)]
        /\ UNCHANGED <<plan, disabled, edits>>

ReleaseRefused(r) ==
    /\ walk[r].pc = "release"
    /\ walk' = [walk EXCEPT ![r] = Answered("replace", walk[r].from, None)]
    /\ UNCHANGED <<plan, tickets, disabled, edits>>

-----------------------------------------------------------------------------
(* The rest of the system: a client releases a ticket, the time in which   *)
(* it may be retried ends, the plan is saved or deleted. The first two     *)
(* matter here only to a ticket that could be retried.                     *)
CouldBeRetried(t) == tickets[t].retry /\ tickets[t].status = "open"

Close(t) ==
    /\ CouldBeRetried(t)
    /\ tickets' = [tickets EXCEPT ![t].status = "closed"]
    /\ UNCHANGED <<plan, disabled, walk, edits>>

RetryExpires(t) ==
    /\ CouldBeRetried(t)
    /\ tickets' = [tickets EXCEPT ![t].retry = FALSE]
    /\ UNCHANGED <<plan, disabled, walk, edits>>

Edit ==
    /\ edits < MaxEdits
    /\ plan' \in (Plans \cup {NoPlan}) \ {plan}
    /\ edits' = edits + 1
    /\ UNCHANGED <<tickets, disabled, walk>>

Begin(r) ==
    \/ BeginAcquire(r)
    \/ \E item \in Items : BeginDirect(r, item)
    \/ \E kind \in {"failover", "replace"}, t \in TicketIds, failed \in Items :
          BeginFailover(r, kind, t, failed)

Step(r) ==
    \/ Attempt(r)
    \/ AskRetry(r)
    \/ AskAcquire(r)
    \/ RetryTaken(r)
    \/ RetryRefused(r)
    \/ Acquired(r)
    \/ NotAcquired(r)
    \/ BeginRound(r)
    \/ GiveUp(r)
    \/ ReleaseAnswered(r)
    \/ ReleaseRefused(r)

Next ==
    \/ \E r \in Requests : Begin(r) \/ Step(r)
    \/ \E t \in TicketIds : Close(t) \/ RetryExpires(t)
    \/ Edit

Spec == Init /\ [][Next]_vars
(* A request runs on until its answer: the runtime polls it and every      *)
(* provider request has a timeout.                                         *)
FairSpec == Spec /\ \A r \in Requests : WF_vars(Step(r))

-----------------------------------------------------------------------------
TypeOK ==
    /\ plan \in Plans \cup {NoPlan}
    /\ tickets \in Seq(Ticket)
    /\ disabled \subseteq Providers
    /\ walk \in [Requests -> Walk]
    /\ edits \in 0..MaxEdits

Seen(w) == w.tried \o w.left
Candidates(p) == ToSet(EnabledItems(p))

(* The k-th attempt of an acquire, counted from one: rounds of equal       *)
(* length, in the order of the plan or, in a random plan, by rank of the   *)
(* id, starting one place later in every round.                            *)
KthItem(p, k) ==
    LET n == Cardinality(Candidates(p))
        rank(i) == Cardinality({j \in Candidates(p) : j < i})
    IN  IF p.random
        THEN CHOOSE i \in Candidates(p) : rank(i) = ((k - 1) + (k - 1) \div n) % n
        ELSE EnabledItems(p)[((k - 1) % n) + 1]

(* An acquire asks every candidate once in each round, in order; the index *)
(* of a ticket counts the attempts over all rounds; and the acquire fails  *)
(* only when the rounds of the plan are walked to the end                  *)
(* (acquire_code_by_routing_plan), whatever is saved in the meantime.      *)
AcquireWalksThePlan ==
    \A r \in Requests :
        LET w == walk[r]
            n == Cardinality(Candidates(w.plan))
        IN  w.kind = "acquire" /\ w.plan # NoPlan =>
              /\ \A k \in DOMAIN Seen(w) :
                    /\ Seen(w)[k].item = KthItem(w.plan, k)
                    /\ Seen(w)[k].index = k - 1
                    /\ Seen(w)[k].round = (k - 1) \div n + 1
              /\ w.pc = "failed" => Len(w.tried) = n * w.plan.rounds /\ w.left = <<>>

(* The position of an item in an order; what is not in it stands behind.   *)
Place(order, i) ==
    IF i \in ToSet(order) THEN CHOOSE n \in DOMAIN order : order[n] = i
                          ELSE Len(order) + 1

(* i is to be tried before j in the round of ticket t.                     *)
Before(p, t, i, j) ==
    \/ Place(t.order, i) < Place(t.order, j)
    \/ /\ {i, j} \cap ToSet(t.order) = {}
       /\ Place(ItemsForRound(p, t.round), i) < Place(ItemsForRound(p, t.round), j)

(* A failover keeps to the order the ticket recorded, however the plan was *)
(* edited since: it tries exactly the candidates behind the failed one,    *)
(* each once, recorded ones first and new ones after them, hands the       *)
(* recorded order on, and then walks one whole round more, if the plan has *)
(* one. This holds while the failed item is still a candidate.             *)
FailoverKeepsToTheOrder ==
    \A r \in Requests :
        LET w == walk[r]
            t == tickets[w.from]
            here == Filtered(Seen(w), {e \in ToSet(Seen(w)) : e.round = t.round})
            next == Filtered(Seen(w), {e \in ToSet(Seen(w)) : e.round # t.round})
        IN  w.kind # "acquire" /\ w.plan # NoPlan /\ w.failed \in Candidates(w.plan) =>
              /\ Seen(w) = here \o next
              /\ {e.item : e \in ToSet(here)} =
                    {i \in Candidates(w.plan) : Before(w.plan, t, w.failed, i)}
              /\ \A k, l \in DOMAIN here :
                    k < l => Before(w.plan, t, here[k].item, here[l].item)
              /\ \A e \in ToSet(here) : e.order = t.order
              /\ {e.round : e \in ToSet(next)} \subseteq {t.round + 1}
              /\ IF w.plan.rounds \in 1..t.round
                 THEN next = <<>>
                 ELSE /\ {e.item : e \in ToSet(next)} = Candidates(w.plan)
                      /\ Len(next) = Cardinality(Candidates(w.plan))

(* A replace releases its ticket only when it holds another one for it     *)
(* (replace_routing_attempt), though its failover may have retried the     *)
(* very ticket it was asked to replace.                                    *)
ReplaceReleasesAnother ==
    \A r \in Requests :
        walk[r].pc = "release" => walk[r].result \in TicketIds \ {walk[r].from}

(* A request that was started ends, with a ticket or with an error; only   *)
(* an acquire with a plan without limit may walk for ever                  *)
(* (can_continue_to_round, acquire_code_by_auto_provider).                 *)
RequestsEnd ==
    \A r \in Requests :
        (walk[r].kind = "acquire" => walk[r].plan = NoPlan \/ walk[r].plan.rounds # 0)
            ~> Resting(r)

(* docs/routing-plans.md:104: a failover moves on in the recorded order    *)
(* and never goes back: what it returns is not the ticket that failed.     *)
FailoverMovesOn ==
    \A r \in Requests : walk[r].kind = "failover" => walk[r].result # walk[r].from

=============================================================================
