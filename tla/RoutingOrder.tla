---------------------------- MODULE RoutingOrder ----------------------------
(***************************************************************************)
(* The orders in which a routing plan is walked: the attempts of a round,  *)
(* whether another round follows, and the attempts that are left to a      *)
(* ticket whose number failed. Pure operators; RoutingPlan walks them.     *)
(***************************************************************************)
EXTENDS Selections

CONSTANT Items   \* ids of routing plan items, in the order of their ids

ASSUME ItemsAssumption == Items \subseteq Nat /\ IsFiniteSet(Items)

(* A plan as it is saved: the order of its items, which of them are        *)
(* enabled, random or sequential order, the number of rounds (0: no        *)
(* limit), and whether it may be used to acquire. Item ids are distinct.   *)
Plan == [items : Seq(Items), enabled : SUBSET Items, random : BOOLEAN,
         rounds : Nat, active : BOOLEAN]

(* One attempt: the item, its round, the index that the ticket is given,   *)
(* and the order of candidates that the ticket records.                    *)
Entry == [item : Items, round : Nat, index : Nat, order : Seq(Items)]

-----------------------------------------------------------------------------
EnabledItems(p) == Filtered(p.items, p.enabled)

Rotated(s, k) == [n \in 1..Len(s) |-> s[((n - 1 + k) % Len(s)) + 1]]

(* Defect: the first round is rotated too.                                 *)
RotatedByRound(p, round) ==
    IF p.random THEN Rotated(Ascending(ToSet(EnabledItems(p))), round)
                ELSE EnabledItems(p)

(* A random plan is not shuffled: it is sorted by id and rotated by one    *)
(* more place in every round.                                              *)
ItemsForRound(p, round) ==
    IF p.random THEN Rotated(Ascending(ToSet(EnabledItems(p))), round - 1)
                ELSE EnabledItems(p)

(* The attempts at the items of s in one round, with indexes from offset.  *)
Numbered(s, round, offset, order) ==
    [n \in 1..Len(s) |->
        [item |-> s[n], round |-> round, index |-> offset + n - 1, order |-> order]]

AttemptsForRound(p, round, offset) ==
    LET s == ItemsForRound(p, round) IN Numbered(s, round, offset, s)

CanContinue(p, round) == p.rounds = 0 \/ round < p.rounds

-----------------------------------------------------------------------------
(* Defect: the plan as it is now decides, whatever the ticket recorded.    *)
InPlanOrder(s, recorded) == s

(* The items of a ticket's round, in the order the ticket recorded; the    *)
(* plan may have changed since: what it has gained comes last.             *)
InRecordedOrder(s, recorded) ==
    Filtered(recorded, ToSet(s)) \o Filtered(s, Items \ ToSet(recorded))

ThisRound(p, t) ==
    LET s == ItemsForRound(p, t.round)
    IN  Numbered(InRecordedOrder(s, t.order), t.round, 0, t.order)

NextRound(p, t) ==
    IF CanContinue(p, t.round)
    THEN AttemptsForRound(p, t.round + 1, Len(EnabledItems(p)))
    ELSE <<>>

(* routing_item_order_for_ticket                                           *)
OrderForTicket(p, t) == ThisRound(p, t) \o NextRound(p, t)

(* Where the failed attempt stands in the order; an item that is no longer *)
(* a candidate is taken to stand at the index of the ticket's attempt.     *)
FailedIndex(p, t, failed) ==
    LET at == {n \in 1..Len(OrderForTicket(p, t)) :
                 /\ OrderForTicket(p, t)[n].item = failed
                 /\ OrderForTicket(p, t)[n].round = t.round}
    IN  IF at = {} THEN t.index ELSE Min(at) - 1

Remaining(p, t, failed) ==
    LET order == OrderForTicket(p, t)
    IN  Filtered(order, {e \in ToSet(order) : e.index > FailedIndex(p, t, failed)})

=============================================================================
