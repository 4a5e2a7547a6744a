--------------------------- MODULE MCRoutingPlan ---------------------------
(* Values for the model-checked instances of RoutingPlan.                  *)
EXTENDS RoutingPlan

CONSTANTS p1, p2, us, ca

AProviderOf == (1 :> p1) @@ (2 :> AnyProvider) @@ (3 :> p1)
ACountryOf == (1 :> us) @@ (2 :> us) @@ (3 :> ca)
APriority == <<p1, p2>>

InOrder == [items |-> <<2, 1>>, enabled |-> {1, 2}, random |-> FALSE, rounds |-> 2, active |-> TRUE]
(* One item gone, another added before the one that stays, random order.   *)
Edited  == [items |-> <<3, 1>>, enabled |-> {1, 3}, random |-> TRUE, rounds |-> 2, active |-> TRUE]
(* No limit of rounds; not for acquiring, but a failover walks it.         *)
Off     == [items |-> <<1, 2, 3>>, enabled |-> {2, 3}, random |-> FALSE, rounds |-> 0, active |-> FALSE]

TwoPlans   == {InOrder, Edited}
ThreePlans == {InOrder, Edited, Off}
=============================================================================
