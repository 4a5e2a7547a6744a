--------------------------- MODULE MCStatsWorker ---------------------------
(* Values for the model-checked instances of StatsWorker.                  *)
EXTENDS StatsWorker, TLC

CONSTANTS t1, t2, u1, p1, p2, o1

AnEvent(t, p, o, outcome, at) ==
    [ticket |-> t, user |-> u1, provider |-> p, operator |-> o, outcome |-> outcome, at |-> at]

TwoEvents ==
    (1 :> AnEvent(t1, p1, Nothing, "code_received", 0)) @@
    (2 :> AnEvent(t2, p1, o1, "cancelled", 1))
OnlyOne == <<1>>
=============================================================================
