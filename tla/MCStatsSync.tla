---------------------------- MODULE MCStatsSync ----------------------------
(* Values for the model-checked instances of StatsSync.                    *)
EXTENDS StatsSync, TLC

StatsSymmetry == Permutations(Events) \cup Permutations(Syncers)
=============================================================================
