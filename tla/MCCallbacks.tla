---------------------------- MODULE MCCallbacks ----------------------------
(* Values for the model-checked instance of Callbacks.                     *)
EXTENDS Callbacks

CONSTANTS t1, t2, t3, s1, s2
=============================================================================
