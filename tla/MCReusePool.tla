---------------------------- MODULE MCReusePool ----------------------------
(* Values for the model-checked instances of ReusePool.                    *)
EXTENDS ReusePool

NumberSymmetry == Permutations(Numbers)
=============================================================================
