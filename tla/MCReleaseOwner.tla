--------------------------- MODULE MCReleaseOwner ---------------------------
(* Instance of ReleaseOwner for TLC.                                       *)
EXTENDS ReleaseOwner, TLC

HostSymmetry == Permutations(Hosts)
=============================================================================
