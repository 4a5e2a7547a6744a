--------------------------- MODULE MCProviderAdmin ---------------------------
(* Values for the model-checked instances of ProviderAdmin.                *)
EXTENDS ProviderAdmin

CONSTANTS p1, p2

BothProviders == <<p1, p2>>
=============================================================================
