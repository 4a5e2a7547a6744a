------------------------- MODULE MCTicketLifecycle -------------------------
(* Values for the model-checked instances of TicketLifecycle.              *)
EXTENDS TicketLifecycle, TLC

AllOps        == Operations
ReleaseOnly   == {"release"}
PollRelease   == {"poll", "release"}
AllActions    == ReleaseActions
CancelOnly    == {"cancel"}
CancelFinish  == {"cancel", "finish"}

ClientSymmetry == Permutations(Clients)
=============================================================================
