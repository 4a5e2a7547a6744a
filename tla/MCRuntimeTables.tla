--------------------------- MODULE MCRuntimeTables ---------------------------
(* Values for the model-checked instance of RuntimeTables: no file, one of *)
(* each version, and one whose tickets have old names.                     *)
EXTENDS RuntimeTables

Old == (1 :> [updated |-> 1, canonical |-> FALSE])
Canonical == (1 :> [updated |-> 1, canonical |-> TRUE])

File(tickets, logs, version) ==
    [tickets |-> tickets, legacy |-> Absent, logs |-> logs, version |-> version]

FourFiles == {
    File(Absent, {}, 0),
    File(Table("payload", Old), {1}, 0),
    File(Table("columns", Canonical), {1}, 2),
    File(Table("columns", Old), {}, 3)}

AnyWorker == Permutations(Workers)
=============================================================================
