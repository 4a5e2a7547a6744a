----------------------------- MODULE Selections -----------------------------
(***************************************************************************)
(* What the service does to lists again and again: keep the members that   *)
(* are wanted or take the first of them, and sort ids.  The community's    *)
(* SelectSeq and SetToSortSeq say the same; these take sets, not           *)
(* operators, so that facts about them can be stated once and cited        *)
(* (SelectionProofs).                                                      *)
(***************************************************************************)
EXTENDS SequencesExt

(* The members of s that are in S, in their order.                         *)
Filtered(s, S) ==
    LET upTo[n \in 0..Len(s)] ==
            IF n = 0 THEN <<>>
            ELSE IF s[n] \in S THEN Append(upTo[n - 1], s[n]) ELSE upTo[n - 1]
    IN  upTo[Len(s)]

(* The first member of s that is in S, or otherwise.                       *)
IsFirst(s, S, k) == s[k] \in S /\ \A j \in 1..(k - 1) : s[j] \notin S

FirstIn(s, S, otherwise) ==
    IF \E k \in DOMAIN s : s[k] \in S
    THEN s[CHOOSE k \in DOMAIN s : IsFirst(s, S, k)]
    ELSE otherwise

(* A finite set of numbers, in their order.                                *)
Ascending(S) ==
    CHOOSE s \in [1..Cardinality(S) -> S] : \A i, j \in DOMAIN s : i < j => s[i] < s[j]
=============================================================================
