--------------------------- MODULE SelectionProofs ---------------------------
(***************************************************************************)
(* Facts about the operators of Selections, for every sequence and set,    *)
(* and the induction they rest on. The library's induction theorems take   *)
(* an operator, which the provers cannot instantiate; here induction is    *)
(* over a set of numbers, or of sequences, that holds the first and with   *)
(* each member the next: a least number outside would be a contradiction.  *)
(***************************************************************************)
EXTENDS Selections, FiniteSetTheorems, SequenceTheorems, WellFoundedInduction, TLAPS

(* A set of numbers has a least one.                                       *)
LEMMA LeastNumber == \A T \in SUBSET Nat : T # {} => \E m \in T : \A k \in T : m <= k
<1> SUFFICES ASSUME NEW T \in SUBSET Nat, T # {} PROVE \E m \in T : \A k \in T : m <= k
  OBVIOUS
<1> DEFINE R == OpToRel(<, Nat)
<1>1. IsWellFoundedOn(R, Nat)
  BY NatLessThanWellFounded
<1>2. \A a, b \in Nat : a < b => <<a, b>> \in R
  BY DEF OpToRel
<1> HIDE DEF R
<1>3. PICK m \in T : \A k \in T : ~ (<<k, m>> \in R)
  BY <1>1, WFMin
<1>4. ASSUME NEW k \in T PROVE m <= k
  <2>1. ~ (k < m)
    BY <1>2, <1>3
  <2> QED BY <2>1, SMT
<1> QED BY <1>4

(* Induction over the numbers, from the least that is not in N.            *)
LEMMA Induction ==
    ASSUME NEW N, 0 \in N, \A n \in Nat : n \in N => n + 1 \in N
    PROVE  Nat \subseteq N
<1> DEFINE T == Nat \ N
<1>1. SUFFICES ASSUME T # {} PROVE FALSE
  OBVIOUS
<1>2. PICK m \in T : \A k \in T : m <= k
  BY <1>1, LeastNumber
<1>3. m # 0 /\ m - 1 \in Nat /\ m - 1 \notin T
  BY <1>2
<1> QED BY <1>3

-----------------------------------------------------------------------------
(* Filtered                                                                *)
(* f holds what is kept of the first i members of s, for each i up to n.   *)
UpTo(f, s, S, n) ==
    f = [i \in 0..n |-> IF i = 0 THEN <<>>
                        ELSE IF s[i] \in S THEN Append(f[i - 1], s[i]) ELSE f[i - 1]]

(* Such a function exists, and Filtered is its last value.                 *)
LEMMA FilteredIsDefined ==
    ASSUME NEW A, NEW s \in Seq(A), NEW S
    PROVE  \E f : UpTo(f, s, S, Len(s)) /\ Filtered(s, S) = f[Len(s)]
<1> DEFINE N == {n \in Nat : \E f : UpTo(f, s, S, n)}
<1>1. 0 \in N
  <2> DEFINE f == [i \in 0..0 |-> <<>>]
  <2>1. UpTo(f, s, S, 0)
    BY DEF UpTo
  <2> HIDE DEF f
  <2> QED BY <2>1
<1>2. ASSUME NEW n \in Nat, n \in N PROVE n + 1 \in N
  <2>1. PICK f : UpTo(f, s, S, n)
    BY <1>2
  <2> DEFINE last == IF s[n + 1] \in S THEN Append(f[n], s[n + 1]) ELSE f[n]
             g == [i \in 0..(n + 1) |-> IF i = n + 1 THEN last ELSE f[i]]
  <2>2. ASSUME NEW i \in 0..(n + 1)
        PROVE  g[i] = IF i = 0 THEN <<>>
                      ELSE IF s[i] \in S THEN Append(g[i - 1], s[i]) ELSE g[i - 1]
    <3>1. CASE i = n + 1
      <4>1. n \in 0..(n + 1) /\ n # n + 1 /\ i - 1 = n /\ i # 0
        BY <3>1
      <4>2. g[n] = f[n] /\ g[i] = last
        BY <4>1, <3>1
      <4> QED BY <4>1, <4>2, <3>1
    <3>2. CASE i # n + 1
      <4>1. i \in 0..n
        BY <3>2
      <4>2. g[i] = f[i] /\ (i # 0 => g[i - 1] = f[i - 1])
        BY <4>1
      <4> QED BY <4>1, <4>2, <2>1 DEF UpTo
    <3> QED BY <3>1, <3>2
  <2>3. UpTo(g, s, S, n + 1)
    <3> DEFINE h == [i \in 0..(n + 1) |-> IF i = 0 THEN <<>>
                        ELSE IF s[i] \in S THEN Append(g[i - 1], s[i]) ELSE g[i - 1]]
    <3>1. g = [i \in 0..(n + 1) |-> g[i]]
      OBVIOUS
    <3> HIDE DEF g
    <3>2. g = h
      BY <3>1, <2>2
    <3> QED BY <3>2 DEF UpTo
  <2> HIDE DEF g
  <2> QED BY <2>3
<1>3. Nat \subseteq N
  <2> HIDE DEF N
  <2> QED BY <1>1, <1>2, Induction
<1>4. \E f : UpTo(f, s, S, Len(s))
  BY <1>3
<1> QED BY <1>4 DEF Filtered, UpTo

(* Nothing is kept of nothing.                                             *)
LEMMA FilteredEmpty == \A S : Filtered(<<>>, S) = <<>>
<1> SUFFICES ASSUME NEW S PROVE Filtered(<<>>, S) = <<>>
  OBVIOUS
<1>1. <<>> \in Seq({})
  OBVIOUS
<1>2. PICK f : UpTo(f, <<>>, S, Len(<<>>)) /\ Filtered(<<>>, S) = f[Len(<<>>)]
  BY <1>1, FilteredIsDefined
<1> QED BY <1>2 DEF UpTo

(* Two such functions agree as far as their sequences do.                  *)
LEMMA UpToAgree ==
    ASSUME NEW s, NEW t, NEW S, NEW m \in Nat, NEW n \in Nat, NEW f, NEW g,
           UpTo(f, s, S, m), UpTo(g, t, S, n), m <= n, \A i \in 1..m : s[i] = t[i]
    PROVE  f[m] = g[m]
<1> DEFINE N == {k \in Nat : k <= m => f[k] = g[k]}
<1>1. 0 \in N
  BY DEF UpTo
<1>2. ASSUME NEW k \in Nat, k \in N PROVE k + 1 \in N
  <2>1. CASE k + 1 <= m
    <3>1. f[k] = g[k] /\ s[k + 1] = t[k + 1] /\ k + 1 \in 0..m /\ k + 1 \in 0..n
          /\ k + 1 # 0 /\ (k + 1) - 1 = k
      BY <2>1, <1>2
    <3>2. f[k + 1] = IF s[k + 1] \in S THEN Append(f[k], s[k + 1]) ELSE f[k]
      BY <3>1 DEF UpTo
    <3>3. g[k + 1] = IF t[k + 1] \in S THEN Append(g[k], t[k + 1]) ELSE g[k]
      BY <3>1 DEF UpTo
    <3> QED BY <3>1, <3>2, <3>3
  <2>2. CASE ~(k + 1 <= m)
    BY <2>2
  <2> QED BY <2>1, <2>2
<1>3. Nat \subseteq N
  <2> HIDE DEF N
  <2> QED BY <1>1, <1>2, Induction
<1> QED BY <1>3

(* One member more is kept at the end, or not at all.                      *)
LEMMA FilteredAppend ==
    ASSUME NEW A, NEW s \in Seq(A), NEW x \in A, NEW S
    PROVE  Filtered(Append(s, x), S) =
              IF x \in S THEN Append(Filtered(s, S), x) ELSE Filtered(s, S)
<1> DEFINE t == Append(s, x)
           n == Len(s)
<1>1. /\ t \in Seq(A) /\ n \in Nat /\ Len(t) = n + 1 /\ t[n + 1] = x
      /\ \A i \in 1..n : s[i] = t[i]
  OBVIOUS
<1> HIDE DEF t, n
<1>2. PICK f : UpTo(f, s, S, n) /\ Filtered(s, S) = f[n]
  BY FilteredIsDefined DEF n
<1>3. PICK g : UpTo(g, t, S, n + 1) /\ Filtered(t, S) = g[n + 1]
  BY <1>1, FilteredIsDefined
<1>4. f[n] = g[n]
  BY <1>1, <1>2, <1>3, UpToAgree, n <= n + 1, n + 1 \in Nat
<1>5. g[n + 1] = IF t[n + 1] \in S THEN Append(g[n], t[n + 1]) ELSE g[n]
  <2>1. n + 1 \in 0..(n + 1) /\ n + 1 # 0 /\ (n + 1) - 1 = n
    BY <1>1
  <2> QED BY <2>1, <1>3 DEF UpTo
<1> QED BY <1>1, <1>2, <1>3, <1>4, <1>5 DEF t

-----------------------------------------------------------------------------
(* Induction over sequences, member by member.                             *)
LEMMA SequenceInduction ==
    ASSUME NEW A, NEW P, <<>> \in P,
           \A s \in Seq(A), x \in A : s \in P => Append(s, x) \in P
    PROVE  Seq(A) \subseteq P
<1> DEFINE N == {n \in Nat : \A s \in Seq(A) : Len(s) = n => s \in P}
<1>1. 0 \in N
  <2>1. \A s \in Seq(A) : Len(s) = 0 => s = <<>>
    OBVIOUS
  <2> QED BY <2>1
<1>2. ASSUME NEW n \in Nat, n \in N PROVE n + 1 \in N
  <2>1. ASSUME NEW s \in Seq(A), Len(s) = n + 1 PROVE s \in P
    <3>1. PICK t \in Seq(A), x \in A : s = Append(t, x)
      BY <2>1, SequenceEmptyOrAppend
    <3>2. Len(t) = n
      BY <2>1, <3>1
    <3>3. t \in P
      BY <1>2, <3>2
    <3> QED BY <3>1, <3>3
  <2> QED BY <2>1
<1>3. Nat \subseteq N
  <2> HIDE DEF N
  <2> QED BY <1>1, <1>2, Induction
<1>4. ASSUME NEW s \in Seq(A) PROVE s \in P
  <2>1. Len(s) \in N
    BY <1>3
  <2> QED BY <2>1
<1> QED BY <1>4

(* A sequence over a set is one over a larger set.                         *)
LEMMA SeqOfMore ==
    ASSUME NEW A, NEW B, A \subseteq B, NEW s \in Seq(A)
    PROVE  s \in Seq(B)
  OBVIOUS

(* The members of a longer sequence.                                       *)
LEMMA ToSetOfAppend ==
    ASSUME NEW A, NEW s \in Seq(A), NEW x \in A
    PROVE  ToSet(Append(s, x)) = ToSet(s) \cup {x}
<1>1. /\ DOMAIN s = 1..Len(s) /\ Len(s) \in Nat
      /\ DOMAIN Append(s, x) = 1..(Len(s) + 1)
      /\ Append(s, x)[Len(s) + 1] = x /\ \A i \in 1..Len(s) : Append(s, x)[i] = s[i]
  OBVIOUS
<1> QED BY <1>1 DEF ToSet

LEMMA ToSetOfConcat ==
    ASSUME NEW A, NEW s \in Seq(A), NEW t \in Seq(A)
    PROVE  ToSet(s \o t) = ToSet(s) \cup ToSet(t)
<1>1. /\ DOMAIN s = 1..Len(s) /\ Len(s) \in Nat /\ DOMAIN t = 1..Len(t) /\ Len(t) \in Nat
      /\ DOMAIN (s \o t) = 1..(Len(s) + Len(t))
      /\ \A i \in 1..Len(s) : (s \o t)[i] = s[i]
      /\ \A i \in 1..Len(t) : (s \o t)[Len(s) + i] = t[i]
  OBVIOUS
<1>2. \A i \in 1..(Len(s) + Len(t)) : i \in 1..Len(s) \/ \E j \in 1..Len(t) : i = Len(s) + j
  <2> TAKE i \in 1..(Len(s) + Len(t))
  <2>1. i > Len(s) => i - Len(s) \in 1..Len(t) /\ i = Len(s) + (i - Len(s))
    BY <1>1
  <2> QED BY <2>1, <1>1
<1>3. \A j \in 1..Len(t) : Len(s) + j \in 1..(Len(s) + Len(t))
  BY <1>1
<1>4. \A i \in 1..Len(s) : i \in 1..(Len(s) + Len(t))
  BY <1>1
<1> HIDE DEF ToSet
<1>5. ToSet(s \o t) \subseteq ToSet(s) \cup ToSet(t)
  <2> SUFFICES ASSUME NEW x \in ToSet(s \o t) PROVE x \in ToSet(s) \cup ToSet(t)
    OBVIOUS
  <2>1. PICK i \in 1..(Len(s) + Len(t)) : x = (s \o t)[i]
    BY <1>1 DEF ToSet
  <2>2. CASE i \in 1..Len(s)
    <3>1. x = s[i] /\ i \in DOMAIN s
      BY <1>1, <2>1, <2>2
    <3> QED BY <3>1 DEF ToSet
  <2>3. ASSUME NEW j \in 1..Len(t), i = Len(s) + j PROVE x \in ToSet(t)
    <3>1. x = t[j] /\ j \in DOMAIN t
      BY <1>1, <2>1, <2>3
    <3> QED BY <3>1 DEF ToSet
  <2> QED BY <1>2, <2>2, <2>3
<1>6. ToSet(s) \cup ToSet(t) \subseteq ToSet(s \o t)
  <2>1. ASSUME NEW i \in 1..Len(s) PROVE s[i] \in ToSet(s \o t)
    BY <1>1, <1>4 DEF ToSet
  <2>2. ASSUME NEW i \in 1..Len(t) PROVE t[i] \in ToSet(s \o t)
    BY <1>1, <1>3 DEF ToSet
  <2> QED BY <2>1, <2>2, <1>1 DEF ToSet
<1> QED BY <1>5, <1>6

(* What is kept are the members of s that are in S.                        *)
LEMMA FilteredMembers ==
    ASSUME NEW A, NEW s \in Seq(A), NEW S
    PROVE  Filtered(s, S) \in Seq(A \cap S) /\ ToSet(Filtered(s, S)) = ToSet(s) \cap S
<1> DEFINE P == {r \in Seq(A) : /\ Filtered(r, S) \in Seq(A \cap S)
                                /\ ToSet(Filtered(r, S)) = ToSet(r) \cap S}
<1>1. <<>> \in P
  <2>1. ToSet(<<>>) = {}
    BY DEF ToSet
  <2>2. <<>> \in Seq(A) /\ <<>> \in Seq(A \cap S)
    OBVIOUS
  <2>3. ToSet(<<>>) = ToSet(<<>>) \cap S
    BY <2>1
  <2> HIDE DEF ToSet
  <2> QED BY <2>2, <2>3, FilteredEmpty
<1>2. ASSUME NEW r \in Seq(A), NEW x \in A, r \in P PROVE Append(r, x) \in P
  <2>1. Append(r, x) \in Seq(A) /\ ToSet(Append(r, x)) = ToSet(r) \cup {x}
    BY ToSetOfAppend
  <2>2. CASE x \in S
    <3>1. Filtered(Append(r, x), S) = Append(Filtered(r, S), x)
      BY <2>2, FilteredAppend
    <3>2. ToSet(Append(Filtered(r, S), x)) = ToSet(Filtered(r, S)) \cup {x}
      BY <1>2, <2>2, ToSetOfAppend
    <3>3. Append(Filtered(r, S), x) \in Seq(A \cap S)
      BY <1>2, <2>2
    <3> QED BY <1>2, <2>1, <2>2, <3>1, <3>2, <3>3
  <2>3. CASE x \notin S
    <3>1. Filtered(Append(r, x), S) = Filtered(r, S)
      BY <2>3, FilteredAppend
    <3> QED BY <1>2, <2>1, <2>3, <3>1
  <2> QED BY <2>2, <2>3
<1>3. Seq(A) \subseteq P
  <2> HIDE DEF P
  <2> QED BY <1>1, <1>2, SequenceInduction
<1> QED BY <1>3

(* If none is left out, all are kept.                                      *)
LEMMA FilteredKeepsAll ==
    ASSUME NEW A, NEW s \in Seq(A), NEW S
    PROVE  Len(Filtered(s, S)) = Len(s) => Filtered(s, S) = s
<1> DEFINE P == {r \in Seq(A) : /\ Len(Filtered(r, S)) \in Nat /\ Len(Filtered(r, S)) <= Len(r)
                                /\ Len(Filtered(r, S)) = Len(r) => Filtered(r, S) = r}
<1>1. <<>> \in P
  BY FilteredEmpty
<1>2. ASSUME NEW r \in Seq(A), NEW x \in A, r \in P PROVE Append(r, x) \in P
  <2> DEFINE F == Filtered(r, S)
  <2>1. /\ Append(r, x) \in Seq(A) /\ Len(Append(r, x)) = Len(r) + 1 /\ Len(r) \in Nat
    OBVIOUS
  <2>2. F \in Seq(A)
    <3>1. F \in Seq(A \cap S)
      BY FilteredMembers
    <3> QED BY <3>1
  <2>3. Len(F) <= Len(r) /\ (Len(F) = Len(r) => F = r)
    BY <1>2
  <2>4. Filtered(Append(r, x), S) = IF x \in S THEN Append(F, x) ELSE F
    BY FilteredAppend
  <2> HIDE DEF F
  <2>5. Len(F) \in Nat /\ Len(Append(F, x)) = Len(F) + 1
    BY <2>2
  <2> QED BY <2>1, <2>2, <2>3, <2>4, <2>5
<1>3. Seq(A) \subseteq P
  <2> HIDE DEF P
  <2> QED BY <1>1, <1>2, SequenceInduction
<1> QED BY <1>3

(* Where the members that are kept stood.                                  *)
Places(f, r, s) ==
    /\ f \in [1..Len(r) -> 1..Len(s)]
    /\ \A i, j \in 1..Len(r) : i < j => f[i] < f[j]
    /\ \A i \in 1..Len(r) : r[i] = s[f[i]]

(* What is kept stays in its order.                                        *)
LEMMA FilteredPlaces ==
    ASSUME NEW A, NEW s \in Seq(A), NEW S
    PROVE  \E f : Places(f, Filtered(s, S), s)
<1> DEFINE P == {r \in Seq(A) : \E f : Places(f, Filtered(r, S), r)}
<1>1. <<>> \in P
  <2> DEFINE f == [i \in {} |-> 0]
  <2>1. Places(f, <<>>, <<>>)
    BY DEF Places
  <2> HIDE DEF f
  <2> QED BY <2>1, FilteredEmpty
<1>2. ASSUME NEW r \in Seq(A), NEW x \in A, r \in P PROVE Append(r, x) \in P
  <2> DEFINE F == Filtered(r, S)
             n == Len(r)
             m == Len(F)
  <2>1. PICK f : Places(f, F, r)
    BY <1>2
  <2>2. F \in Seq(A) /\ m \in Nat /\ n \in Nat
    <3>1. F \in Seq(A \cap S)
      BY FilteredMembers
    <3> QED BY <3>1
  <2>3. /\ Append(r, x) \in Seq(A) /\ Len(Append(r, x)) = n + 1 /\ Append(r, x)[n + 1] = x
        /\ \A i \in 1..n : Append(r, x)[i] = r[i]
    OBVIOUS
  <2>4. CASE x \in S
    <3> DEFINE G == Append(F, x)
               g == [i \in 1..(m + 1) |-> IF i = m + 1 THEN n + 1 ELSE f[i]]
    <3>1. Filtered(Append(r, x), S) = G
      BY <2>4, FilteredAppend
    <3>2. Len(G) = m + 1 /\ G[m + 1] = x /\ \A i \in 1..m : G[i] = F[i]
      BY <2>2
    <3> HIDE DEF F, n, m, G
    <3>3. \A i \in 1..m : f[i] \in 1..n
      BY <2>1 DEF Places, m, n
    <3>4. g \in [1..(m + 1) -> 1..(n + 1)]
      BY <3>3, <2>2
    <3>5. \A i, j \in 1..(m + 1) : i < j => g[i] < g[j]
      <4> TAKE i, j \in 1..(m + 1)
      <4> HAVE i < j
      <4>1. i \in 1..m /\ g[i] = f[i] /\ f[i] \in 1..n
        BY <3>3, <2>2
      <4>2. CASE j = m + 1
        BY <4>1, <4>2, <2>2
      <4>3. CASE j # m + 1
        <5>1. j \in 1..m /\ g[j] = f[j]
          BY <4>3, <2>2
        <5>2. f[i] < f[j]
          BY <4>1, <5>1, <2>1 DEF Places, m
        <5> QED BY <4>1, <5>1, <5>2
      <4> QED BY <4>2, <4>3
    <3>6. \A i \in 1..(m + 1) : G[i] = Append(r, x)[g[i]]
      <4> TAKE i \in 1..(m + 1)
      <4>1. CASE i = m + 1
        BY <4>1, <3>2, <2>3, <2>2
      <4>2. CASE i # m + 1
        BY <4>2, <3>2, <3>3, <2>1, <2>2, <2>3 DEF Places, m
      <4> QED BY <4>1, <4>2
    <3>7. Places(g, G, Append(r, x))
      BY <3>2, <3>4, <3>5, <3>6, <2>3 DEF Places
    <3> HIDE DEF g
    <3> QED BY <2>3, <3>1, <3>7
  <2>5. CASE x \notin S
    <3>1. Filtered(Append(r, x), S) = F
      BY <2>5, FilteredAppend
    <3>2. Places(f, F, Append(r, x))
      <4> HIDE DEF F
      <4>1. f \in [1..m -> 1..(n + 1)]
        BY <2>1, <2>2 DEF Places
      <4>2. \A i \in 1..m : F[i] = Append(r, x)[f[i]]
        BY <2>1, <2>3 DEF Places
      <4> QED BY <4>1, <4>2, <2>1, <2>3 DEF Places
    <3> QED BY <2>3, <3>1, <3>2
  <2> QED BY <2>4, <2>5
<1>3. Seq(A) \subseteq P
  <2> HIDE DEF P
  <2> QED BY <1>1, <1>2, SequenceInduction
<1> QED BY <1>3

(* Two parts are filtered one by one.                                      *)
LEMMA FilteredConcat ==
    ASSUME NEW A, NEW s \in Seq(A), NEW t \in Seq(A), NEW S
    PROVE  Filtered(s \o t, S) = Filtered(s, S) \o Filtered(t, S)
<1> DEFINE P == {r \in Seq(A) : Filtered(s \o r, S) = Filtered(s, S) \o Filtered(r, S)}
<1>0. Filtered(s, S) \in Seq(A) /\ \A r \in Seq(A) : Filtered(r, S) \in Seq(A)
  <2>1. \A r \in Seq(A) : Filtered(r, S) \in Seq(A \cap S)
    BY FilteredMembers
  <2> QED BY <2>1
<1>1. <<>> \in P
  BY <1>0, FilteredEmpty
<1>2. ASSUME NEW r \in Seq(A), NEW x \in A, r \in P PROVE Append(r, x) \in P
  <2>1. s \o Append(r, x) = Append(s \o r, x) /\ s \o r \in Seq(A)
    OBVIOUS
  <2>2. Filtered(s \o Append(r, x), S) =
           IF x \in S THEN Append(Filtered(s \o r, S), x) ELSE Filtered(s \o r, S)
    BY <2>1, FilteredAppend
  <2>3. Filtered(Append(r, x), S) = IF x \in S THEN Append(Filtered(r, S), x)
                                              ELSE Filtered(r, S)
    BY FilteredAppend
  <2>4. Filtered(s, S) \o Append(Filtered(r, S), x) = Append(Filtered(s, S) \o Filtered(r, S), x)
    <3> DEFINE F == Filtered(s, S)
               G == Filtered(r, S)
    <3>1. F \in Seq(A) /\ G \in Seq(A)
      BY <1>0
    <3> HIDE DEF F, G
    <3>2. F \o Append(G, x) = Append(F \o G, x)
      BY <3>1
    <3> QED BY <3>2 DEF F, G
  <2>5. Append(r, x) \in Seq(A)
    OBVIOUS
  <2> QED BY <1>2, <2>2, <2>3, <2>4, <2>5
<1>3. Seq(A) \subseteq P
  <2> HIDE DEF P
  <2> QED BY <1>1, <1>2, SequenceInduction
<1> QED BY <1>3

(* Keeping twice is keeping what is wanted both times.                     *)
LEMMA FilteredTwice ==
    ASSUME NEW A, NEW s \in Seq(A), NEW S, NEW T
    PROVE  Filtered(Filtered(s, S), T) = Filtered(s, S \cap T)
<1> DEFINE P == {r \in Seq(A) : Filtered(Filtered(r, S), T) = Filtered(r, S \cap T)}
<1>1. <<>> \in P
  BY FilteredEmpty
<1>2. ASSUME NEW r \in Seq(A), NEW x \in A, r \in P PROVE Append(r, x) \in P
  <2> DEFINE F == Filtered(r, S)
  <2>1. Append(r, x) \in Seq(A)
    OBVIOUS
  <2>2. F \in Seq(A)
    <3>1. F \in Seq(A \cap S)
      BY FilteredMembers
    <3> QED BY <3>1
  <2>3. Filtered(Append(r, x), S) = IF x \in S THEN Append(F, x) ELSE F
    BY FilteredAppend
  <2>4. Filtered(Append(r, x), S \cap T) =
           IF x \in S \cap T THEN Append(Filtered(r, S \cap T), x) ELSE Filtered(r, S \cap T)
    BY FilteredAppend
  <2> HIDE DEF F
  <2>5. Filtered(Append(F, x), T) = IF x \in T THEN Append(Filtered(F, T), x) ELSE Filtered(F, T)
    BY <2>2, FilteredAppend
  <2>6. Filtered(F, T) = Filtered(r, S \cap T)
    BY <1>2 DEF F
  <2> DEFINE G == Filtered(r, S \cap T)
             Y == Append(r, x)
             Z == Append(F, x)
  <2>7. Filtered(Filtered(Y, S), T) = Filtered(Y, S \cap T)
    <3>1. /\ Filtered(Y, S) = IF x \in S THEN Z ELSE F
          /\ Filtered(Y, S \cap T) = IF x \in S \cap T THEN Append(G, x) ELSE G
          /\ Filtered(Z, T) = IF x \in T THEN Append(G, x) ELSE G
          /\ Filtered(F, T) = G
      BY <2>3, <2>4, <2>5, <2>6
    <3> HIDE DEF G, Y, Z
    <3>2. CASE x \in S
      BY <3>1, <3>2
    <3>3. CASE x \notin S
      BY <3>1, <3>3
    <3> QED BY <3>2, <3>3
  <2> QED BY <2>1, <2>7
<1>3. Seq(A) \subseteq P
  <2> HIDE DEF P
  <2> QED BY <1>1, <1>2, SequenceInduction
<1> QED BY <1>3

(* All is kept if all is wanted, nothing if nothing is.                    *)
LEMMA FilteredAll ==
    ASSUME NEW A, NEW s \in Seq(A), NEW S, ToSet(s) \subseteq S
    PROVE  Filtered(s, S) = s
<1> DEFINE P == {r \in Seq(A) : ToSet(r) \subseteq S => Filtered(r, S) = r}
<1>1. <<>> \in P
  BY FilteredEmpty
<1>2. ASSUME NEW r \in Seq(A), NEW x \in A, r \in P PROVE Append(r, x) \in P
  <2>1. Append(r, x) \in Seq(A) /\ ToSet(Append(r, x)) = ToSet(r) \cup {x}
    BY ToSetOfAppend
  <2> QED BY <1>2, <2>1, FilteredAppend
<1>3. Seq(A) \subseteq P
  <2> HIDE DEF P
  <2> QED BY <1>1, <1>2, SequenceInduction
<1> QED BY <1>3

LEMMA FilteredNone ==
    ASSUME NEW A, NEW s \in Seq(A), NEW S, ToSet(s) \cap S = {}
    PROVE  Filtered(s, S) = <<>>
<1>1. Filtered(s, S) \in Seq(A \cap S) /\ ToSet(Filtered(s, S)) = {}
  BY FilteredMembers
<1>2. ASSUME NEW r \in Seq(A \cap S), ToSet(r) = {} PROVE r = <<>>
  <2>1. DOMAIN r = 1..Len(r) /\ Len(r) \in Nat
    OBVIOUS
  <2>2. 1..Len(r) = {}
    BY <1>2, <2>1 DEF ToSet
  <2>3. Len(r) = 0
    <3>1. Len(r) # 0 => 1 \in 1..Len(r)
      BY <2>1
    <3> QED BY <2>2, <3>1
  <2> QED BY <2>3
<1> QED BY <1>1, <1>2

-----------------------------------------------------------------------------
(* A sequence of different members counts its set.                         *)
Distinct(s) == \A i, j \in 1..Len(s) : s[i] = s[j] => i = j

LEMMA DistinctCounts ==
    ASSUME NEW A, NEW s \in Seq(A), Distinct(s)
    PROVE  IsFiniteSet(ToSet(s)) /\ Cardinality(ToSet(s)) = Len(s)
<1> DEFINE n == Len(s)
           T == ToSet(s)
<1>1. n \in Nat /\ DOMAIN s = 1..n
  OBVIOUS
<1>2. s \in [1..n -> T]
  BY <1>1 DEF ToSet
<1>3. \A t \in T : \E i \in 1..n : s[i] = t
  BY <1>1 DEF ToSet
<1> HIDE DEF T
<1>4. s \in Bijection(1..n, T)
  BY <1>1, <1>2, <1>3 DEF Distinct, Bijection, Injection, Surjection, IsInjective
<1>5. ExistsBijection(1..n, T)
  BY <1>4 DEF ExistsBijection
<1>6. IsFiniteSet(1..n) /\ Cardinality(1..n) = n
  BY <1>1, FS_Interval
<1> QED BY <1>5, <1>6, FS_Bijection DEF T

(* A sequence of different members keeps different ones.                   *)
LEMMA DistinctPlaces ==
    ASSUME NEW A, NEW r \in Seq(A), NEW s \in Seq(A), Distinct(s), NEW f, Places(f, r, s)
    PROVE  Distinct(r)
<1>1. ASSUME NEW i \in 1..Len(r), NEW j \in 1..Len(r), r[i] = r[j] PROVE i = j
  <2>1. f[i] \in 1..Len(s) /\ f[j] \in 1..Len(s) /\ s[f[i]] = s[f[j]]
    BY <1>1 DEF Places
  <2>2. f[i] = f[j] /\ f[i] \in Nat
    BY <2>1 DEF Distinct
  <2>3. ~(f[i] < f[j]) /\ ~(f[j] < f[i])
    BY <2>2
  <2> QED BY <2>3 DEF Places
<1> QED BY <1>1 DEF Distinct

(* Every finite set of numbers has an increasing enumeration: its least    *)
(* number, then the others.                                                *)
Increases(s) == \A i, j \in DOMAIN s : i < j => s[i] < s[j]

LEMMA SomeOrderAscends ==
    ASSUME NEW S, S \subseteq Nat, IsFiniteSet(S)
    PROVE  \E s \in [1..Cardinality(S) -> S] : Increases(s)
<1> DEFINE N == {n \in Nat : \A T \in SUBSET Nat : IsFiniteSet(T) /\ Cardinality(T) = n =>
                                \E s \in [1..n -> T] : Increases(s)}
<1>1. 0 \in N
  <2>1. ASSUME NEW T PROVE \E s \in [1..0 -> T] : Increases(s)
    <3> DEFINE s == [i \in 1..0 |-> CHOOSE t \in T : TRUE]
    <3>1. s \in [1..0 -> T] /\ Increases(s)
      BY DEF Increases
    <3> QED BY <3>1
  <2> QED BY <2>1
<1>2. ASSUME NEW n \in Nat, n \in N PROVE n + 1 \in N
  <2>1. ASSUME NEW T \in SUBSET Nat, IsFiniteSet(T), Cardinality(T) = n + 1
        PROVE  \E s \in [1..(n + 1) -> T] : Increases(s)
    <3>1. T # {}
      BY <2>1, FS_EmptySet
    <3>2. PICK m \in T : \A k \in T : m <= k
      BY <3>1, LeastNumber
    <3>a. IsFiniteSet(T \ {m}) /\ Cardinality(T \ {m}) = Cardinality(T) - 1
      <4> HIDE DEF N
      <4>1. m \in T
        BY <3>2
      <4> QED BY ONLY <2>1, <4>1, FS_RemoveElement
    <3>3. IsFiniteSet(T \ {m}) /\ Cardinality(T \ {m}) = n
      BY <2>1, <3>a
    <3>4. PICK t \in [1..n -> T \ {m}] : Increases(t)
      BY <1>2, <3>3
    <3> DEFINE s == [i \in 1..(n + 1) |-> IF i = 1 THEN m ELSE t[i - 1]]
    <3>5. ASSUME NEW i \in 1..(n + 1)
          PROVE  s[i] \in T /\ (i # 1 => i - 1 \in 1..n /\ s[i] = t[i - 1] /\ m < s[i])
      <4>1. i # 1 => i - 1 \in 1..n
        OBVIOUS
      <4>2. i # 1 => t[i - 1] \in T \ {m}
        BY <4>1, <3>4
      <4>3. \A k \in T \ {m} : m < k
        <5> TAKE k \in T \ {m}
        <5>1. k \in Nat /\ m \in Nat /\ m <= k /\ k # m
          BY <3>2, <2>1
        <5> QED BY <5>1
      <4>4. s[i] = IF i = 1 THEN m ELSE t[i - 1]
        OBVIOUS
      <4> HIDE DEF s, N
      <4> QED BY <4>1, <4>2, <4>3, <4>4, <3>2
    <3>6. s \in [1..(n + 1) -> T]
      BY <3>5
    <3>7. \A i, j \in 1..(n + 1) : i < j => s[i] < s[j]
      <4> TAKE i, j \in 1..(n + 1)
      <4> HAVE i < j
      <4>1. j # 1 /\ j - 1 \in 1..n /\ s[j] = t[j - 1] /\ m < s[j]
        BY <3>5
      <4>2. CASE i = 1
        BY <4>1, <4>2
      <4>3. CASE i # 1
        <5>1. i - 1 \in 1..n /\ s[i] = t[i - 1] /\ i - 1 < j - 1
          BY <3>5, <4>3
        <5> QED BY <4>1, <5>1, <3>4 DEF Increases
      <4> QED BY <4>2, <4>3
    <3> HIDE DEF s
    <3>8. Increases(s)
      BY <3>6, <3>7 DEF Increases
    <3> QED BY <3>6, <3>8
  <2> QED BY <2>1
<1>3. Nat \subseteq N
  <2> HIDE DEF N
  <2> QED BY <1>1, <1>2, Induction
<1>4. Cardinality(S) \in Nat
  BY FS_CardinalityType
<1> QED BY <1>3, <1>4

(* Ascending enumerates its set, each number once, in increasing order.    *)
LEMMA AscendingSorts ==
    ASSUME NEW S, S \subseteq Nat, IsFiniteSet(S)
    PROVE  /\ Ascending(S) \in Seq(S) /\ Len(Ascending(S)) = Cardinality(S)
           /\ Increases(Ascending(S)) /\ Distinct(Ascending(S))
           /\ ToSet(Ascending(S)) = S
<1> DEFINE s == Ascending(S)
           n == Cardinality(S)
<1>1. n \in Nat
  BY FS_CardinalityType
<1>2. s \in [1..n -> S] /\ Increases(s)
  BY SomeOrderAscends DEF Ascending, Increases
<1> HIDE DEF s, n
<1>3. s \in Seq(S) /\ Len(s) = n
  BY <1>1, <1>2
<1>4. Distinct(s)
  <2>1. ASSUME NEW i \in 1..n, NEW j \in 1..n, s[i] = s[j] PROVE i = j
    <3>1. s[i] \in Nat /\ s[j] \in Nat
      BY <1>2
    <3>2. ~(s[i] < s[j]) /\ ~(s[j] < s[i])
      BY <3>1, <2>1
    <3>3. ~(i < j) /\ ~(j < i)
      BY <3>2, <1>2 DEF Increases
    <3> QED BY <3>3, <1>1
  <2> QED BY <2>1, <1>3 DEF Distinct
<1>5. IsFiniteSet(ToSet(s)) /\ Cardinality(ToSet(s)) = n
  BY <1>3, <1>4, DistinctCounts
<1>6. ToSet(s) \in SUBSET S
  BY <1>2 DEF ToSet
<1>7. ToSet(s) = S
  BY <1>5, <1>6, FS_Subset DEF n
<1> QED BY <1>2, <1>3, <1>4, <1>7 DEF s, n

(* The rank of a member of a sorted set is its place.                      *)
LEMMA RankIsPlace ==
    ASSUME NEW s \in Seq(Nat), Increases(s), NEW m \in 1..Len(s)
    PROVE  Cardinality({j \in ToSet(s) : j < s[m]}) = m - 1
<1> DEFINE t == [i \in 1..(m - 1) |-> s[i]]
<1>1. Len(s) \in Nat /\ DOMAIN s = 1..Len(s) /\ m - 1 \in Nat /\ \A i \in 1..Len(s) : s[i] \in Nat
  OBVIOUS
<1>2. t \in Seq(Nat) /\ Len(t) = m - 1 /\ DOMAIN t = 1..(m - 1)
  BY <1>1
<1>3. \A i \in 1..Len(s) : s[i] < s[m] <=> i < m
  <2> TAKE i \in 1..Len(s)
  <2>1. CASE i < m
    BY <2>1, <1>1 DEF Increases
  <2>2. CASE i = m
    BY <2>2, <1>1
  <2>3. CASE m < i
    <3>1. s[m] < s[i]
      BY <2>3, <1>1 DEF Increases
    <3> QED BY <2>3, <3>1, <1>1
  <2> QED BY <2>1, <2>2, <2>3
<1>4. Distinct(t)
  <2>1. ASSUME NEW i \in 1..(m - 1), NEW j \in 1..(m - 1), s[i] = s[j] PROVE i = j
    <3>1. i \in 1..Len(s) /\ j \in 1..Len(s)
      BY <1>1
    <3>2. ~(s[i] < s[j]) /\ ~(s[j] < s[i])
      BY <3>1, <2>1, <1>1
    <3>3. ~(i < j) /\ ~(j < i)
      BY <3>1, <3>2 DEF Increases
    <3> QED BY <3>3, <1>1
  <2> QED BY <2>1, <1>2 DEF Distinct
<1>5. ToSet(t) = {j \in ToSet(s) : j < s[m]}
  <2>1. ASSUME NEW i \in 1..Len(s), s[i] < s[m] PROVE i \in 1..(m - 1) /\ t[i] = s[i]
    BY <2>1, <1>1, <1>3
  <2>2. ASSUME NEW i \in 1..(m - 1) PROVE i \in 1..Len(s) /\ t[i] = s[i] /\ s[i] < s[m]
    BY <1>1, <1>3
  <2> HIDE DEF t
  <2> QED BY <2>1, <2>2, <1>1, <1>2 DEF ToSet
<1> HIDE DEF t
<1> QED BY <1>2, <1>4, <1>5, DistinctCounts

-----------------------------------------------------------------------------
(* The head of one sequence may as well be the last of another.            *)
LEMMA HeadMovesOver ==
    ASSUME NEW A, NEW s \in Seq(A), NEW t \in Seq(A), t # <<>>
    PROVE  Append(s, Head(t)) \o Tail(t) = s \o t
<1> DEFINE u == Append(s, Head(t))
           v == Tail(t)
<1>1. Head(t) \in A /\ v \in Seq(A) /\ Len(v) = Len(t) - 1 /\ Len(t) \in Nat \ {0}
  OBVIOUS
<1>2. u \in Seq(A) /\ Len(u) = Len(s) + 1 /\ Len(s) \in Nat
  BY <1>1
<1>3. \A i \in 1..Len(s) : u[i] = s[i]
  BY <1>1
<1>4. u[Len(s) + 1] = t[1] /\ \A i \in 1..Len(v) : v[i] = t[i + 1]
  BY <1>1
<1> HIDE DEF u, v
<1>5. u \o v \in Seq(A) /\ Len(u \o v) = Len(s) + Len(t)
  <2>1. u \in Seq(A) /\ v \in Seq(A)
    BY <1>1, <1>2
  <2>2. u \o v \in Seq(A) /\ Len(u \o v) = Len(u) + Len(v)
    BY <2>1
  <2> QED BY <1>1, <1>2, <2>2
<1>6. s \o t \in Seq(A) /\ Len(s \o t) = Len(s) + Len(t)
  OBVIOUS
<1>7. ASSUME NEW i \in 1..(Len(s) + Len(t)) PROVE (u \o v)[i] = (s \o t)[i]
  <2>1. CASE i \in 1..Len(s)
    <3>1. (u \o v)[i] = u[i] /\ (s \o t)[i] = s[i]
      BY <2>1, <1>1, <1>2
    <3> QED BY <2>1, <3>1, <1>3
  <2>2. CASE i = Len(s) + 1
    <3>1. (u \o v)[i] = u[i] /\ (s \o t)[i] = t[1]
      BY <2>2, <1>1, <1>2
    <3> QED BY <2>2, <3>1, <1>4
  <2>3. CASE i > Len(s) + 1
    <3>1. (s \o t)[i] = t[i - Len(s)]
      BY <2>3, <1>1, <1>2
    <3>2. (u \o v)[i] = v[i - Len(s) - 1]
      BY <2>3, <1>1, <1>2
    <3>3. i - Len(s) - 1 \in 1..Len(v) /\ i - Len(s) - 1 + 1 = i - Len(s)
      BY <2>3, <1>1, <1>2
    <3> QED BY <3>1, <3>2, <3>3, <1>4
  <2>4. i \in 1..Len(s) \/ i = Len(s) + 1 \/ i > Len(s) + 1
    BY <1>2
  <2> QED BY <2>1, <2>2, <2>3, <2>4
<1> QED BY <1>5, <1>6, <1>7, SeqEqual DEF u, v

-----------------------------------------------------------------------------
(* The members of S that R puts after x, and the last k members of S.      *)
Beyond(R, S, x) == {y \in S : <<x, y>> \in R}
LastOf(R, S, k) == {x \in S : Cardinality(Beyond(R, S, x)) < k}
Orders(R, S) ==
    /\ \A x, y, z \in S : <<x, y>> \in R /\ <<y, z>> \in R => <<x, z>> \in R
    /\ \A x \in S : <<x, x>> \notin R
    /\ \A x, y \in S : x = y \/ <<x, y>> \in R \/ <<y, x>> \in R

(* Who comes later has fewer after it.                                     *)
LEMMA FewerLater ==
    ASSUME NEW S, IsFiniteSet(S), NEW R, Orders(R, S)
    PROVE  /\ \A x \in S : /\ IsFiniteSet(Beyond(R, S, x))
                           /\ Cardinality(Beyond(R, S, x)) \in Nat
           /\ \A x, y \in S :
                 <<x, y>> \in R => Cardinality(Beyond(R, S, y)) < Cardinality(Beyond(R, S, x))
<1>1. ASSUME NEW x \in S PROVE IsFiniteSet(Beyond(R, S, x)) /\ Cardinality(Beyond(R, S, x)) \in Nat
  <2>1. Beyond(R, S, x) \subseteq S
    BY DEF Beyond
  <2> QED BY <2>1, FS_Subset, FS_CardinalityType
<1>2. ASSUME NEW x \in S, NEW y \in S, <<x, y>> \in R
      PROVE  Cardinality(Beyond(R, S, y)) < Cardinality(Beyond(R, S, x))
  <2>1. Beyond(R, S, y) \subseteq Beyond(R, S, x)
    BY <1>2 DEF Beyond, Orders
  <2>2. y \in Beyond(R, S, x) /\ y \notin Beyond(R, S, y)
    BY <1>2 DEF Beyond, Orders
  <2>3. Beyond(R, S, y) # Beyond(R, S, x)
    BY <2>2
  <2> HIDE DEF Beyond
  <2>4. Cardinality(Beyond(R, S, y)) <= Cardinality(Beyond(R, S, x))
    BY <1>1, <2>1, FS_Subset
  <2>5. Cardinality(Beyond(R, S, y)) # Cardinality(Beyond(R, S, x))
    BY <1>1, <2>1, <2>3, FS_Subset
  <2> QED BY <1>1, <2>4, <2>5
<1> QED BY <1>1, <1>2

(* What is not among the last comes before all of them.                    *)
LEMMA LastComeLater ==
    ASSUME NEW S, IsFiniteSet(S), NEW R, Orders(R, S), NEW k \in Nat,
           NEW x \in S \ LastOf(R, S, k), NEW y \in LastOf(R, S, k)
    PROVE  <<x, y>> \in R
<1>1. /\ x \in S /\ y \in S /\ ~(Cardinality(Beyond(R, S, x)) < k)
      /\ Cardinality(Beyond(R, S, y)) < k
  BY DEF LastOf
<1>2. Cardinality(Beyond(R, S, x)) \in Nat /\ Cardinality(Beyond(R, S, y)) \in Nat
  BY <1>1, FewerLater
<1>3. x # y
  BY <1>1
<1>4. ASSUME <<y, x>> \in R PROVE FALSE
  <2>1. Cardinality(Beyond(R, S, x)) < Cardinality(Beyond(R, S, y))
    BY <1>1, <1>4, FewerLater
  <2> QED BY <1>1, <1>2, <2>1
<1> QED BY <1>1, <1>3, <1>4 DEF Orders

(* The last k are as many as k when they are not all.                      *)
LEMMA LastFill ==
    ASSUME NEW S, IsFiniteSet(S), NEW R, Orders(R, S), NEW k \in Nat,
           S \ LastOf(R, S, k) # {}
    PROVE  Cardinality(LastOf(R, S, k)) >= k
<1> DEFINE Behind(x) == Cardinality(Beyond(R, S, x))
           T == {Behind(x) : x \in S \ LastOf(R, S, k)}
           L == LastOf(R, S, k)
<1>1. T \in SUBSET Nat /\ T # {}
  BY FewerLater
<1>2. PICK m \in T : \A n \in T : m <= n
  BY <1>1, LeastNumber
<1>3. PICK x \in S \ L : m = Behind(x)
  BY <1>2
<1>4. Behind(x) \in Nat /\ IsFiniteSet(Beyond(R, S, x))
  BY <1>3, FewerLater
<1>5. Behind(x) >= k
  BY <1>3, <1>4 DEF LastOf
<1>6. ASSUME NEW y \in Beyond(R, S, x), y \notin L PROVE FALSE
  <2>1. y \in S \ L /\ <<x, y>> \in R
    BY <1>6 DEF Beyond
  <2>2. Behind(y) < Behind(x) /\ Behind(y) \in Nat
    BY <1>3, <2>1, FewerLater
  <2>3. Behind(x) <= Behind(y)
    BY <1>2, <1>3, <2>1
  <2> QED BY <1>4, <2>2, <2>3
<1>7. Beyond(R, S, x) \subseteq L
  BY <1>6
<1>8. IsFiniteSet(L)
  <2>1. L \subseteq S
    BY DEF LastOf
  <2> QED BY <2>1, FS_Subset
<1>9. Behind(x) <= Cardinality(L) /\ Cardinality(L) \in Nat
  BY <1>7, <1>8, FS_Subset, FS_CardinalityType
<1> QED BY <1>4, <1>5, <1>9

(* They are at most k.                                                     *)
LEMMA LastFit ==
    ASSUME NEW S, IsFiniteSet(S), NEW R, Orders(R, S), NEW k \in Nat
    PROVE  /\ LastOf(R, S, k) \subseteq S /\ IsFiniteSet(LastOf(R, S, k))
           /\ Cardinality(LastOf(R, S, k)) \in Nat /\ Cardinality(LastOf(R, S, k)) <= k
<1> DEFINE L == LastOf(R, S, k)
           Behind(x) == Cardinality(Beyond(R, S, x))
           T == {k - Behind(x) : x \in L}
<1>1. L \subseteq S /\ IsFiniteSet(L) /\ Cardinality(L) \in Nat
  <2>1. L \subseteq S
    BY DEF LastOf
  <2> QED BY <2>1, FS_Subset, FS_CardinalityType
<1>2. CASE L = {}
  BY <1>1, <1>2, FS_EmptySet
<1>3. CASE L # {}
  <2>1. \A x \in L : Behind(x) \in Nat /\ Behind(x) < k
    BY <1>1, FewerLater DEF LastOf
  <2> HIDE DEF L, Behind
  <2>2. T \in SUBSET Nat /\ T # {}
    BY <1>3, <2>1
  <2>3. PICK m \in T : \A n \in T : m <= n
    BY <2>2, LeastNumber
  <2>4. PICK x \in L : m = k - Behind(x)
    BY <2>3
  <2>5. ASSUME NEW y \in L \ {x} PROVE <<x, y>> \in R
    <3>1. x \in S /\ y \in S /\ x # y
      BY <1>1, <2>4
    <3>2. ASSUME <<y, x>> \in R PROVE FALSE
      <4>1. Behind(x) < Behind(y)
        BY <3>1, <3>2, FewerLater DEF Behind
      <4>2. k - Behind(x) <= k - Behind(y)
        BY <2>3, <2>4
      <4> QED BY <2>1, <2>4, <4>1, <4>2
    <3> QED BY <3>1, <3>2 DEF Orders
  <2>6. L \ {x} \subseteq Beyond(R, S, x)
    BY <1>1, <2>5 DEF Beyond
  <2>7. x \in S /\ IsFiniteSet(Beyond(R, S, x))
    BY <1>1, FewerLater
  <2>8. Cardinality(L \ {x}) <= Behind(x)
    BY <2>6, <2>7, FS_Subset DEF Behind
  <2>9. Cardinality(L \ {x}) = Cardinality(L) - 1
    BY <1>1, FS_RemoveElement
  <2> QED BY <1>1, <2>1, <2>8, <2>9 DEF L
<1> QED BY <1>1, <1>2, <1>3

(* And these two facts single them out.                                    *)
LEMMA LastAre ==
    ASSUME NEW S, IsFiniteSet(S), NEW R, Orders(R, S), NEW k \in Nat,
           NEW Z \in SUBSET S, Cardinality(Z) <= k, S \ Z # {} => Cardinality(Z) >= k,
           \A x \in S \ Z, y \in Z : <<x, y>> \in R
    PROVE  LastOf(R, S, k) = Z
<1>0. IsFiniteSet(Z) /\ Cardinality(Z) \in Nat
  BY FS_Subset, FS_CardinalityType
<1>1. ASSUME NEW z \in Z PROVE z \in LastOf(R, S, k)
  <2>1. Beyond(R, S, z) \subseteq Z \ {z}
    BY DEF Beyond, Orders
  <2>2. Cardinality(Z \ {z}) = Cardinality(Z) - 1 /\ IsFiniteSet(Z \ {z})
    BY <1>0, FS_RemoveElement
  <2>3. Cardinality(Beyond(R, S, z)) <= Cardinality(Z \ {z})
    BY <2>1, <2>2, FS_Subset
  <2>4. Cardinality(Beyond(R, S, z)) \in Nat
    BY FewerLater
  <2> QED BY <1>0, <2>2, <2>3, <2>4 DEF LastOf
<1>2. ASSUME NEW x \in S \ Z PROVE x \notin LastOf(R, S, k)
  <2>1. Z \subseteq Beyond(R, S, x)
    BY DEF Beyond
  <2>2. IsFiniteSet(Beyond(R, S, x)) /\ Cardinality(Beyond(R, S, x)) \in Nat
    BY FewerLater
  <2>3. Cardinality(Z) <= Cardinality(Beyond(R, S, x))
    BY <2>1, <2>2, FS_Subset
  <2>4. Cardinality(Z) >= k
    BY <1>2
  <2>5. ~(Cardinality(Beyond(R, S, x)) < k)
    BY <1>0, <2>2, <2>3, <2>4
  <2> QED BY <2>5 DEF LastOf
<1> QED BY <1>1, <1>2 DEF LastOf
-----------------------------------------------------------------------------
(* The first of a kind                                                     *)
(* If there is one, there is a first one, and FirstIn is that.             *)
LEMMA FirstInFound ==
    ASSUME NEW A, NEW s \in Seq(A), NEW S, NEW i \in 1..Len(s), s[i] \in S, NEW otherwise
    PROVE  \E k \in 1..Len(s) : IsFirst(s, S, k) /\ FirstIn(s, S, otherwise) = s[k]
<1> DEFINE T == {k \in 1..Len(s) : s[k] \in S}
<1>1. Len(s) \in Nat /\ DOMAIN s = 1..Len(s)
  OBVIOUS
<1>2. T \in SUBSET Nat /\ i \in T
  OBVIOUS
<1>3. PICK m \in T : \A k \in T : m <= k
  BY <1>2, LeastNumber
<1>4. ASSUME NEW j \in 1..(m - 1) PROVE s[j] \notin S
  <2>1. j \in 1..Len(s) /\ ~(m <= j)
    BY <1>1, <1>3
  <2> QED BY <2>1, <1>3
<1>5. m \in 1..Len(s) /\ IsFirst(s, S, m)
  BY <1>3, <1>4 DEF IsFirst
<1> DEFINE first == CHOOSE k \in 1..Len(s) : IsFirst(s, S, k)
<1>6. first \in 1..Len(s) /\ IsFirst(s, S, first)
  BY <1>5
<1>7. FirstIn(s, S, otherwise) = s[first]
  BY <1>1 DEF FirstIn
<1> QED BY <1>6, <1>7

(* If there is none, it is what is given for that.                         *)
LEMMA FirstInNone ==
    ASSUME NEW A, NEW s \in Seq(A), NEW S, \A k \in 1..Len(s) : s[k] \notin S, NEW otherwise
    PROVE  FirstIn(s, S, otherwise) = otherwise
  BY DEF FirstIn

(* There is one order of a set.                                            *)
LEMMA OneOrder ==
    ASSUME NEW s \in Seq(Nat), NEW t \in Seq(Nat), Increases(s), Increases(t),
           ToSet(s) = ToSet(t)
    PROVE  s = t
<1>1. /\ Len(s) \in Nat /\ DOMAIN s = 1..Len(s) /\ \A i \in 1..Len(s) : s[i] \in Nat
      /\ Len(t) \in Nat /\ DOMAIN t = 1..Len(t) /\ \A i \in 1..Len(t) : t[i] \in Nat
  OBVIOUS
<1>2. ASSUME NEW i \in 1..Len(s) PROVE i \in 1..Len(t) /\ s[i] = t[i]
  <2>1. s[i] \in ToSet(t)
    BY <1>1 DEF ToSet
  <2>2. PICK j \in 1..Len(t) : s[i] = t[j]
    BY <2>1, <1>1 DEF ToSet
  <2>3. Cardinality({k \in ToSet(s) : k < s[i]}) = i - 1
    BY RankIsPlace
  <2>4. Cardinality({k \in ToSet(t) : k < t[j]}) = j - 1
    BY RankIsPlace
  <2>5. i - 1 = j - 1
    BY <2>2, <2>3, <2>4
  <2>6. i = j
    BY <2>5
  <2> QED BY <2>2, <2>6
<1>3. ASSUME NEW j \in 1..Len(t) PROVE j \in 1..Len(s)
  <2>1. t[j] \in ToSet(s)
    BY <1>1 DEF ToSet
  <2>2. PICK i \in 1..Len(s) : t[j] = s[i]
    BY <2>1, <1>1 DEF ToSet
  <2>3. Cardinality({k \in ToSet(s) : k < s[i]}) = i - 1
    BY RankIsPlace
  <2>4. Cardinality({k \in ToSet(t) : k < t[j]}) = j - 1
    BY RankIsPlace
  <2>5. i - 1 = j - 1
    BY <2>2, <2>3, <2>4
  <2> QED BY <2>5
<1>4. Len(s) = Len(t)
  <2>1. ~(Len(t) < Len(s))
    <3> SUFFICES ASSUME Len(t) < Len(s) PROVE FALSE
      OBVIOUS
    <3>1. Len(s) \in 1..Len(s)
      BY <1>1
    <3>2. Len(s) \in 1..Len(t)
      BY <1>2, <3>1
    <3> QED BY <3>2, <1>1
  <2>2. ~(Len(s) < Len(t))
    <3> SUFFICES ASSUME Len(s) < Len(t) PROVE FALSE
      OBVIOUS
    <3>1. Len(t) \in 1..Len(t)
      BY <1>1
    <3>2. Len(t) \in 1..Len(s)
      BY <1>3, <3>1
    <3> QED BY <3>2, <1>1
  <2>3. Len(s) \in Nat /\ Len(t) \in Nat
    OBVIOUS
  <2> QED BY <2>1, <2>2, <2>3
<1> QED BY <1>1, <1>2, <1>4
=============================================================================
