------------------------- MODULE RoutingPlanProofs -------------------------
(***************************************************************************)
(* For every plan, set of requests, providers and items:                   *)
(*   - a replace only releases its ticket when it holds another one        *)
(*     (ReplaceHoldsAnother, from IInv: the shape of a request, and that   *)
(*     the ticket a provider is asked to retry exists);                    *)
(*   - an acquire walks its plan round by round (AcquireIsWalked), and a   *)
(*     failover keeps to the recorded order (FailoverIsOrdered), both from *)
(*     RInv: what a request has seen, tried and to come, is the plan's     *)
(*     order or what was left when it began, and no step changes it.       *)
(* First what the orders are, then the requests that walk them.            *)
(***************************************************************************)
EXTENDS RoutingPlan, SelectionProofs

(* k is the j-th of round q + 1: rounds and places within a round, counted *)
(* from zero.                                                              *)
LEMMA Division ==
    ASSUME NEW n \in Nat \ {0}, NEW q \in Nat, NEW j \in 0..(n - 1)
    PROVE  (n * q + j) \div n = q /\ (n * q + j) % n = j
  OBVIOUS

LEMMA Quotient ==
    ASSUME NEW n \in Nat \ {0}, NEW x \in Nat
    PROVE  /\ x \div n \in Nat /\ x % n \in 0..(n - 1)
           /\ x = n * (x \div n) + (x % n)
  OBVIOUS

(* Whole rounds do not change the remainder.                               *)
LEMMA WholeRounds ==
    ASSUME NEW n \in Nat \ {0}, NEW q \in Nat, NEW x \in Nat
    PROVE  (n * q + x) % n = x % n
<1>1. x \div n \in Nat /\ x % n \in 0..(n - 1) /\ x = n * (x \div n) + (x % n)
  BY Quotient
<1> DEFINE a == x \div n
           b == x % n
<1> HIDE DEF a, b
<1>2. a \in Nat /\ b \in 0..(n - 1) /\ x = n * a + b
  BY <1>1 DEF a, b
<1>3. n * q + x = n * (q + a) + b
  BY <1>2
<1>4. (n * (q + a) + b) % n = b
  BY <1>2, Division
<1> QED BY <1>3, <1>4 DEF b

LEMMA NextMultiple ==
    ASSUME NEW n \in Nat \ {0}, NEW a \in Int, NEW b \in Int, a < b
    PROVE  n * b >= n * a + n
  OBVIOUS

(* Two numbers less than n apart leave different remainders.               *)
LEMMA RemaindersDiffer ==
    ASSUME NEW n \in Nat \ {0}, NEW x \in Nat, NEW y \in Nat,
           x % n = y % n, x < y + n, y < x + n
    PROVE  x = y
<1> DEFINE a == x \div n
           b == y \div n
           c == x % n
<1>1. a \in Nat /\ b \in Nat /\ c \in 0..(n - 1) /\ x = n * a + c /\ y = n * b + c
  BY Quotient
<1> HIDE DEF a, b, c
<1>2. ~(a < b)
  BY <1>1, NextMultiple
<1>3. ~(b < a)
  BY <1>1, NextMultiple
<1> QED BY <1>1, <1>2, <1>3

(* A rotated sequence has the same members, each once.                     *)
LEMMA RotatedKeeps ==
    ASSUME NEW A, NEW s \in Seq(A), Distinct(s), NEW k \in Nat
    PROVE  /\ Rotated(s, k) \in Seq(A) /\ Len(Rotated(s, k)) = Len(s)
           /\ Distinct(Rotated(s, k)) /\ ToSet(Rotated(s, k)) = ToSet(s)
<1> DEFINE n == Len(s)
           at(i) == ((i - 1 + k) % n) + 1
           t == Rotated(s, k)
<1>1. n \in Nat /\ DOMAIN s = 1..n /\ \A i \in 1..n : s[i] \in A
  OBVIOUS
<1>2. \A i \in 1..n : at(i) \in 1..n
  <2> TAKE i \in 1..n
  <2>1. n \in Nat \ {0} /\ i - 1 + k \in Nat
    BY <1>1
  <2> HIDE DEF n
  <2> QED BY <2>1, Quotient
<1>3. t = [i \in 1..n |-> s[at(i)]]
  BY DEF Rotated
<1> HIDE DEF at, t, n
<1>4. t \in Seq(A) /\ Len(t) = n /\ DOMAIN t = 1..n
  <2>1. t \in [1..n -> A]
    BY <1>1, <1>2, <1>3
  <2> QED BY <2>1, <1>1
<1>5. Distinct(t)
  <2>1. ASSUME NEW i \in 1..n, NEW j \in 1..n, t[i] = t[j] PROVE i = j
    <3>1. at(i) = at(j)
      BY <2>1, <1>1, <1>2, <1>3 DEF Distinct, n
    <3>2. n \in Nat \ {0} /\ i - 1 + k \in Nat /\ j - 1 + k \in Nat
      BY <1>1
    <3>3. (i - 1 + k) % n = (j - 1 + k) % n
      <4>1. (i - 1 + k) % n \in Nat /\ (j - 1 + k) % n \in Nat
        BY <3>2, Quotient
      <4> QED BY <3>1, <4>1 DEF at
    <3>4. i - 1 + k < j - 1 + k + n /\ j - 1 + k < i - 1 + k + n
      BY <1>1
    <3>5. i - 1 + k = j - 1 + k
      BY <3>2, <3>3, <3>4, RemaindersDiffer
    <3> QED BY <3>5, <1>1
  <2> QED BY <2>1, <1>4 DEF Distinct
<1>6. ToSet(t) \in SUBSET ToSet(s)
  BY <1>1, <1>2, <1>3, <1>4 DEF ToSet
<1>7. IsFiniteSet(ToSet(s)) /\ Cardinality(ToSet(s)) = n
  BY DistinctCounts DEF n
<1>8. Cardinality(ToSet(t)) = n
  BY <1>4, <1>5, DistinctCounts
<1>9. ToSet(t) = ToSet(s)
  BY <1>6, <1>7, <1>8, FS_Subset
<1> QED BY <1>4, <1>5, <1>9 DEF t, n

Size(p) == Len(EnabledItems(p))

(* The candidates of a plan that was saved are enabled items, each once.   *)
LEMMA CandidatesOfPlan ==
    ASSUME NEW p \in Plans
    PROVE  /\ EnabledItems(p) \in Seq(Items) /\ Distinct(EnabledItems(p))
           /\ Candidates(p) \subseteq Items /\ IsFiniteSet(Candidates(p))
           /\ Cardinality(Candidates(p)) = Size(p)
           /\ Size(p) \in Nat
<1> DEFINE s == p.items
           e == EnabledItems(p)
<1>1. s \in Seq(Items) /\ Distinct(s)
  <2>1. p \in Plan /\ IsInjective(s)
    BY PlansAssumption
  <2>2. s \in Seq(Items)
    BY <2>1 DEF Plan
  <2> QED BY <2>1, <2>2 DEF IsInjective, Distinct
<1>2. e \in Seq(Items \cap p.enabled)
  BY <1>1, FilteredMembers DEF EnabledItems
<1>3. e \in Seq(Items) /\ ToSet(e) \subseteq Items
  BY <1>2 DEF ToSet
<1>4. PICK f : Places(f, e, s)
  BY <1>1, FilteredPlaces DEF EnabledItems
<1>5. Distinct(e)
  BY <1>1, <1>3, <1>4, DistinctPlaces
<1>6. IsFiniteSet(ToSet(e)) /\ Cardinality(ToSet(e)) = Len(e)
  BY <1>3, <1>5, DistinctCounts
<1> QED BY <1>3, <1>5, <1>6 DEF Candidates, Size

(* A round asks the candidates, each once.                                 *)
LEMMA RoundOfPlan ==
    ASSUME NEW p \in Plans, NEW q \in Nat
    PROVE  LET s == ItemsForRound(p, q + 1)
           IN  /\ s \in Seq(Items) /\ Len(s) = Size(p)
               /\ Distinct(s) /\ ToSet(s) = Candidates(p)
<1> DEFINE e == EnabledItems(p)
           a == Ascending(Candidates(p))
           s == ItemsForRound(p, q + 1)
<1>1. /\ e \in Seq(Items) /\ Distinct(e) /\ ToSet(e) = Candidates(p)
      /\ Candidates(p) \subseteq Items /\ IsFiniteSet(Candidates(p))
      /\ Cardinality(Candidates(p)) = Len(e)
  BY CandidatesOfPlan DEF Candidates, Size
<1>2. CASE ~p.random
  BY <1>1, <1>2 DEF ItemsForRound, Size
<1>3. CASE p.random
  <2>1. /\ a \in Seq(Candidates(p)) /\ Len(a) = Len(e) /\ Distinct(a)
        /\ ToSet(a) = Candidates(p)
    BY <1>1, AscendingSorts, ItemsAssumption
  <2>2. a \in Seq(Items)
    BY <1>1, <2>1
  <2>3. s = Rotated(a, q)
    BY <1>3 DEF ItemsForRound, Candidates
  <2> HIDE DEF a, s, e
  <2> QED BY <2>1, <2>2, <2>3, RotatedKeeps DEF e, s, Size
<1> QED BY <1>2, <1>3

(* The j-th of round q + 1 is the item that AcquireWalksThePlan names.     *)
LEMMA KthOfRound ==
    ASSUME NEW p \in Plans, NEW q \in Nat, NEW j \in 1..Size(p)
    PROVE  ItemsForRound(p, q + 1)[j] = KthItem(p, Size(p) * q + j)
<1> DEFINE n == Size(p)
           k == n * q + j
           C == Candidates(p)
           a == Ascending(C)
           rank(i) == Cardinality({l \in C : l < i})
           m == ((k - 1) + (k - 1) \div n) % n
<1>1. /\ EnabledItems(p) \in Seq(Items) /\ n = Len(EnabledItems(p)) /\ n = Cardinality(C)
      /\ C \subseteq Items /\ IsFiniteSet(C) /\ n \in Nat \ {0}
  BY CandidatesOfPlan DEF Size
<1>2. k - 1 = n * q + (j - 1) /\ j - 1 \in 0..(n - 1) /\ k - 1 \in Nat
  BY <1>1
<1>3. (k - 1) \div n = q /\ (k - 1) % n = j - 1
  <2>1. n \in Nat \ {0} /\ j - 1 \in 0..(n - 1)
    BY <1>1, <1>2
  <2> HIDE DEF n, k
  <2>2. (n * q + (j - 1)) \div n = q /\ (n * q + (j - 1)) % n = j - 1
    BY <2>1, Division
  <2> QED BY <1>2, <2>2
<1>4. CASE ~p.random
  <2>1. KthItem(p, k) = EnabledItems(p)[((k - 1) % n) + 1]
    BY <1>1, <1>4 DEF KthItem
  <2> HIDE DEF n, k
  <2>2. KthItem(p, k) = EnabledItems(p)[j]
    BY <1>1, <1>3, <2>1
  <2>3. ItemsForRound(p, q + 1) = EnabledItems(p)
    BY <1>4 DEF ItemsForRound
  <2> QED BY <2>2, <2>3 DEF n, k
<1>5. CASE p.random
  <2>1. /\ a \in Seq(C) /\ Len(a) = n /\ Increases(a) /\ ToSet(a) = C /\ a \in Seq(Nat)
    <3>1. C \subseteq Nat
      BY <1>1, ItemsAssumption
    <3> HIDE DEF C, n
    <3>2. /\ a \in Seq(C) /\ Len(a) = n /\ Increases(a) /\ ToSet(a) = C
      BY <1>1, <3>1, AscendingSorts
    <3> HIDE DEF a
    <3>3. a \in Seq(C)
      BY <3>2
    <3>4. a \in Seq(Nat)
      BY <3>1, <3>3, SeqOfMore
    <3> QED BY <3>2, <3>4
  <2>2. m = (j - 1 + q) % n
    <3>1. (k - 1) + (k - 1) \div n = n * q + (j - 1) + q
      BY <1>2, <1>3
    <3>2. j - 1 + q \in Nat /\ n \in Nat \ {0}
      BY <1>1, <1>2
    <3> HIDE DEF n, k
    <3>3. n * q + (j - 1) + q = n * q + (j - 1 + q)
      BY <3>2
    <3>4. (n * q + (j - 1 + q)) % n = (j - 1 + q) % n
      BY <3>2, WholeRounds
    <3> QED BY <3>1, <3>3, <3>4
  <2>3. m \in 0..(n - 1) /\ m + 1 \in 1..n
    <3>1. j - 1 + q \in Nat
      BY <1>2
    <3> HIDE DEF n, m
    <3>2. m \in 0..(n - 1)
      BY <2>2, <3>1, <1>1, Quotient
    <3> QED BY <3>2, <1>1
  <2>4. ItemsForRound(p, q + 1)[j] = a[m + 1]
    <3>1. ItemsForRound(p, q + 1) = Rotated(a, q)
      BY <1>5 DEF ItemsForRound, Candidates
    <3>2. Rotated(a, q) = [i \in 1..n |-> a[((i - 1 + q) % n) + 1]]
      BY <2>1 DEF Rotated
    <3> HIDE DEF n, a, m
    <3> QED BY <3>1, <3>2, <2>2 DEF n
  <2>5. \A i \in 1..n : rank(a[i]) = i - 1
    <3> HIDE DEF a, C, n
    <3> QED BY <2>1, RankIsPlace
  <2>6. KthItem(p, k) = CHOOSE i \in C : rank(i) = m
    BY <1>1, <1>5 DEF KthItem
  <2> HIDE DEF m, rank, a, C, n, k
  <2>7. a[m + 1] \in C /\ rank(a[m + 1]) = m
    BY <2>1, <2>3, <2>5, <1>1 DEF ToSet
  <2>8. ASSUME NEW i \in C, rank(i) = m PROVE i = a[m + 1]
    <3>1. PICK l \in 1..n : i = a[l]
      BY <2>1 DEF ToSet
    <3>2. m = l - 1
      BY <3>1, <2>5, <2>8
    <3>3. l = m + 1
      BY <3>2, <2>3, <1>1
    <3> QED BY <3>1, <3>3
  <2>9. (CHOOSE i \in C : rank(i) = m) = a[m + 1]
    BY <2>7, <2>8
  <2> QED BY <2>4, <2>6, <2>9 DEF k, n
<1> QED BY <1>4, <1>5

-----------------------------------------------------------------------------

(* The place of a member in an order.                                      *)
LEMMA PlaceOfMember ==
    ASSUME NEW A, NEW s \in Seq(A), Distinct(s), NEW n \in 1..Len(s)
    PROVE  Place(s, s[n]) = n
<1>1. DOMAIN s = 1..Len(s) /\ s[n] \in ToSet(s)
  BY DEF ToSet
<1>2. \A m \in DOMAIN s : s[m] = s[n] => m = n
  BY <1>1 DEF Distinct
<1>3. (CHOOSE m \in DOMAIN s : s[m] = s[n]) = n
  BY <1>1, <1>2
<1> QED BY <1>1, <1>3 DEF Place

(* Places of what is kept of a sequence are in the order of the sequence.  *)
LEMMA KeptPlaces ==
    ASSUME NEW A, NEW r \in Seq(A), NEW s \in Seq(A), Distinct(s), NEW f, Places(f, r, s)
    PROVE  \A i, j \in 1..Len(r) :
              /\ Place(s, r[i]) \in 1..Len(s)
              /\ i < j <=> Place(s, r[i]) < Place(s, r[j])
<1>1. \A i \in 1..Len(r) : f[i] \in 1..Len(s) /\ Place(s, r[i]) = f[i]
  BY PlaceOfMember DEF Places
<1>2. ASSUME NEW i \in 1..Len(r), NEW j \in 1..Len(r) PROVE i < j <=> f[i] < f[j]
  <2>1. f[i] \in Nat /\ f[j] \in Nat
    BY <1>1
  <2>2. CASE i < j
    BY <2>2 DEF Places
  <2>3. CASE i = j
    BY <2>1, <2>3
  <2>4. CASE j < i
    <3>1. f[j] < f[i]
      BY <2>4 DEF Places
    <3> QED BY <2>1, <2>4, <3>1
  <2> QED BY <2>2, <2>3, <2>4
<1> QED BY <1>1, <1>2

(* The routing a ticket records, as failovers need it.                     *)
Routed(t) == /\ t.round \in Nat \ {0} /\ t.index \in Nat
             /\ t.order \in Seq(Items) /\ Distinct(t.order)

LEMMA RecordedOrder ==
    ASSUME NEW p \in Plans, NEW t, Routed(t)
    PROVE  LET q == InRecordedOrder(ItemsForRound(p, t.round), t.order)
           IN  /\ q \in Seq(Items) /\ Distinct(q)
               /\ ToSet(q) = Candidates(p) /\ Len(q) = Size(p)
               /\ \A a, b \in 1..Len(q) : a < b <=> Before(p, t, q[a], q[b])
<1> DEFINE s == ItemsForRound(p, t.round)
           C == Candidates(p)
           o == t.order
           O == ToSet(o)
           x == Filtered(o, C)
           y == Filtered(s, Items \ O)
           q == x \o y
<1>0. t.round - 1 \in Nat /\ t.round = (t.round - 1) + 1 /\ o \in Seq(Items) /\ Distinct(o)
  BY DEF Routed
<1>1. s \in Seq(Items) /\ Len(s) = Size(p) /\ Distinct(s) /\ ToSet(s) = C
  BY <1>0, RoundOfPlan
<1>2. InRecordedOrder(s, o) = q
  BY <1>1 DEF InRecordedOrder
<1> HIDE DEF s, C, o, x, y, O
<1>3. x \in Seq(Items \cap C) /\ ToSet(x) = O \cap C
  BY <1>0, FilteredMembers DEF x, O
<1>4. y \in Seq(Items \cap (Items \ O)) /\ ToSet(y) = C \cap (Items \ O)
  BY <1>1, FilteredMembers DEF y
<1>5. x \in Seq(Items) /\ y \in Seq(Items)
  BY <1>3, <1>4, SeqOfMore
<1>6. PICK f : Places(f, x, o)
  BY <1>0, FilteredPlaces DEF x
<1>7. PICK g : Places(g, y, s)
  BY <1>1, FilteredPlaces DEF y
<1>8. C \subseteq Items /\ Cardinality(C) = Size(p)
  BY CandidatesOfPlan DEF C
<1>9. ToSet(q) = C /\ q \in Seq(Items) /\ Len(q) = Len(x) + Len(y) /\ Len(x) \in Nat /\ Len(y) \in Nat
  <2>1. ToSet(q) = ToSet(x) \cup ToSet(y)
    BY <1>5, ToSetOfConcat
  <2>2. ToSet(q) = C
    BY <2>1, <1>3, <1>4, <1>8
  <2> QED BY <2>2, <1>5
<1>10. \A a \in 1..Len(x) : /\ q[a] = x[a] /\ x[a] \in O
                            /\ Place(o, q[a]) \in 1..Len(o)
  <2>1. \A a \in 1..Len(x) : Place(o, x[a]) \in 1..Len(o)
    BY <1>0, <1>5, <1>6, KeptPlaces
  <2>2. \A a \in 1..Len(x) : x[a] \in ToSet(x)
    BY <1>5 DEF ToSet
  <2>3. \A a \in 1..Len(x) : q[a] = x[a]
    BY <1>5
  <2> HIDE DEF q
  <2> QED BY <2>1, <2>2, <2>3, <1>3
<1>11. ASSUME NEW a \in 1..Len(q), a \notin 1..Len(x)
       PROVE  /\ a - Len(x) \in 1..Len(y) /\ q[a] = y[a - Len(x)] /\ q[a] \notin O
              /\ Place(o, q[a]) = Len(o) + 1
  <2>1. a - Len(x) \in 1..Len(y) /\ q[a] = y[a - Len(x)]
    BY <1>11, <1>5, <1>9
  <2>2. y[a - Len(x)] \in ToSet(y)
    BY <2>1, <1>5 DEF ToSet
  <2> HIDE DEF q
  <2> QED BY <2>1, <2>2, <1>4 DEF Place, O
<1>12. Len(o) \in Nat /\ Len(q) \in Nat
  BY <1>0, <1>9
<1> HIDE DEF q
<1>13. ASSUME NEW a \in 1..Len(q), NEW b \in 1..Len(q) PROVE a < b <=> Before(p, t, q[a], q[b])
  <2> DEFINE earlier == Place(o, q[a]) < Place(o, q[b])
             new == {q[a], q[b]} \cap O = {}
  <2>0. Before(p, t, q[a], q[b]) <=>
           earlier \/ (new /\ Place(s, q[a]) < Place(s, q[b]))
    BY DEF Before, o, s, O
  <2>1. CASE a \in 1..Len(x) /\ b \in 1..Len(x)
    <3>1. a < b <=> Place(o, x[a]) < Place(o, x[b])
      BY <2>1, <1>0, <1>5, <1>6, KeptPlaces
    <3>2. (a < b <=> earlier) /\ ~new
      BY <3>1, <2>1, <1>10
    <3> QED BY <3>2, <2>0
  <2>2. CASE a \in 1..Len(x) /\ b \notin 1..Len(x)
    <3>1. earlier
      BY <2>2, <1>10, <1>11, <1>12
    <3>2. a < b
      BY <2>2, <1>9
    <3> QED BY <3>1, <3>2, <2>0
  <2>3. CASE a \notin 1..Len(x) /\ b \in 1..Len(x)
    <3>1. ~earlier /\ ~new
      BY <2>3, <1>10, <1>11, <1>12
    <3>2. ~(a < b)
      BY <2>3, <1>9
    <3> QED BY <3>1, <3>2, <2>0
  <2>4. CASE a \notin 1..Len(x) /\ b \notin 1..Len(x)
    <3> DEFINE c == a - Len(x)
               d == b - Len(x)
    <3>1. /\ c \in 1..Len(y) /\ d \in 1..Len(y) /\ q[a] = y[c] /\ q[b] = y[d]
          /\ ~earlier /\ new
      <4>1. /\ c \in 1..Len(y) /\ q[a] = y[c] /\ q[a] \notin O
            /\ Place(o, q[a]) = Len(o) + 1
        BY <2>4, <1>11
      <4>2. /\ d \in 1..Len(y) /\ q[b] = y[d] /\ q[b] \notin O
            /\ Place(o, q[b]) = Len(o) + 1
        BY <2>4, <1>11
      <4>3. ~earlier
        BY <4>1, <4>2, <1>12
      <4> HIDE DEF c, d, earlier
      <4> QED BY <4>1, <4>2, <4>3
    <3>2. c < d <=> Place(s, y[c]) < Place(s, y[d])
      <4> HIDE DEF c, d
      <4> QED BY <3>1, <1>1, <1>5, <1>7, KeptPlaces
    <3>3. a < b <=> c < d
      BY <1>9
    <3> HIDE DEF c, d
    <3> QED BY <3>1, <3>2, <3>3, <2>0
  <2> QED BY <2>1, <2>2, <2>3, <2>4
<1>14. Distinct(q)
  <2>1. ASSUME NEW a \in 1..Len(q), NEW b \in 1..Len(q), q[a] = q[b] PROVE a = b
    <3>1. (a < b <=> Before(p, t, q[a], q[a])) /\ (b < a <=> Before(p, t, q[a], q[a]))
      BY <2>1, <1>13
    <3> QED BY <3>1, <1>12
  <2> QED BY <2>1 DEF Distinct
<1>15. Len(q) = Size(p)
  BY <1>8, <1>9, <1>14, DistinctCounts
<1> QED BY <1>2, <1>9, <1>13, <1>14, <1>15 DEF s, o, C

-----------------------------------------------------------------------------

(* An attempt whose ticket will be routed.                                 *)
WellRouted(e) == e \in Entry /\ e.round # 0 /\ Distinct(e.order)

(* v are the attempts at the items of s.                                   *)
AttemptsAt(v, s, round, offset, order) ==
    /\ v \in Seq(Entry) /\ Len(v) = Len(s)
    /\ \A e \in ToSet(v) : WellRouted(e) /\ e.round = round /\ e.order = order
    /\ \A n \in 1..Len(s) : /\ v[n].item = s[n] /\ v[n].index = offset + n - 1
                            /\ v[n].round = round

LEMMA NumberedEntries ==
    ASSUME NEW s \in Seq(Items), NEW round \in Nat \ {0}, NEW offset \in Nat,
           NEW order \in Seq(Items), Distinct(order)
    PROVE  AttemptsAt(Numbered(s, round, offset, order), s, round, offset, order)
<1> DEFINE v == Numbered(s, round, offset, order)
           entry(n) == [item |-> s[n], round |-> round, index |-> offset + n - 1, order |-> order]
<1>1. v = [n \in 1..Len(s) |-> entry(n)] /\ Len(s) \in Nat
  BY DEF Numbered
<1>2. \A n \in 1..Len(s) : s[n] \in Items /\ offset + n - 1 \in Nat
  OBVIOUS
<1>3. \A n \in 1..Len(s) : /\ entry(n) \in Entry /\ entry(n).item = s[n]
                           /\ entry(n).round = round /\ entry(n).order = order
                           /\ entry(n).index = offset + n - 1
  BY <1>2 DEF Entry
<1> HIDE DEF v, entry
<1>4. v \in Seq(Entry) /\ Len(v) = Len(s) /\ DOMAIN v = 1..Len(s)
  <2>1. v \in [1..Len(s) -> Entry]
    BY <1>1, <1>3
  <2> QED BY <2>1, <1>1
<1>5. \A n \in 1..Len(s) : v[n] = entry(n)
  BY <1>1
<1>6. \A e \in ToSet(v) : WellRouted(e) /\ e.round = round /\ e.order = order
  BY <1>3, <1>4, <1>5 DEF ToSet, WellRouted
<1> QED BY <1>3, <1>4, <1>5, <1>6 DEF v, AttemptsAt

(* What is left to a failover is made of the rest of the round and of the  *)
(* next round.                                                             *)
LEMMA OrderParts ==
    ASSUME NEW p \in Plans, NEW t, Routed(t)
    PROVE  LET q == InRecordedOrder(ItemsForRound(p, t.round), t.order)
               here == ThisRound(p, t)
               next == NextRound(p, t)
           IN  /\ OrderForTicket(p, t) = here \o next
               /\ here \in Seq(Entry) /\ next \in Seq(Entry) /\ Len(here) = Size(p)
               /\ \A e \in ToSet(here) : WellRouted(e) /\ e.round = t.round /\ e.order = t.order
               /\ \A n \in 1..Len(here) : here[n].item = q[n] /\ here[n].index = n - 1
               /\ \A e \in ToSet(next) : /\ WellRouted(e) /\ e.round = t.round + 1
                                         /\ e.index >= Size(p)
               /\ IF p.rounds \in 1..t.round THEN next = <<>>
                  ELSE Len(next) = Size(p) /\ {e.item : e \in ToSet(next)} = Candidates(p)
<1> DEFINE q == InRecordedOrder(ItemsForRound(p, t.round), t.order)
           s == ItemsForRound(p, t.round + 1)
           here == ThisRound(p, t)
           next == NextRound(p, t)
<1>0. t.round \in Nat \ {0} /\ t.order \in Seq(Items) /\ Distinct(t.order)
  BY DEF Routed
<1>1. OrderForTicket(p, t) = here \o next
  BY DEF OrderForTicket
<1>2. q \in Seq(Items) /\ Len(q) = Size(p) /\ Size(p) \in Nat
  BY RecordedOrder, CandidatesOfPlan
<1>3. here = Numbered(q, t.round, 0, t.order)
  BY DEF ThisRound
<1>4. /\ here \in Seq(Entry) /\ Len(here) = Size(p)
      /\ \A e \in ToSet(here) : WellRouted(e) /\ e.round = t.round /\ e.order = t.order
      /\ \A n \in 1..Len(here) : here[n].item = q[n] /\ here[n].index = n - 1
  <2> HIDE DEF here, q
  <2>1. 0 \in Nat
    OBVIOUS
  <2>2. \A n \in Nat : 0 + n - 1 = n - 1
    OBVIOUS
  <2>3. /\ here \in Seq(Entry) /\ Len(here) = Size(p)
        /\ \A e \in ToSet(here) : WellRouted(e) /\ e.round = t.round /\ e.order = t.order
        /\ \A n \in 1..Len(q) : here[n].item = q[n] /\ here[n].index = 0 + n - 1
    <3> HIDE DEF Routed
    <3>1. AttemptsAt(here, q, t.round, 0, t.order)
      BY <1>0, <1>2, <1>3, <2>1, NumberedEntries
    <3> QED BY <1>2, <3>1 DEF AttemptsAt
  <2> QED BY <1>2, <2>2, <2>3
<1>5. s \in Seq(Items) /\ Len(s) = Size(p) /\ Distinct(s) /\ ToSet(s) = Candidates(p)
  BY <1>0, RoundOfPlan
<1>6. p.rounds \in Nat
  BY PlansAssumption DEF Plan
<1>7. CASE p.rounds \in 1..t.round
  <2>1. ~CanContinue(p, t.round)
    BY <1>0, <1>6, <1>7 DEF CanContinue
  <2>2. next = <<>>
    BY <2>1 DEF NextRound
  <2>3. next \in Seq(Entry) /\ ToSet(next) = {}
    BY <2>2 DEF ToSet
  <2> HIDE DEF here, next, q
  <2> QED BY <1>1, <1>4, <1>7, <2>2, <2>3 DEF here, next, q
<1>8. CASE p.rounds \notin 1..t.round
  <2>1. CanContinue(p, t.round)
    BY <1>0, <1>6, <1>8 DEF CanContinue
  <2>2. next = Numbered(s, t.round + 1, Size(p), s)
    BY <2>1 DEF NextRound, AttemptsForRound, Size
  <2>3. t.round + 1 \in Nat \ {0}
    BY <1>0
  <2> HIDE DEF here, next, q, s
  <2>4. /\ next \in Seq(Entry) /\ Len(next) = Size(p)
        /\ \A e \in ToSet(next) : WellRouted(e) /\ e.round = t.round + 1
        /\ \A n \in 1..Size(p) : next[n].item = s[n] /\ next[n].index = Size(p) + n - 1
    <3>1. AttemptsAt(next, s, t.round + 1, Size(p), s)
      BY <1>2, <1>5, <2>2, <2>3, NumberedEntries
    <3> QED BY <1>5, <3>1 DEF AttemptsAt
  <2>5. DOMAIN next = 1..Size(p) /\ DOMAIN s = 1..Size(p)
    BY <1>5, <2>4
  <2>6. \A e \in ToSet(next) : e.index >= Size(p)
    BY <1>2, <2>4, <2>5 DEF ToSet
  <2>7. {e.item : e \in ToSet(next)} = Candidates(p)
    BY <1>5, <2>4, <2>5 DEF ToSet
  <2> QED BY <1>1, <1>4, <1>8, <2>4, <2>6, <2>7 DEF here, next, q
<1> QED BY <1>7, <1>8

(* So is what is left behind the failed item, whichever that is.           *)
LEMMA RemainingEntries ==
    ASSUME NEW p \in Plans, NEW t, Routed(t), NEW f
    PROVE  /\ Remaining(p, t, f) \in Seq(Entry)
           /\ \A e \in ToSet(Remaining(p, t, f)) : WellRouted(e)
<1> DEFINE here == ThisRound(p, t)
           next == NextRound(p, t)
           o == OrderForTicket(p, t)
           S == {e \in ToSet(o) : e.index > FailedIndex(p, t, f)}
<1>1. /\ o = here \o next /\ here \in Seq(Entry) /\ next \in Seq(Entry)
      /\ \A e \in ToSet(here) : WellRouted(e)
      /\ \A e \in ToSet(next) : WellRouted(e)
  BY OrderParts
<1>2. Remaining(p, t, f) = Filtered(o, S)
  BY DEF Remaining
<1> HIDE DEF o, S, here, next
<1>3. o \in Seq(Entry) /\ ToSet(o) = ToSet(here) \cup ToSet(next)
  <2>1. ToSet(here \o next) = ToSet(here) \cup ToSet(next)
    BY <1>1, ToSetOfConcat
  <2> QED BY <1>1, <2>1
<1>4. Filtered(o, S) \in Seq(Entry \cap S) /\ ToSet(Filtered(o, S)) = ToSet(o) \cap S
  BY <1>3, FilteredMembers
<1>5. Filtered(o, S) \in Seq(Entry)
  BY <1>4, SeqOfMore
<1> QED BY <1>1, <1>2, <1>3, <1>4, <1>5

-----------------------------------------------------------------------------

(* The parts of FailoverKeepsToTheOrder.                                   *)
Here(seen, t) == Filtered(seen, {e \in ToSet(seen) : e.round = t.round})
Later(seen, t) == Filtered(seen, {e \in ToSet(seen) : e.round # t.round})

KeepsToTheOrder(p, t, f, seen) ==
    /\ seen = Here(seen, t) \o Later(seen, t)
    /\ {e.item : e \in ToSet(Here(seen, t))} = {i \in Candidates(p) : Before(p, t, f, i)}
    /\ \A k, l \in DOMAIN Here(seen, t) :
          k < l => Before(p, t, Here(seen, t)[k].item, Here(seen, t)[l].item)
    /\ \A e \in ToSet(Here(seen, t)) : e.order = t.order
    /\ {e.round : e \in ToSet(Later(seen, t))} \subseteq {t.round + 1}
    /\ IF p.rounds \in 1..t.round
       THEN Later(seen, t) = <<>>
       ELSE /\ {e.item : e \in ToSet(Later(seen, t))} = Candidates(p)
            /\ Len(Later(seen, t)) = Cardinality(Candidates(p))

(* What is filtered from two parts, when one part is kept and the other is *)
(* not.                                                                    *)
LEMMA PartsByRound ==
    ASSUME NEW h \in Seq(Entry), NEW x \in Seq(Entry), NEW t,
           \A e \in ToSet(h) : e.round = t.round, \A e \in ToSet(x) : e.round # t.round
    PROVE  Here(h \o x, t) = h /\ Later(h \o x, t) = x
<1> DEFINE s == h \o x
           S == {e \in ToSet(s) : e.round = t.round}
           L == {e \in ToSet(s) : e.round # t.round}
<1>1. ToSet(s) = ToSet(h) \cup ToSet(x)
  BY ToSetOfConcat
<1>2. ToSet(h) \subseteq S /\ ToSet(x) \cap S = {} /\ ToSet(h) \cap L = {} /\ ToSet(x) \subseteq L
  BY <1>1
<1>3. Here(s, t) = Filtered(s, S) /\ Later(s, t) = Filtered(s, L)
  BY DEF Here, Later
<1> HIDE DEF S, L
<1>4. Filtered(s, S) = Filtered(h, S) \o Filtered(x, S)
  BY FilteredConcat
<1>5. Filtered(s, L) = Filtered(h, L) \o Filtered(x, L)
  BY FilteredConcat
<1>6. Filtered(h, S) = h /\ Filtered(x, L) = x
  BY <1>2, FilteredAll
<1>7. Filtered(x, S) = <<>> /\ Filtered(h, L) = <<>>
  BY <1>2, FilteredNone
<1>8. h \o <<>> = h /\ <<>> \o x = x
  OBVIOUS
<1> QED BY <1>3, <1>4, <1>5, <1>6, <1>7, <1>8

(* What is left to a failover keeps to the order of the ticket.            *)
LEMMA RemainingKeepsToTheOrder ==
    ASSUME NEW p \in Plans, NEW t, Routed(t), NEW f \in Candidates(p)
    PROVE  KeepsToTheOrder(p, t, f, Remaining(p, t, f))
<1> DEFINE q == InRecordedOrder(ItemsForRound(p, t.round), t.order)
           this == ThisRound(p, t)
           next == NextRound(p, t)
           o == OrderForTicket(p, t)
           n == Size(p)
<1>0. t.round \in Nat
  BY DEF Routed
<1>1. /\ q \in Seq(Items) /\ Distinct(q) /\ ToSet(q) = Candidates(p) /\ Len(q) = n
      /\ \A a, b \in 1..Len(q) : a < b <=> Before(p, t, q[a], q[b])
  BY RecordedOrder
<1>2. /\ o = this \o next
      /\ this \in Seq(Entry) /\ next \in Seq(Entry) /\ Len(this) = n
      /\ \A e \in ToSet(this) : WellRouted(e) /\ e.round = t.round /\ e.order = t.order
      /\ \A k \in 1..Len(this) : this[k].item = q[k] /\ this[k].index = k - 1
      /\ \A e \in ToSet(next) : WellRouted(e) /\ e.round = t.round + 1 /\ e.index >= n
      /\ IF p.rounds \in 1..t.round THEN next = <<>>
         ELSE Len(next) = n /\ {e.item : e \in ToSet(next)} = Candidates(p)
  BY OrderParts
<1>3. n \in Nat /\ n = Cardinality(Candidates(p))
  BY CandidatesOfPlan
<1> HIDE DEF q, this, next, o, n
<1>a. this \in Seq(Entry) /\ next \in Seq(Entry) /\ Len(this) = n /\ o = this \o next
  BY <1>2
<1>b. Len(o) = n + Len(next) /\ Len(next) \in Nat
  <2>1. this \in Seq(Entry) /\ next \in Seq(Entry)
    BY <1>a
  <2>2. Len(this \o next) = Len(this) + Len(next) /\ Len(next) \in Nat
    BY <2>1
  <2> QED BY <1>a, <2>2
<1>4. PICK m \in 1..n : q[m] = f
  BY <1>1 DEF ToSet
<1>5. FailedIndex(p, t, f) = m - 1
  <2> DEFINE at == {k \in 1..Len(o) : o[k].item = f /\ o[k].round = t.round}
  <2>1. Len(o) = n + Len(next) /\ Len(next) \in Nat
    BY <1>b
  <2>2. \A k \in 1..n : o[k] = this[k] /\ this[k] \in ToSet(this)
    <3>1. \A k \in 1..n : o[k] = this[k]
      BY <1>a, <1>3
    <3>2. DOMAIN this = 1..n
      BY <1>a
    <3>3. \A k \in DOMAIN this : this[k] \in ToSet(this)
      BY DEF ToSet
    <3> QED BY <3>1, <3>2, <3>3
  <2>3. \A k \in 1..Len(o) : k \notin 1..n => o[k].round = t.round + 1
    <3> TAKE k \in 1..Len(o)
    <3> HAVE k \notin 1..n
    <3>1. k - n \in 1..Len(next) /\ o[k] = next[k - n]
      BY <2>1, <1>a, <1>3
    <3>2. next[k - n] \in ToSet(next)
      BY <3>1, <1>2 DEF ToSet
    <3> QED BY <3>1, <3>2, <1>2
  <2>4. m \in at
    BY <1>2, <1>4, <2>1, <2>2
  <2>5. ASSUME NEW k \in at PROVE k = m
    <3>1. k \in 1..n
      BY <2>3, <1>0
    <3>2. q[k] = f
      BY <3>1, <2>2, <1>2
    <3> QED BY <3>1, <3>2, <1>1, <1>4 DEF Distinct
  <2>6. at = {m}
    BY <2>4, <2>5
  <2>7. Min({m}) = m
    BY <1>4 DEF Min
  <2>8. FailedIndex(p, t, f) = IF at = {} THEN t.index ELSE Min(at) - 1
    BY DEF FailedIndex, o
  <2> HIDE DEF at
  <2> QED BY <2>6, <2>7, <2>8
<1> DEFINE S == {e \in ToSet(o) : e.index > m - 1}
           h == Filtered(this, S)
           seen == Remaining(p, t, f)
<1>6. ToSet(o) = ToSet(this) \cup ToSet(next)
  BY <1>2, ToSetOfConcat
<1>7. seen = Filtered(o, S)
  BY <1>5 DEF Remaining, o
<1>8. ToSet(next) \subseteq S
  <2>1. \A e \in ToSet(next) : e.index \in Nat
    BY <1>2 DEF WellRouted, Entry
  <2> QED BY <2>1, <1>2, <1>3, <1>4, <1>6
<1> HIDE DEF seen
<1>9. ToSet(this) \cap S = {e \in ToSet(this) : e.index > m - 1}
  BY <1>6
<1> HIDE DEF S
<1>10. seen = h \o next
  <2>1. Filtered(this \o next, S) = Filtered(this, S) \o Filtered(next, S)
    BY <1>2, FilteredConcat
  <2>2. Filtered(next, S) = next
    BY <1>2, <1>8, FilteredAll
  <2> QED BY <2>1, <2>2, <1>2, <1>7
<1>11. h \in Seq(Entry \cap S) /\ ToSet(h) = ToSet(this) \cap S
  BY <1>2, FilteredMembers
<1>12. h \in Seq(Entry)
  BY <1>11, SeqOfMore
<1>13. PICK g : Places(g, h, this)
  BY <1>2, FilteredPlaces
<1> HIDE DEF h
<1>14. Here(seen, t) = h /\ Later(seen, t) = next
  <2>1. \A e \in ToSet(h) : e.round = t.round
    BY <1>2, <1>11
  <2>2. \A e \in ToSet(next) : e.round # t.round
    BY <1>0, <1>2
  <2> QED BY <2>1, <2>2, <1>2, <1>10, <1>12, PartsByRound
<1>15. {e.item : e \in ToSet(h)} = {i \in Candidates(p) : Before(p, t, f, i)}
  <2>1. \A k \in 1..n : this[k].index > m - 1 <=> m < k
    BY <1>2, <1>3, <1>4
  <2>2. \A k \in 1..n : m < k <=> Before(p, t, f, q[k])
    BY <1>1, <1>4
  <2>3. DOMAIN this = 1..n
    BY <1>2, <1>3
  <2>4. ToSet(h) = {this[k] : k \in {k \in 1..n : Before(p, t, f, q[k])}}
    BY <2>1, <2>2, <2>3, <1>9, <1>11 DEF ToSet
  <2>5. {e.item : e \in ToSet(h)} = {q[k] : k \in {k \in 1..n : Before(p, t, f, q[k])}}
    <3>1. \A k \in 1..n : this[k].item = q[k]
      BY <1>2
    <3> QED BY <2>4, <3>1
  <2>6. Candidates(p) = {q[k] : k \in 1..n}
    BY <1>1 DEF ToSet
  <2> QED BY <2>5, <2>6
<1>16. \A k, l \in DOMAIN h : k < l => Before(p, t, h[k].item, h[l].item)
  <2> TAKE k, l \in DOMAIN h
  <2> HAVE k < l
  <2>1. DOMAIN h = 1..Len(h)
    BY <1>12
  <2>2. /\ g[k] \in 1..n /\ g[l] \in 1..n /\ g[k] < g[l]
        /\ h[k] = this[g[k]] /\ h[l] = this[g[l]]
    BY <2>1, <1>13, <1>2 DEF Places
  <2>3. h[k].item = q[g[k]] /\ h[l].item = q[g[l]]
    BY <2>2, <1>2
  <2> QED BY <2>2, <2>3, <1>1
<1>17. \A e \in ToSet(h) : e.order = t.order
  BY <1>2, <1>11
<1>18. {e.round : e \in ToSet(next)} \subseteq {t.round + 1}
  BY <1>2
<1> QED BY <1>2, <1>3, <1>10, <1>14, <1>15, <1>16, <1>17, <1>18 DEF KeepsToTheOrder, seen

-----------------------------------------------------------------------------

(* A request has the fields of Walk, whatever they hold.                   *)
Fields == {"pc", "kind", "plan", "from", "failed", "round", "offset", "left", "tried",
           "asking", "candidate", "result"}
IsWalk(w) == w = [f \in Fields |-> w[f]]

Shapes ==
    /\ \E S : tickets \in Seq(S)
    /\ walk = [r \in Requests |-> walk[r]]
    /\ \A r \in Requests : IsWalk(walk[r])

CandidatesExist ==
    \A r \in Requests : walk[r].pc = "retry" => walk[r].candidate \in TicketIds

IInv == Shapes /\ CandidatesExist /\ ReplaceReleasesAnother

(* What the invariant says of one request, when ids are the tickets.       *)
Sound(w, ids) ==
    /\ IsWalk(w)
    /\ w.pc = "retry" => w.candidate \in ids
    /\ w.pc = "release" => w.result \in ids \ {w.from}

LEMMA IInvIsSound ==
    IInv <=> /\ \E S : tickets \in Seq(S)
             /\ walk = [r \in Requests |-> walk[r]]
             /\ \A r \in Requests : Sound(walk[r], TicketIds)
  BY DEF IInv, Shapes, CandidatesExist, ReplaceReleasesAnother, Sound

LEMMA StartedIsSound ==
    ASSUME NEW kind, NEW p, NEW from, NEW failed, NEW left, NEW ids
    PROVE  /\ Sound(Started(kind, p, from, failed, left), ids)
           /\ Started(kind, p, from, failed, left).pc = "walking"
  BY DEF Sound, IsWalk, Fields, Started

LEMMA AnsweredIsSound ==
    ASSUME NEW kind, NEW from, NEW id, NEW ids
    PROVE  Sound(Answered(kind, from, id), ids)
  BY DEF Sound, IsWalk, Fields, Answered, Started

(* What a request is after it got a ticket: answered, or about to release  *)
(* another one.                                                            *)
LEMMA GotIsSound ==
    ASSUME NEW w, NEW ids, NEW id \in ids PROVE Sound(Got(w, id), ids)
<1>1. CASE w.kind = "replace" /\ id # w.from
  BY <1>1 DEF Got, Sound, IsWalk, Fields, Started
<1>2. CASE ~(w.kind = "replace" /\ id # w.from)
  BY <1>2, AnsweredIsSound DEF Got
<1> QED BY <1>1, <1>2

(* Where a failed attempt, or a failed provider, leads to.                 *)
LEMMA SkippedIsSound ==
    ASSUME NEW w, IsWalk(w), NEW ids PROVE Sound(Skipped(w), ids)
  BY DEF Skipped, Sound, IsWalk, Fields

LEMMA NextProviderIsSound ==
    ASSUME NEW w, IsWalk(w), NEW ids PROVE Sound(NextProvider(w), ids)
<1>1. CASE Len(w.asking) > 1
  BY <1>1 DEF NextProvider, Sound, IsWalk, Fields
<1>2. CASE ~(Len(w.asking) > 1)
  BY <1>2, SkippedIsSound DEF NextProvider
<1> QED BY <1>1, <1>2

LEMMA AskIsSound ==
    ASSUME NEW w, IsWalk(w), NEW ids PROVE Sound(Ask(w), ids)
<1>1. CASE Head(w.asking) \in disabled
  BY <1>1, NextProviderIsSound DEF Ask
<1>2. CASE Head(w.asking) \notin disabled
  BY <1>2 DEF Ask, Sound, IsWalk, Fields
<1> QED BY <1>1, <1>2

(* More tickets do no harm to a request.                                   *)
LEMMA MoreTickets ==
    ASSUME NEW w, NEW ids, NEW more, ids \subseteq more, Sound(w, ids) PROVE Sound(w, more)
  BY DEF Sound

(* A step that leaves every ticket in place and moves one request to a     *)
(* sound state keeps the invariant.                                        *)
LEMMA OneRequestMoves ==
    ASSUME IInv, NEW r \in Requests, NEW w,
           walk' = [walk EXCEPT ![r] = w], Sound(w, TicketIds'),
           \E S : tickets' \in Seq(S), TicketIds \subseteq TicketIds'
    PROVE  IInv'
<1>1. walk = [q \in Requests |-> walk[q]]
  BY IInvIsSound
<1>2. walk' = [q \in Requests |-> walk'[q]]
  BY <1>1
<1>3. ASSUME NEW q \in Requests PROVE Sound(walk'[q], TicketIds')
  <2>1. CASE q = r
    BY <2>1, <1>1
  <2>2. CASE q # r
    <3>1. walk'[q] = walk[q]
      BY <2>2, <1>1
    <3>2. Sound(walk[q], TicketIds)
      BY IInvIsSound
    <3> QED BY <3>1, <3>2, MoreTickets
  <2> QED BY <2>1, <2>2
<1> QED BY <1>2, <1>3 DEF IInv, Shapes, CandidatesExist, ReplaceReleasesAnother, Sound

-----------------------------------------------------------------------------
LEMMA InitIInv == Init => IInv
<1> SUFFICES ASSUME Init PROVE IInv
  OBVIOUS
<1>1. tickets \in Seq({})
  BY DEF Init
<1>2. \A r \in Requests : Sound(walk[r], TicketIds)
  BY AnsweredIsSound DEF Init
<1>3. walk = [r \in Requests |-> walk[r]]
  BY DEF Init
<1> QED BY <1>1, <1>2, <1>3, IInvIsSound

(* A ticket that changes stays a ticket.                                   *)
LEMMA TicketChanges ==
    ASSUME \E S : tickets \in Seq(S), NEW t, NEW ticket,
           tickets' = [tickets EXCEPT ![t] = ticket]
    PROVE  (\E S : tickets' \in Seq(S)) /\ TicketIds' = TicketIds
<1>1. PICK S : tickets \in Seq(S)
  OBVIOUS
<1>2. tickets \in Seq(S \cup {ticket})
  BY <1>1
<1>3. CASE t \in TicketIds
  <2>1. tickets' \in Seq(S \cup {ticket}) /\ DOMAIN tickets' = DOMAIN tickets
    BY <1>2, <1>3 DEF TicketIds
  <2> QED BY <2>1 DEF TicketIds
<1>4. CASE t \notin TicketIds
  <2>1. tickets' = tickets
    BY <1>2, <1>4 DEF TicketIds
  <2> QED BY <2>1 DEF TicketIds
<1> QED BY <1>3, <1>4

LEMMA TicketJoins ==
    ASSUME \E S : tickets \in Seq(S), NEW ticket, tickets' = Append(tickets, ticket)
    PROVE  /\ \E S : tickets' \in Seq(S)
           /\ TicketIds \subseteq TicketIds'
           /\ Len(tickets) + 1 \in TicketIds'
<1>1. PICK S : tickets \in Seq(S)
  OBVIOUS
<1>2. tickets \in Seq(S \cup {ticket})
  BY <1>1
<1>3. tickets' \in Seq(S \cup {ticket}) /\ Len(tickets') = Len(tickets) + 1 /\ Len(tickets) \in Nat
  BY <1>2
<1>4. TicketIds = 1..Len(tickets) /\ TicketIds' = 1..Len(tickets')
  BY <1>2, <1>3 DEF TicketIds
<1> QED BY <1>3, <1>4

-----------------------------------------------------------------------------
(* Every step of a request preserves the invariant.                        *)
LEMMA BeginIInv ==
    ASSUME IInv, NEW r \in Requests, Begin(r) PROVE IInv'
<1>1. PICK kind, p, from, failed, left :
        /\ walk' = [walk EXCEPT ![r] = Started(kind, p, from, failed, left)]
        /\ tickets' = tickets
  <2>1. CASE BeginAcquire(r)
    BY <2>1 DEF BeginAcquire
  <2>2. CASE \E item \in Items : BeginDirect(r, item)
    <3>1. PICK item \in Items : BeginDirect(r, item)
      BY <2>2
    <3> DEFINE only == [item |-> item, round |-> 0, index |-> 0, order |-> <<>>]
    <3>2. /\ walk' = [walk EXCEPT ![r] = Started("direct", NoPlan, None, None, <<only>>)]
          /\ tickets' = tickets
      BY <3>1 DEF BeginDirect
    <3> HIDE DEF only
    <3> QED BY <3>2
  <2>3. CASE \E kind \in {"failover", "replace"}, t \in TicketIds, failed \in Items :
               BeginFailover(r, kind, t, failed)
    BY <2>3 DEF BeginFailover
  <2> QED BY <2>1, <2>2, <2>3 DEF Begin
<1> QED BY <1>1, StartedIsSound, OneRequestMoves DEF TicketIds, IInv, Shapes

LEMMA StepIInv ==
    ASSUME IInv, NEW r \in Requests, Step(r) PROVE IInv'
<1> DEFINE w == walk[r]
<1>0. /\ Sound(w, TicketIds) /\ IsWalk(w)
      /\ walk = [q \in Requests |-> walk[q]]
      /\ \E S : tickets \in Seq(S)
  BY IInvIsSound DEF Sound
<1>a. ASSUME NEW v, walk' = [walk EXCEPT ![r] = v], Sound(v, TicketIds), tickets' = tickets
      PROVE  IInv'
  BY <1>a, <1>0, OneRequestMoves DEF TicketIds
<1>1. CASE Attempt(r)
  <2>1. CASE ProvidersFor(Head(w.left).item) = <<>>
    BY <1>1, <2>1, <1>0, <1>a, SkippedIsSound DEF Attempt
  <2>2. CASE ProvidersFor(Head(w.left).item) # <<>>
    <3> DEFINE v == [w EXCEPT !.pc = "item", !.asking = ProvidersFor(Head(w.left).item)]
    <3>1. Sound(v, TicketIds)
      BY <1>0 DEF Sound, IsWalk, Fields
    <3>2. walk' = [walk EXCEPT ![r] = v] /\ tickets' = tickets
      BY <1>1, <2>2 DEF Attempt
    <3> QED BY <3>1, <3>2, <1>a
  <2> QED BY <2>1, <2>2
<1>2. CASE AskRetry(r)
  <2>1. PICK t \in Retryable(Head(w.asking), CountryOf[Head(w.left).item]) :
          walk' = [walk EXCEPT ![r].pc = "retry", ![r].candidate = t]
    BY <1>2 DEF AskRetry
  <2> DEFINE v == [w EXCEPT !.pc = "retry", !.candidate = t]
  <2>2. t \in TicketIds
    BY <2>1 DEF Retryable
  <2>3. Sound(v, TicketIds)
    BY <2>2, <1>0 DEF Sound, IsWalk, Fields
  <2>4. walk' = [walk EXCEPT ![r] = v]
    BY <2>1, <1>0
  <2> QED BY <2>3, <2>4, <1>2, <1>a DEF AskRetry
<1>3. CASE AskAcquire(r)
  BY <1>3, <1>0, <1>a, AskIsSound DEF AskAcquire
<1>4. CASE RetryTaken(r)
  <2>1. w.candidate \in TicketIds
    BY <1>4, <1>0 DEF RetryTaken, Sound
  <2>2. PICK ticket : tickets' = [tickets EXCEPT ![w.candidate] = ticket]
    BY <1>4, <1>0, <2>1 DEF RetryTaken
  <2>3. (\E S : tickets' \in Seq(S)) /\ TicketIds' = TicketIds
    BY <1>0, <2>1, <2>2, TicketChanges
  <2>4. Sound(Got(w, w.candidate), TicketIds')
    BY <2>1, <2>3, GotIsSound
  <2> QED BY <1>4, <2>3, <2>4, OneRequestMoves DEF RetryTaken
<1>5. CASE RetryRefused(r)
  <2>1. w.candidate \in TicketIds
    BY <1>5, <1>0 DEF RetryRefused, Sound
  <2>2. PICK ticket : tickets' = [tickets EXCEPT ![w.candidate] = ticket]
    BY <1>5, <1>0, <2>1 DEF RetryRefused
  <2>3. (\E S : tickets' \in Seq(S)) /\ TicketIds' = TicketIds
    BY <1>0, <2>1, <2>2, TicketChanges
  <2> DEFINE v == [w EXCEPT !.candidate = None]
  <2>4. IsWalk(v)
    BY <1>0 DEF IsWalk, Fields
  <2>5. Sound(Ask(v), TicketIds')
    BY <2>4, AskIsSound
  <2> QED BY <1>5, <2>3, <2>5, OneRequestMoves DEF RetryRefused
<1>6. CASE Acquired(r)
  <2>1. PICK ticket : tickets' = Append(tickets, ticket)
    BY <1>6 DEF Acquired
  <2>2. /\ \E S : tickets' \in Seq(S)
        /\ TicketIds \subseteq TicketIds'
        /\ Len(tickets) + 1 \in TicketIds'
    BY <1>0, <2>1, TicketJoins
  <2>3. Sound(Got(w, Len(tickets) + 1), TicketIds')
    BY <2>2, GotIsSound
  <2> QED BY <1>6, <2>2, <2>3, OneRequestMoves DEF Acquired
<1>7. CASE NotAcquired(r)
  BY <1>7, <1>0, <1>a, NextProviderIsSound DEF NotAcquired
<1>8. CASE BeginRound(r)
  <2> DEFINE offset == w.offset + Len(EnabledItems(w.plan))
             v == [w EXCEPT !.round = w.round + 1, !.offset = offset,
                            !.left = AttemptsForRound(w.plan, w.round + 1, offset)]
  <2>1. walk' = [walk EXCEPT ![r] = v] /\ tickets' = tickets
    BY <1>8, <1>0 DEF BeginRound
  <2>2. Sound(v, TicketIds)
    BY <1>8, <1>0 DEF BeginRound, Sound, IsWalk, Fields
  <2> QED BY <2>1, <2>2, <1>a
<1>9. CASE GiveUp(r)
  <2> DEFINE v == [w EXCEPT !.pc = "failed"]
  <2>1. walk' = [walk EXCEPT ![r] = v] /\ tickets' = tickets
    BY <1>9, <1>0 DEF GiveUp
  <2>2. Sound(v, TicketIds)
    BY <1>0 DEF Sound, IsWalk, Fields
  <2> QED BY <2>1, <2>2, <1>a
<1>10. CASE ReleaseAnswered(r)
  <2>1. PICK ticket : tickets' = [tickets EXCEPT ![w.from] = ticket]
    BY <1>10 DEF ReleaseAnswered
  <2>2. (\E S : tickets' \in Seq(S)) /\ TicketIds' = TicketIds
    BY <1>0, <2>1, TicketChanges
  <2>3. Sound(Answered("replace", w.from, w.result), TicketIds')
    BY AnsweredIsSound
  <2> QED BY <1>10, <2>2, <2>3, OneRequestMoves DEF ReleaseAnswered
<1>11. CASE ReleaseRefused(r)
  BY <1>11, <1>a, AnsweredIsSound DEF ReleaseRefused
<1> QED BY <1>1, <1>2, <1>3, <1>4, <1>5, <1>6, <1>7, <1>8, <1>9, <1>10, <1>11 DEF Step

-----------------------------------------------------------------------------
(* The rest of the system does not touch the requests.                     *)
LEMMA OthersIInv ==
    ASSUME IInv, \/ \E t \in TicketIds : Close(t) \/ RetryExpires(t)
                 \/ Edit
                 \/ UNCHANGED vars
    PROVE  IInv'
<1>1. walk' = walk
  BY DEF Close, RetryExpires, Edit, vars
<1>2. (\E S : tickets' \in Seq(S)) /\ TicketIds' = TicketIds
  <2>1. CASE tickets' = tickets
    BY <2>1 DEF IInv, Shapes, TicketIds
  <2>2. CASE \E t \in TicketIds : Close(t) \/ RetryExpires(t)
    <3>1. PICK t, ticket : tickets' = [tickets EXCEPT ![t] = ticket]
      BY <2>2 DEF Close, RetryExpires
    <3> QED BY <3>1, TicketChanges DEF IInv, Shapes
  <2> QED BY <2>1, <2>2 DEF Edit, vars
<1> QED BY <1>1, <1>2 DEF IInv, Shapes, CandidatesExist, ReplaceReleasesAnother

(* However plans are edited, providers disabled and tickets retried or     *)
(* closed meanwhile, a replace that releases its ticket holds another one  *)
(* (replace_routing_attempt).                                              *)
THEOREM ReplaceHoldsAnother == Spec => []ReplaceReleasesAnother
<1>1. Init => IInv
  BY InitIInv
<1>2. IInv /\ [Next]_vars => IInv'
  BY BeginIInv, StepIInv, OthersIInv DEF Next
<1>3. IInv => ReplaceReleasesAnother
  BY DEF IInv
<1> QED BY <1>1, <1>2, <1>3, PTL DEF Spec

-----------------------------------------------------------------------------

(* What an acquire has seen: the rounds of its plan so far.                *)
AsPlanned(w) ==
    LET n == Size(w.plan)
    IN  /\ w.round \in Nat \ {0}
        /\ w.plan.rounds # 0 => w.round <= w.plan.rounds
        /\ w.offset = n * (w.round - 1)
        /\ Len(Seen(w)) = n * w.round
        /\ \A k \in 1..Len(Seen(w)) :
              /\ Seen(w)[k].item = KthItem(w.plan, k)
              /\ Seen(w)[k].index = k - 1
              /\ Seen(w)[k].round = (k - 1) \div n + 1
        /\ w.pc = "failed" => w.left = <<>> /\ w.round = w.plan.rounds

(* What a failover has seen: what was left when it began.                  *)
AsRecorded(w, ts) ==
    /\ w.from \in DOMAIN ts
    /\ ts[w.from].item # None
    /\ Seen(w) = Remaining(w.plan, ts[w.from], w.failed)

(* The invariant of one request; the attempts to come make routed tickets. *)
Walks(w, ts) ==
    /\ w.tried \in Seq(Entry) /\ w.left \in Seq(Entry)
    /\ w.pc \in {"item", "retry", "acquire"} => w.left # <<>>
    /\ w.kind # "direct" => \A e \in ToSet(w.left) : WellRouted(e)
    /\ w.kind = "direct" => w.plan = NoPlan
    /\ w.kind # "direct" /\ w.plan = NoPlan => w.pc \in {"resting", "release"} /\ w.left = <<>>
    /\ w.plan # NoPlan => /\ w.plan \in Plans
                          /\ w.kind = "acquire" => AsPlanned(w)
                          /\ w.kind # "acquire" => AsRecorded(w, ts)

(* A ticket has the fields of Ticket; with a plan, it is routed.           *)
TicketFields == {"item", "round", "index", "order", "provider", "country", "retry",
                 "reuses", "status"}
IsTicket(t) == t = [f \in TicketFields |-> t[f]]

TicketsRouted(ts) ==
    \A t \in DOMAIN ts : IsTicket(ts[t]) /\ (ts[t].item # None => Routed(ts[t]))

(* The inductive invariant of the walks.                                   *)
RInv ==
    /\ IInv
    /\ plan \in Plans \cup {NoPlan}
    /\ TicketsRouted(tickets)
    /\ \A r \in Requests : Walks(walk[r], tickets)

(* A ticket changes, but for its routing; tickets are only added.          *)
SameRouting(t, u) ==
    u.item = t.item /\ u.round = t.round /\ u.index = t.index /\ u.order = t.order

KeepsRouting(ts, us) ==
    DOMAIN ts \subseteq DOMAIN us /\ \A t \in DOMAIN ts : SameRouting(ts[t], us[t])

LEMMA SameRemaining ==
    ASSUME NEW p, NEW t, NEW u, NEW f, SameRouting(t, u)
    PROVE  Remaining(p, t, f) = Remaining(p, u, f)
<1>1. OrderForTicket(p, t) = OrderForTicket(p, u)
  BY DEF OrderForTicket, ThisRound, NextRound, SameRouting
<1>2. FailedIndex(p, t, f) = FailedIndex(p, u, f)
  BY <1>1 DEF FailedIndex, SameRouting
<1> QED BY <1>1, <1>2 DEF Remaining

LEMMA RoutingKept ==
    ASSUME NEW w, NEW ts, NEW us, KeepsRouting(ts, us), Walks(w, ts) PROVE Walks(w, us)
<1>1. ASSUME AsRecorded(w, ts) PROVE AsRecorded(w, us)
  <2>1. w.from \in DOMAIN us /\ SameRouting(ts[w.from], us[w.from])
    BY <1>1 DEF AsRecorded, KeepsRouting
  <2>2. Remaining(w.plan, us[w.from], w.failed) = Remaining(w.plan, ts[w.from], w.failed)
    BY <2>1, SameRemaining
  <2> QED BY <1>1, <2>1, <2>2 DEF AsRecorded, SameRouting
<1> QED BY <1>1 DEF Walks

(* A request moves on to v without another attempt coming into sight.      *)
MovesOn(w, v) ==
    /\ w.left # <<>>
    /\ v.kind = w.kind /\ v.plan = w.plan /\ v.from = w.from /\ v.failed = w.failed
    /\ v.round = w.round /\ v.offset = w.offset /\ v.pc # "failed"
    /\ v.tried \in Seq(Entry) /\ v.left \in Seq(Entry)
    /\ Seen(v) = Seen(w)
    /\ ToSet(v.left) \subseteq ToSet(w.left)
    /\ v.pc \in {"item", "retry", "acquire"} => v.left # <<>>

LEMMA MovingOnWalks ==
    ASSUME NEW w, NEW v, NEW ts, Walks(w, ts), MovesOn(w, v) PROVE Walks(v, ts)
<1>1. AsPlanned(w) => AsPlanned(v)
  BY DEF MovesOn, AsPlanned
<1>2. AsRecorded(w, ts) => AsRecorded(v, ts)
  BY DEF MovesOn, AsRecorded
<1> QED BY <1>1, <1>2 DEF Walks, MovesOn

LEMMA SkippedMovesOn ==
    ASSUME NEW w, IsWalk(w), NEW ts, Walks(w, ts), w.left # <<>> PROVE MovesOn(w, Skipped(w))
<1> DEFINE v == Skipped(w)
<1>1. /\ v.kind = w.kind /\ v.plan = w.plan /\ v.from = w.from /\ v.failed = w.failed
      /\ v.round = w.round /\ v.offset = w.offset /\ v.pc = "walking"
      /\ v.tried = Append(w.tried, Head(w.left)) /\ v.left = Tail(w.left)
  BY DEF Skipped, IsWalk, Fields
<1>2. w.tried \in Seq(Entry) /\ w.left \in Seq(Entry)
  BY DEF Walks
<1> HIDE DEF v
<1>3. v.tried \in Seq(Entry) /\ v.left \in Seq(Entry)
  BY <1>1, <1>2
<1>4. Append(w.tried, Head(w.left)) \o Tail(w.left) = w.tried \o w.left
  BY <1>2, HeadMovesOver
<1>5. ToSet(Tail(w.left)) \subseteq ToSet(w.left)
  BY <1>2 DEF ToSet
<1> QED BY <1>1, <1>3, <1>4, <1>5 DEF MovesOn, Seen, v

(* Only what the provider is asked changes.                                *)
Asking(w, pc, asking, candidate) ==
    [w EXCEPT !.pc = pc, !.asking = asking, !.candidate = candidate]

LEMMA AskingMovesOn ==
    ASSUME NEW w, IsWalk(w), NEW ts, Walks(w, ts), w.left # <<>>,
           NEW pc \in {"item", "retry", "acquire"}, NEW asking, NEW candidate
    PROVE  MovesOn(w, Asking(w, pc, asking, candidate))
<1> DEFINE v == Asking(w, pc, asking, candidate)
<1>1. /\ v.kind = w.kind /\ v.plan = w.plan /\ v.from = w.from /\ v.failed = w.failed
      /\ v.round = w.round /\ v.offset = w.offset /\ v.pc = pc
      /\ v.tried = w.tried /\ v.left = w.left
  BY DEF IsWalk, Fields, Asking
<1> HIDE DEF v
<1> QED BY <1>1 DEF MovesOn, Seen, Walks, v

LEMMA NextProviderMovesOn ==
    ASSUME NEW w, IsWalk(w), NEW ts, Walks(w, ts), w.left # <<>>
    PROVE  MovesOn(w, NextProvider(w))
<1>1. CASE Len(w.asking) > 1
  <2>1. NextProvider(w) = Asking(w, "item", Tail(w.asking), w.candidate)
    BY <1>1 DEF NextProvider, Asking, IsWalk, Fields
  <2> QED BY <2>1, AskingMovesOn
<1>2. CASE ~(Len(w.asking) > 1)
  BY <1>2, SkippedMovesOn DEF NextProvider
<1> QED BY <1>1, <1>2

LEMMA AskMovesOn ==
    ASSUME NEW w, IsWalk(w), NEW ts, Walks(w, ts), w.left # <<>>
    PROVE  MovesOn(w, Ask(w))
<1>1. CASE Head(w.asking) \in disabled
  BY <1>1, NextProviderMovesOn DEF Ask
<1>2. CASE Head(w.asking) \notin disabled
  <2>1. Ask(w) = Asking(w, "acquire", w.asking, w.candidate)
    BY <1>2 DEF Ask, Asking, IsWalk, Fields
  <2> QED BY <2>1, AskingMovesOn
<1> QED BY <1>1, <1>2

(* A request that has its ticket walks no plan.                            *)
LEMMA NoPlanWalks ==
    ASSUME NEW w, NEW ts, w.plan = NoPlan, w.left = <<>>, w.tried = <<>>,
           w.pc \in {"resting", "release"}
    PROVE  Walks(w, ts)
<1>1. w.left \in Seq(Entry) /\ w.tried \in Seq(Entry) /\ ToSet(w.left) = {}
  BY DEF ToSet
<1> QED BY <1>1 DEF Walks

LEMMA AnsweredWalks ==
    ASSUME NEW kind, NEW from, NEW id, NEW ts PROVE Walks(Answered(kind, from, id), ts)
<1> DEFINE w == Answered(kind, from, id)
<1>1. w.plan = NoPlan /\ w.left = <<>> /\ w.tried = <<>> /\ w.pc = "resting"
  BY DEF Answered, Started
<1> HIDE DEF w
<1> QED BY <1>1, NoPlanWalks DEF w

LEMMA GotWalks ==
    ASSUME NEW w, NEW id, NEW ts PROVE Walks(Got(w, id), ts)
<1>1. CASE w.kind = "replace" /\ id # w.from
  <2> DEFINE v == [Started(w.kind, NoPlan, w.from, None, <<>>) EXCEPT !.pc = "release",
                                                                      !.result = id]
  <2>1. v.plan = NoPlan /\ v.left = <<>> /\ v.tried = <<>> /\ v.pc = "release"
    BY DEF Started
  <2>2. Got(w, id) = v
    BY <1>1 DEF Got
  <2> HIDE DEF v
  <2> QED BY <2>1, <2>2, NoPlanWalks
<1>2. CASE ~(w.kind = "replace" /\ id # w.from)
  BY <1>2, AnsweredWalks DEF Got
<1> QED BY <1>1, <1>2

(* A step that moves one request to v, and keeps the routing of every      *)
(* ticket.                                                                 *)
LEMMA OneWalkMoves ==
    ASSUME RInv, IInv', NEW r \in Requests, NEW v, walk' = [walk EXCEPT ![r] = v],
           Walks(v, tickets'), KeepsRouting(tickets, tickets'), TicketsRouted(tickets'),
           plan' = plan
    PROVE  RInv'
<1>1. walk = [q \in Requests |-> walk[q]]
  BY DEF RInv, IInv, Shapes
<1>2. ASSUME NEW q \in Requests PROVE Walks(walk'[q], tickets')
  <2>1. CASE q = r
    BY <2>1, <1>1
  <2>2. CASE q # r
    <3>1. walk'[q] = walk[q] /\ Walks(walk[q], tickets)
      BY <2>2, <1>1 DEF RInv
    <3> QED BY <3>1, RoutingKept
  <2> QED BY <2>1, <2>2
<1> QED BY <1>2 DEF RInv

LEMMA SameTickets ==
    ASSUME RInv, tickets' = tickets
    PROVE  KeepsRouting(tickets, tickets') /\ TicketsRouted(tickets')
  BY DEF RInv, KeepsRouting, SameRouting, TicketsRouted

(* A ticket changes, but for its routing.                                  *)
LEMMA ChangeKeepsRouting ==
    ASSUME RInv, NEW t \in TicketIds, NEW ticket, IsTicket(ticket),
           SameRouting(tickets[t], ticket), tickets' = [tickets EXCEPT ![t] = ticket]
    PROVE  KeepsRouting(tickets, tickets') /\ TicketsRouted(tickets')
<1>1. DOMAIN tickets' = DOMAIN tickets
  OBVIOUS
<1>2. \A u \in DOMAIN tickets : tickets'[u] = IF u = t THEN ticket ELSE tickets[u]
  OBVIOUS
<1>3. KeepsRouting(tickets, tickets')
  BY <1>1, <1>2 DEF KeepsRouting, SameRouting
<1>4. \A u \in DOMAIN tickets : IsTicket(tickets'[u])
  BY <1>2 DEF RInv, TicketsRouted
<1>5. \A u \in DOMAIN tickets : tickets'[u].item # None => Routed(tickets'[u])
  BY <1>2 DEF RInv, TicketsRouted, SameRouting, Routed
<1> QED BY <1>1, <1>3, <1>4, <1>5 DEF TicketsRouted

(* A new ticket is routed as its attempt says.                             *)
LEMMA NewTicketIsRouted ==
    ASSUME NEW w, NEW ts, Walks(w, ts), w.left # <<>>, NEW retry
    PROVE  /\ IsTicket(NewTicket(w, retry))
           /\ NewTicket(w, retry).item # None => Routed(NewTicket(w, retry))
<1> DEFINE e == Head(w.left)
           t == NewTicket(w, retry)
<1>1. IsTicket(t)
  BY DEF IsTicket, NewTicket, TicketFields
<1>2. t.item = (IF w.kind = "direct" THEN None ELSE e.item) /\ t.round = e.round
      /\ t.index = e.index /\ t.order = e.order
  BY DEF NewTicket
<1> HIDE DEF t
<1>3. w.left \in Seq(Entry) /\ (w.kind # "direct" => \A x \in ToSet(w.left) : WellRouted(x))
  BY DEF Walks
<1>4. e \in ToSet(w.left)
  BY <1>3 DEF ToSet
<1>5. w.kind # "direct" => WellRouted(e)
  BY <1>3, <1>4
<1> HIDE DEF e
<1>6. WellRouted(e) => Routed(t)
  BY <1>2 DEF WellRouted, Entry, Routed
<1> QED BY <1>1, <1>2, <1>5, <1>6 DEF t

LEMMA JoinKeepsRouting ==
    ASSUME RInv, NEW ticket, IsTicket(ticket), ticket.item # None => Routed(ticket),
           tickets' = Append(tickets, ticket)
    PROVE  KeepsRouting(tickets, tickets') /\ TicketsRouted(tickets')
<1>1. PICK S : tickets \in Seq(S)
  BY DEF RInv, IInv, Shapes
<1>2. tickets \in Seq(S \cup {ticket})
  BY <1>1, SeqOfMore
<1>3. /\ DOMAIN tickets = 1..Len(tickets) /\ DOMAIN tickets' = 1..(Len(tickets) + 1)
      /\ \A u \in 1..Len(tickets) : tickets'[u] = tickets[u]
      /\ tickets'[Len(tickets) + 1] = ticket /\ Len(tickets) \in Nat
  BY <1>2
<1>4. \A u \in DOMAIN tickets' : u \in DOMAIN tickets \/ u = Len(tickets) + 1
  BY <1>3
<1>5. KeepsRouting(tickets, tickets')
  BY <1>3 DEF KeepsRouting, SameRouting
<1>6. TicketsRouted(tickets')
  BY <1>3, <1>4 DEF RInv, TicketsRouted
<1> QED BY <1>5, <1>6

-----------------------------------------------------------------------------

LEMMA InitRInv == Init => RInv
<1> SUFFICES ASSUME Init PROVE RInv
  OBVIOUS
<1>1. plan \in Plans \cup {NoPlan} /\ tickets = <<>>
  BY DEF Init
<1>2. TicketsRouted(tickets)
  BY <1>1 DEF TicketsRouted
<1>3. \A r \in Requests : Walks(walk[r], tickets)
  BY AnsweredWalks DEF Init
<1> QED BY <1>1, <1>2, <1>3, InitIInv DEF RInv

(* An acquire starts with the first round of the plan.                     *)
LEMMA FirstRound ==
    ASSUME NEW p \in Plans, NEW ts
    PROVE  Walks(Started("acquire", p, None, None, AttemptsForRound(p, 1, 0)), ts)
<1> DEFINE a == AttemptsForRound(p, 1, 0)
           w == Started("acquire", p, None, None, a)
           s == ItemsForRound(p, 1)
           n == Size(p)
<1>1. s \in Seq(Items) /\ Len(s) = n /\ Distinct(s)
  <2>1. 0 \in Nat /\ 0 + 1 = 1
    OBVIOUS
  <2> QED BY <2>1, RoundOfPlan
<1>2. a = Numbered(s, 1, 0, s)
  BY DEF AttemptsForRound
<1>3. AttemptsAt(a, s, 1, 0, s)
  <2> HIDE DEF a, s
  <2>1. 1 \in Nat \ {0} /\ 0 \in Nat
    OBVIOUS
  <2> QED BY <1>1, <1>2, <2>1, NumberedEntries
<1>4. n \in Nat /\ p.rounds \in Nat
  BY CandidatesOfPlan, PlansAssumption DEF Plan
<1>5. \A k \in 1..n : s[k] = KthItem(p, k)
  <2> TAKE k \in 1..n
  <2>1. 0 \in Nat /\ 0 + 1 = 1 /\ n * 0 + k = k
    BY <1>4
  <2> QED BY <2>1, KthOfRound
<1>6. /\ w.kind = "acquire" /\ w.plan = p /\ w.round = 1 /\ w.offset = 0
      /\ w.pc = "walking" /\ w.tried = <<>> /\ w.left = a
  BY DEF Started
<1> HIDE DEF a, w, s
<1>7. Seen(w) = a /\ w.tried \in Seq(Entry) /\ a \in Seq(Entry) /\ Len(a) = n
  BY <1>1, <1>3, <1>6 DEF AttemptsAt, Seen
<1>8. \A k \in 1..n : /\ a[k].item = KthItem(p, k) /\ a[k].index = k - 1
                      /\ a[k].round = (k - 1) \div n + 1
  <2> TAKE k \in 1..n
  <2>1. a[k].item = s[k] /\ a[k].index = 0 + k - 1 /\ a[k].round = 1
    BY <1>1, <1>3 DEF AttemptsAt
  <2>2. n \in Nat \ {0} /\ 0 \in Nat /\ k - 1 \in 0..(n - 1)
    BY <1>4
  <2> HIDE DEF n
  <2>3. (n * 0 + (k - 1)) \div n = 0
    BY <2>2, Division
  <2>4. n * 0 + (k - 1) = k - 1 /\ 0 + k - 1 = k - 1
    BY <2>2
  <2> QED BY <1>5, <2>1, <2>3, <2>4 DEF n
<1>9. AsPlanned(w)
  <2>1. n * 1 = n /\ n * (1 - 1) = 0 /\ 1 \in Nat \ {0} /\ (p.rounds # 0 => 1 <= p.rounds)
    BY <1>4
  <2> QED BY <1>6, <1>7, <1>8, <2>1 DEF AsPlanned
<1>10. \A e \in ToSet(a) : WellRouted(e)
  BY <1>3 DEF AttemptsAt
<1> QED BY <1>6, <1>7, <1>9, <1>10, PlansAssumption DEF Walks, w, a

(* It goes on with the next round.                                         *)
LEMMA FollowingRound ==
    ASSUME NEW w, IsWalk(w), NEW ts, Walks(w, ts), w.kind = "acquire", w.plan # NoPlan,
           w.pc = "walking", w.left = <<>>, CanContinue(w.plan, w.round),
           NEW offset, offset = w.offset + Len(EnabledItems(w.plan)),
           NEW v, v = [w EXCEPT !.round = w.round + 1, !.offset = offset,
                                !.left = AttemptsForRound(w.plan, w.round + 1, offset)]
    PROVE  Walks(v, ts)
<1> DEFINE p == w.plan
           q == w.round
           n == Size(p)
           s == ItemsForRound(p, q + 1)
           a == AttemptsForRound(p, q + 1, offset)
<1>1. p \in Plans /\ AsPlanned(w) /\ w.tried \in Seq(Entry) /\ w.left \in Seq(Entry)
  BY DEF Walks
<1>2. q \in Nat \ {0} /\ n \in Nat /\ p.rounds \in Nat
  BY <1>1, CandidatesOfPlan, PlansAssumption DEF AsPlanned, Plan
<1>3. offset = n * q /\ offset \in Nat
  <2>1. w.offset = n * (q - 1) /\ offset = w.offset + n
    BY <1>1 DEF AsPlanned, Size
  <2> HIDE DEF n, q
  <2> QED BY <2>1, <1>2
<1>4. /\ v.kind = "acquire" /\ v.plan = p /\ v.round = q + 1 /\ v.offset = offset
      /\ v.pc = "walking" /\ v.tried = w.tried /\ v.left = a
  BY DEF IsWalk, Fields
<1>5. s \in Seq(Items) /\ Len(s) = n /\ Distinct(s)
  BY <1>1, <1>2, RoundOfPlan
<1>6. AttemptsAt(a, s, q + 1, offset, s)
  <2>1. a = Numbered(s, q + 1, offset, s)
    BY DEF AttemptsForRound
  <2>2. q + 1 \in Nat \ {0}
    BY <1>2
  <2> HIDE DEF a, s, q
  <2> QED BY <1>3, <1>5, <2>1, <2>2, NumberedEntries
<1>7. \A j \in 1..n : s[j] = KthItem(p, n * q + j)
  BY <1>1, <1>2, KthOfRound
<1>8. /\ Len(w.tried) = n * q
      /\ \A k \in 1..(n * q) : /\ w.tried[k].item = KthItem(p, k) /\ w.tried[k].index = k - 1
                               /\ w.tried[k].round = (k - 1) \div n + 1
  <2>1. Seen(w) = w.tried
    BY <1>1 DEF Seen
  <2> QED BY <1>1, <2>1 DEF AsPlanned
<1>9. a \in Seq(Entry) /\ Len(a) = n /\ \A e \in ToSet(a) : WellRouted(e)
  BY <1>5, <1>6 DEF AttemptsAt
<1>10. q + 1 \in Nat \ {0} /\ (p.rounds # 0 => q + 1 <= p.rounds)
  BY <1>2 DEF CanContinue
<1> HIDE DEF a, s, n, q, p
<1>11. /\ Seen(v) \in Seq(Entry) /\ Len(Seen(v)) = n * (q + 1)
       /\ \A k \in 1..(n * q) : Seen(v)[k] = w.tried[k]
       /\ \A j \in 1..n : Seen(v)[n * q + j] = a[j]
  <2>1. Seen(v) = w.tried \o a
    BY <1>4 DEF Seen
  <2>2. n * q \in Nat /\ n * (q + 1) = n * q + n
    BY <1>2
  <2>3. Len(w.tried \o a) = Len(w.tried) + Len(a) /\ w.tried \o a \in Seq(Entry)
    BY <1>1, <1>9
  <2>4. \A k \in 1..Len(w.tried) : (w.tried \o a)[k] = w.tried[k]
    BY <1>1, <1>9
  <2>5. \A j \in 1..Len(a) : (w.tried \o a)[Len(w.tried) + j] = a[j]
    BY <1>1, <1>9
  <2> QED BY <2>1, <2>2, <2>3, <2>4, <2>5, <1>8, <1>9
<1>12. ASSUME NEW k \in 1..(n * (q + 1))
       PROVE  /\ Seen(v)[k].item = KthItem(p, k) /\ Seen(v)[k].index = k - 1
              /\ Seen(v)[k].round = (k - 1) \div n + 1
  <2>1. CASE k \in 1..(n * q)
    BY <2>1, <1>8, <1>11
  <2>2. CASE k \notin 1..(n * q)
    <3> DEFINE j == k - n * q
    <3>1. n * (q + 1) = n * q + n /\ n * q \in Nat
      BY <1>2
    <3>2. j \in 1..n /\ k = n * q + j
      BY <2>2, <3>1, <1>2
    <3> HIDE DEF j
    <3>3. a[j].item = s[j] /\ a[j].index = offset + j - 1 /\ a[j].round = q + 1
      BY <3>2, <1>5, <1>6 DEF AttemptsAt
    <3>4. Seen(v)[k] = a[j] /\ s[j] = KthItem(p, k)
      BY <3>2, <1>7, <1>11
    <3>5. n \in Nat \ {0} /\ q \in Nat /\ j - 1 \in 0..(n - 1)
      BY <3>2, <1>2
    <3>6. (n * q + (j - 1)) \div n = q
      BY <3>5, Division
    <3>7. k - 1 = n * q + (j - 1) /\ offset + j - 1 = k - 1
      BY <3>1, <3>2, <1>2, <1>3
    <3> QED BY <3>3, <3>4, <3>6, <3>7
  <2> QED BY <2>1, <2>2
<1>13. v.offset = n * ((q + 1) - 1)
  BY <1>2, <1>3, <1>4
<1>14. AsPlanned(v)
  BY <1>4, <1>10, <1>11, <1>12, <1>13 DEF AsPlanned, n
<1> QED BY <1>1, <1>4, <1>9, <1>14 DEF Walks, p

(* Every step of a request, and of the rest of the system.                 *)
LEMMA BeginRInv ==
    ASSUME RInv, NEW r \in Requests, Begin(r) PROVE RInv'
<1>0. IInv'
  BY BeginIInv DEF RInv
<1>a. ASSUME NEW v, walk' = [walk EXCEPT ![r] = v], Walks(v, tickets), tickets' = tickets,
             plan' = plan
      PROVE  RInv'
  BY <1>0, <1>a, SameTickets, OneWalkMoves
<1>1. CASE BeginAcquire(r)
  <2>1. plan \in Plans
    BY <1>1 DEF RInv, BeginAcquire
  <2>2. Walks(Started("acquire", plan, None, None, AttemptsForRound(plan, 1, 0)), tickets)
    BY <2>1, FirstRound
  <2> QED BY <1>1, <1>a, <2>2 DEF BeginAcquire
<1>2. CASE \E item \in Items : BeginDirect(r, item)
  <2>1. PICK item \in Items : BeginDirect(r, item)
    BY <1>2
  <2> DEFINE only == [item |-> item, round |-> 0, index |-> 0, order |-> <<>>]
             w == Started("direct", NoPlan, None, None, <<only>>)
  <2>2. only \in Entry
    BY DEF Entry
  <2> HIDE DEF only
  <2>3. w.plan = NoPlan /\ w.kind = "direct" /\ w.left = <<only>> /\ w.tried = <<>>
    BY DEF Started
  <2>4. w.left \in Seq(Entry) /\ w.tried \in Seq(Entry) /\ w.left # <<>>
    <3>1. <<only>> \in Seq(Entry) /\ <<only>> # <<>> /\ <<>> \in Seq(Entry)
      BY <2>2
    <3> HIDE DEF w
    <3> QED BY <2>3, <3>1
  <2> HIDE DEF w
  <2>5. Walks(w, tickets)
    BY <2>3, <2>4 DEF Walks
  <2> QED BY <2>1, <2>5, <1>a DEF BeginDirect, w, only
<1>3. CASE \E kind \in {"failover", "replace"}, t \in TicketIds, failed \in Items :
             BeginFailover(r, kind, t, failed)
  <2>1. PICK kind \in {"failover", "replace"}, t \in TicketIds, failed \in Items :
          BeginFailover(r, kind, t, failed)
    BY <1>3
  <2> DEFINE left == Remaining(plan, tickets[t], failed)
             w == Started(kind, plan, t, failed, left)
  <2>2. plan \in Plans /\ plan # NoPlan /\ tickets[t].item # None /\ Routed(tickets[t])
    BY <2>1 DEF BeginFailover, RInv, TicketsRouted, TicketIds
  <2>3. left \in Seq(Entry) /\ \A e \in ToSet(left) : WellRouted(e)
    BY <2>2, RemainingEntries
  <2>4. /\ w.kind = kind /\ w.plan = plan /\ w.from = t /\ w.failed = failed
        /\ w.pc = "walking" /\ w.tried = <<>> /\ w.left = left
    BY DEF Started
  <2> HIDE DEF w
  <2>5. Seen(w) = left /\ w.tried \in Seq(Entry)
    BY <2>3, <2>4 DEF Seen
  <2>6. AsRecorded(w, tickets)
    BY <2>1, <2>2, <2>4, <2>5 DEF AsRecorded, TicketIds
  <2> HIDE DEF left
  <2>7. Walks(w, tickets)
    BY <2>1, <2>2, <2>3, <2>4, <2>5, <2>6 DEF Walks
  <2> QED BY <2>1, <2>7, <1>a DEF BeginFailover, w, left
<1> QED BY <1>1, <1>2, <1>3 DEF Begin

LEMMA StepRInv ==
    ASSUME RInv, NEW r \in Requests, Step(r) PROVE RInv'
<1> DEFINE w == walk[r]
<1>0. /\ IInv' /\ IsWalk(w) /\ Walks(w, tickets)
      /\ walk = [q \in Requests |-> walk[q]]
      /\ plan' = plan
  <2>1. plan' = plan
    BY DEF Step, Attempt, AskRetry, AskAcquire, RetryTaken, RetryRefused, Acquired, NotAcquired,
           BeginRound, GiveUp, ReleaseAnswered, ReleaseRefused
  <2> QED BY <2>1, StepIInv DEF RInv, IInv, Shapes
<1>a. ASSUME NEW v, walk' = [walk EXCEPT ![r] = v], Walks(v, tickets'),
             KeepsRouting(tickets, tickets') /\ TicketsRouted(tickets')
      PROVE  RInv'
  BY <1>0, <1>a, OneWalkMoves
<1>b. ASSUME NEW v, walk' = [walk EXCEPT ![r] = v], Walks(v, tickets), tickets' = tickets
      PROVE  RInv'
  BY <1>a, <1>b, SameTickets
<1>c. ASSUME NEW v, walk' = [walk EXCEPT ![r] = v], MovesOn(w, v), tickets' = tickets
      PROVE  RInv'
  BY <1>0, <1>b, <1>c, MovingOnWalks
<1>d. w.pc \in {"item", "retry", "acquire"} => w.left # <<>>
  BY <1>0 DEF Walks
<1>e. \A t \in TicketIds : IsTicket(tickets[t])
  BY DEF RInv, TicketsRouted, TicketIds
<1>1. CASE Attempt(r)
  <2>1. CASE ProvidersFor(Head(w.left).item) = <<>>
    BY <1>1, <2>1, <1>0, <1>c, SkippedMovesOn DEF Attempt
  <2>2. CASE ProvidersFor(Head(w.left).item) # <<>>
    <3> DEFINE v == Asking(w, "item", ProvidersFor(Head(w.left).item), w.candidate)
    <3>1. [w EXCEPT !.pc = "item", !.asking = ProvidersFor(Head(w.left).item)] = v
      BY <1>0 DEF Asking, IsWalk, Fields
    <3>2. walk' = [walk EXCEPT ![r] = v] /\ tickets' = tickets /\ w.left # <<>>
      BY <1>1, <2>2, <3>1 DEF Attempt
    <3> QED BY <1>0, <3>2, <1>c, AskingMovesOn
  <2> QED BY <2>1, <2>2
<1>2. CASE AskRetry(r)
  <2>1. PICK t \in Retryable(Head(w.asking), CountryOf[Head(w.left).item]) :
          walk' = [walk EXCEPT ![r].pc = "retry", ![r].candidate = t]
    BY <1>2 DEF AskRetry
  <2> DEFINE v == Asking(w, "retry", w.asking, t)
  <2>2. walk' = [walk EXCEPT ![r] = [w EXCEPT !.pc = "retry", !.candidate = t]]
    BY <2>1, <1>0
  <2>3. [w EXCEPT !.pc = "retry", !.candidate = t] = v
    BY <1>0 DEF Asking, IsWalk, Fields
  <2>4. w.left # <<>> /\ tickets' = tickets
    BY <1>2, <1>d DEF AskRetry
  <2>5. MovesOn(w, v)
    BY <1>0, <2>4, AskingMovesOn
  <2> QED BY <2>2, <2>3, <2>4, <2>5, <1>c
<1>3. CASE AskAcquire(r)
  BY <1>3, <1>0, <1>c, <1>d, AskMovesOn DEF AskAcquire
<1>4. CASE RetryTaken(r)
  <2> DEFINE t == tickets[w.candidate]
             u == [t EXCEPT !.status = "open", !.reuses = @ + 1]
  <2>1. w.candidate \in TicketIds
    BY <1>4 DEF RetryTaken, RInv, IInv, CandidatesExist
  <2>2. tickets' = [tickets EXCEPT ![w.candidate] = u]
    BY <1>4, <2>1 DEF RetryTaken, TicketIds
  <2>3. IsTicket(u) /\ SameRouting(t, u)
    BY <1>e, <2>1 DEF IsTicket, TicketFields, SameRouting
  <2> HIDE DEF u
  <2>4. KeepsRouting(tickets, tickets') /\ TicketsRouted(tickets')
    BY <2>1, <2>2, <2>3, ChangeKeepsRouting
  <2> QED BY <1>4, <1>a, <2>4, GotWalks DEF RetryTaken
<1>5. CASE RetryRefused(r)
  <2> DEFINE t == tickets[w.candidate]
             u == [t EXCEPT !.retry = FALSE]
             v == [w EXCEPT !.candidate = None]
  <2>1. w.candidate \in TicketIds
    BY <1>5 DEF RetryRefused, RInv, IInv, CandidatesExist
  <2>2. tickets' = [tickets EXCEPT ![w.candidate] = u]
    BY <1>5, <2>1 DEF RetryRefused, TicketIds
  <2>3. IsTicket(u) /\ SameRouting(t, u)
    BY <1>e, <2>1 DEF IsTicket, TicketFields, SameRouting
  <2> HIDE DEF u
  <2>4. KeepsRouting(tickets, tickets') /\ TicketsRouted(tickets')
    BY <2>1, <2>2, <2>3, ChangeKeepsRouting
  <2>5. w.left # <<>> /\ walk' = [walk EXCEPT ![r] = Ask(v)]
    BY <1>5, <1>d DEF RetryRefused
  <2>6. v = Asking(w, w.pc, w.asking, None) /\ w.pc = "retry"
    BY <1>0, <1>5 DEF Asking, IsWalk, Fields, RetryRefused
  <2>7. Walks(v, tickets) /\ IsWalk(v) /\ v.left = w.left
    <3>1. MovesOn(w, v)
      BY <1>0, <2>5, <2>6, AskingMovesOn
    <3>2. IsWalk(v) /\ v.left = w.left
      BY <1>0 DEF IsWalk, Fields
    <3> QED BY <1>0, <3>1, <3>2, MovingOnWalks
  <2>8. Walks(Ask(v), tickets)
    <3> HIDE DEF v
    <3>1. MovesOn(v, Ask(v))
      BY <2>5, <2>7, AskMovesOn
    <3> QED BY <2>7, <3>1, MovingOnWalks
  <2>9. Walks(Ask(v), tickets')
    BY <2>4, <2>8, RoutingKept
  <2> QED BY <1>a, <2>4, <2>5, <2>9
<1>6. CASE Acquired(r)
  <2>1. PICK retry \in BOOLEAN : tickets' = Append(tickets, NewTicket(w, retry))
    BY <1>6 DEF Acquired
  <2>2. w.left # <<>>
    BY <1>6, <1>d DEF Acquired
  <2>3. KeepsRouting(tickets, tickets') /\ TicketsRouted(tickets')
    BY <1>0, <2>1, <2>2, NewTicketIsRouted, JoinKeepsRouting
  <2> QED BY <1>6, <1>a, <2>3, GotWalks DEF Acquired
<1>7. CASE NotAcquired(r)
  BY <1>7, <1>0, <1>c, <1>d, NextProviderMovesOn DEF NotAcquired
<1>8. CASE BeginRound(r)
  <2> DEFINE offset == w.offset + Len(EnabledItems(w.plan))
             v == [w EXCEPT !.round = w.round + 1, !.offset = offset,
                            !.left = AttemptsForRound(w.plan, w.round + 1, offset)]
  <2>1. walk' = [walk EXCEPT ![r] = v] /\ tickets' = tickets
    BY <1>8, <1>0 DEF BeginRound
  <2>2. w.plan # NoPlan
    BY <1>0, <1>8 DEF BeginRound, Walks
  <2>3. Walks(v, tickets)
    BY <1>8, <1>0, <2>2, FollowingRound DEF BeginRound
  <2> QED BY <2>1, <2>3, <1>b
<1>9. CASE GiveUp(r)
  <2> DEFINE v == [w EXCEPT !.pc = "failed"]
  <2>1. walk' = [walk EXCEPT ![r] = v] /\ tickets' = tickets
    BY <1>9, <1>0 DEF GiveUp
  <2>2. /\ v.kind = w.kind /\ v.plan = w.plan /\ v.from = w.from /\ v.failed = w.failed
        /\ v.round = w.round /\ v.offset = w.offset /\ v.pc = "failed"
        /\ v.tried = w.tried /\ v.left = w.left
    BY <1>0 DEF IsWalk, Fields
  <2> HIDE DEF v
  <2>3. Seen(v) = Seen(w)
    BY <2>2 DEF Seen
  <2>4. w.left = <<>> /\ (w.kind = "acquire" => ~CanContinue(w.plan, w.round))
    BY <1>9 DEF GiveUp
  <2>5. ASSUME w.plan \in Plans, w.kind = "acquire", AsPlanned(w) PROVE AsPlanned(v)
    <3>1. w.round \in Nat /\ w.plan.rounds \in Nat /\ (w.plan.rounds # 0 => w.round <= w.plan.rounds)
      BY <2>5, PlansAssumption DEF AsPlanned, Plan
    <3>2. w.round = w.plan.rounds
      BY <2>4, <2>5, <3>1 DEF CanContinue
    <3> QED BY <2>2, <2>3, <2>4, <2>5, <3>2 DEF AsPlanned
  <2>6. AsRecorded(w, tickets) => AsRecorded(v, tickets)
    BY <2>2, <2>3 DEF AsRecorded
  <2>7. Walks(v, tickets)
    BY <1>0, <1>9, <2>2, <2>5, <2>6 DEF Walks, GiveUp
  <2> QED BY <1>b, <2>1, <2>7
<1>10. CASE ReleaseAnswered(r)
  <2>1. PICK status : tickets' = [tickets EXCEPT ![w.from].status = status]
    BY <1>10 DEF ReleaseAnswered
  <2> DEFINE t == tickets[w.from]
             u == [t EXCEPT !.status = status]
  <2>2. KeepsRouting(tickets, tickets') /\ TicketsRouted(tickets')
    <3>1. CASE w.from \in TicketIds
      <4>1. IsTicket(u) /\ SameRouting(t, u)
        BY <1>e, <3>1 DEF IsTicket, TicketFields, SameRouting
      <4>2. tickets' = [tickets EXCEPT ![w.from] = u]
        BY <2>1
      <4> HIDE DEF u
      <4> QED BY <3>1, <4>1, <4>2, ChangeKeepsRouting
    <3>2. CASE w.from \notin TicketIds
      <4>1. tickets' = tickets
        BY <2>1, <3>2 DEF TicketIds, RInv, IInv, Shapes
      <4> QED BY <4>1, SameTickets
    <3> QED BY <3>1, <3>2
  <2> QED BY <1>10, <1>a, <2>2, AnsweredWalks DEF ReleaseAnswered
<1>11. CASE ReleaseRefused(r)
  BY <1>11, <1>b, AnsweredWalks DEF ReleaseRefused
<1> QED BY <1>1, <1>2, <1>3, <1>4, <1>5, <1>6, <1>7, <1>8, <1>9, <1>10, <1>11 DEF Step

LEMMA OthersRInv ==
    ASSUME RInv, \/ \E t \in TicketIds : Close(t) \/ RetryExpires(t)
                 \/ Edit
                 \/ UNCHANGED vars
    PROVE  RInv'
<1>1. walk' = walk /\ plan' \in Plans \cup {NoPlan} /\ IInv'
  <2>1. IInv'
    BY OthersIInv DEF RInv
  <2> QED BY <2>1 DEF RInv, Close, RetryExpires, Edit, vars
<1>2. KeepsRouting(tickets, tickets') /\ TicketsRouted(tickets')
  <2>1. CASE tickets' = tickets
    BY <2>1, SameTickets
  <2>2. CASE \E t \in TicketIds : Close(t) \/ RetryExpires(t)
    <3>1. PICK t \in TicketIds : Close(t) \/ RetryExpires(t)
      BY <2>2
    <3> DEFINE closed == [tickets[t] EXCEPT !.status = "closed"]
               expired == [tickets[t] EXCEPT !.retry = FALSE]
    <3>2. IsTicket(tickets[t])
      BY DEF RInv, TicketsRouted, TicketIds
    <3>3. /\ IsTicket(closed) /\ SameRouting(tickets[t], closed)
          /\ IsTicket(expired) /\ SameRouting(tickets[t], expired)
      BY <3>2 DEF IsTicket, TicketFields, SameRouting
    <3>4. \/ tickets' = [tickets EXCEPT ![t] = closed]
          \/ tickets' = [tickets EXCEPT ![t] = expired]
      BY <3>1 DEF Close, RetryExpires
    <3> HIDE DEF closed, expired
    <3> QED BY <3>3, <3>4, ChangeKeepsRouting
  <2> QED BY <2>1, <2>2 DEF Edit, vars
<1> QED BY <1>1, <1>2, RoutingKept DEF RInv

(* Both properties follow.                                                 *)
LEMMA RInvImplies == RInv => AcquireWalksThePlan /\ FailoverKeepsToTheOrder
<1> SUFFICES ASSUME RInv PROVE AcquireWalksThePlan /\ FailoverKeepsToTheOrder
  OBVIOUS
<1>1. AcquireWalksThePlan
  <2> SUFFICES ASSUME NEW r \in Requests, walk[r].kind = "acquire", walk[r].plan # NoPlan
               PROVE  LET w == walk[r]
                          n == Cardinality(Candidates(w.plan))
                      IN  /\ \A k \in DOMAIN Seen(w) :
                                /\ Seen(w)[k].item = KthItem(w.plan, k)
                                /\ Seen(w)[k].index = k - 1
                                /\ Seen(w)[k].round = (k - 1) \div n + 1
                          /\ w.pc = "failed" => Len(w.tried) = n * w.plan.rounds /\ w.left = <<>>
    BY DEF AcquireWalksThePlan
  <2> DEFINE w == walk[r]
  <2>1. w.plan \in Plans /\ AsPlanned(w) /\ w.tried \in Seq(Entry) /\ w.left \in Seq(Entry)
    BY DEF RInv, Walks
  <2>2. Size(w.plan) = Cardinality(Candidates(w.plan))
    BY <2>1, CandidatesOfPlan
  <2>3. DOMAIN Seen(w) = 1..Len(Seen(w))
    BY <2>1 DEF Seen
  <2>4. w.left = <<>> => Seen(w) = w.tried
    BY <2>1 DEF Seen
  <2> HIDE DEF w
  <2> QED BY <2>1, <2>2, <2>3, <2>4 DEF AsPlanned, w
<1>2. FailoverKeepsToTheOrder
  <2>1. ASSUME NEW r \in Requests, walk[r].kind # "acquire", walk[r].plan # NoPlan,
               walk[r].failed \in Candidates(walk[r].plan)
        PROVE  KeepsToTheOrder(walk[r].plan, tickets[walk[r].from], walk[r].failed, Seen(walk[r]))
    <3> DEFINE w == walk[r]
               t == tickets[w.from]
    <3>1. w.plan \in Plans /\ AsRecorded(w, tickets)
      BY <2>1 DEF RInv, Walks
    <3>2. Routed(t) /\ Seen(w) = Remaining(w.plan, t, w.failed)
      BY <3>1 DEF AsRecorded, RInv, TicketsRouted
    <3> HIDE DEF w, t
    <3>3. w.failed \in Candidates(w.plan)
      BY <2>1 DEF w
    <3> QED BY <3>1, <3>2, <3>3, RemainingKeepsToTheOrder DEF w, t
  <2> QED BY <2>1 DEF FailoverKeepsToTheOrder, KeepsToTheOrder, Here, Later
<1> QED BY <1>1, <1>2

(* Whatever is saved, disabled, closed or retried meanwhile, and for any   *)
(* number of candidates and rounds: an acquire asks every candidate of its *)
(* plan once in each round, in the order of the plan or by rank in a       *)
(* random one, numbers its attempts over the rounds, and fails only at the *)
(* end of the last round (acquire_code_by_routing_plan,                    *)
(* routing_attempts_for_round).                                            *)
THEOREM AcquireIsWalked == Spec => []AcquireWalksThePlan
<1>1. RInv /\ [Next]_vars => RInv'
  BY BeginRInv, StepRInv, OthersRInv DEF Next
<1> QED BY InitRInv, <1>1, RInvImplies, PTL DEF Spec

(* A failover tries exactly the candidates behind the failed one, in the   *)
(* order the ticket recorded, then one whole round more if the plan has    *)
(* one, however the plan was edited since (failover_routing_attempt,       *)
(* routing_item_order_for_ticket).                                         *)
THEOREM FailoverIsOrdered == Spec => []FailoverKeepsToTheOrder
<1>1. RInv /\ [Next]_vars => RInv'
  BY BeginRInv, StepRInv, OthersRInv DEF Next
<1> QED BY InitRInv, <1>1, RInvImplies, PTL DEF Spec

-----------------------------------------------------------------------------
(* Types. A request that asks a provider has one to ask.                   *)
Kinds == {"acquire", "direct", "failover", "replace"}

Typed(w) == w \in Walk /\ (w.pc \in {"item", "retry", "acquire"} => w.asking # <<>>)

WalkTypes ==
    /\ TypeOK
    /\ \A r \in Requests : Typed(walk[r])

LEMMA StartedIsTyped ==
    ASSUME NEW kind \in Kinds, NEW p \in Plan \cup {NoPlan}, NEW from \in Nat \cup {None},
           NEW failed \in Items \cup {None}, NEW left \in Seq(Entry)
    PROVE  Typed(Started(kind, p, from, failed, left))
<1> DEFINE w == Started(kind, p, from, failed, left)
<1>1. <<>> \in Seq(Entry) /\ <<>> \in Seq(Providers)
  OBVIOUS
<1>2. w \in Walk
  BY <1>1 DEF Walk, Started, Kinds
<1>3. w.pc = "walking"
  BY DEF Started
<1> HIDE DEF w
<1> QED BY <1>2, <1>3 DEF Typed, w

LEMMA AnsweredIsTyped ==
    ASSUME NEW kind \in Kinds, NEW from \in Nat \cup {None}, NEW id \in Nat \cup {None}
    PROVE  Typed(Answered(kind, from, id))
<1> DEFINE w == Answered(kind, from, id)
<1>1. <<>> \in Seq(Entry) /\ <<>> \in Seq(Providers)
  OBVIOUS
<1>2. w \in Walk
  BY <1>1 DEF Walk, Answered, Started, Kinds
<1>3. w.pc = "resting"
  BY DEF Answered, Started
<1> HIDE DEF w
<1> QED BY <1>2, <1>3 DEF Typed, w

LEMMA GotIsTyped ==
    ASSUME NEW w, Typed(w), NEW id \in Nat
    PROVE  Typed(Got(w, id))
<1>1. w.kind \in Kinds /\ w.from \in Nat \cup {None}
  BY DEF Typed, Walk, Kinds
<1>2. CASE w.kind = "replace" /\ id # w.from
  <2> DEFINE v == [Started(w.kind, NoPlan, w.from, None, <<>>) EXCEPT !.pc = "release",
                                                                      !.result = id]
  <2>1. <<>> \in Seq(Entry) /\ <<>> \in Seq(Providers)
    OBVIOUS
  <2>2. v \in Walk
    BY <1>1, <2>1 DEF Walk, Started, Kinds
  <2>3. v.pc = "release"
    BY DEF Started
  <2>4. Got(w, id) = v
    BY <1>2 DEF Got
  <2> HIDE DEF v
  <2> QED BY <2>2, <2>3, <2>4 DEF Typed
<1>3. CASE ~(w.kind = "replace" /\ id # w.from)
  <2>1. PICK x \in Nat \cup {None} : Got(w, id) = Answered(w.kind, w.from, x)
    BY <1>3 DEF Got
  <2> QED BY <1>1, <2>1, AnsweredIsTyped
<1> QED BY <1>2, <1>3

(* The next attempt, the next provider, the next question.                 *)
LEMMA SkippedIsTyped ==
    ASSUME NEW w, Typed(w), w.left # <<>>
    PROVE  Typed(Skipped(w))
<1> DEFINE v == Skipped(w)
<1>1. w.left \in Seq(Entry) /\ w.tried \in Seq(Entry)
  BY DEF Typed, Walk
<1>2. /\ Append(w.tried, Head(w.left)) \in Seq(Entry) /\ Tail(w.left) \in Seq(Entry)
      /\ <<>> \in Seq(Providers)
  BY <1>1
<1>3. v \in Walk
  BY <1>2 DEF Typed, Walk, Skipped
<1>4. v.pc = "walking"
  BY DEF Typed, Walk, Skipped
<1> HIDE DEF v
<1> QED BY <1>3, <1>4 DEF Typed, v

LEMMA AskingIsTyped ==
    ASSUME NEW w, Typed(w),
           NEW pc \in {"item", "retry", "acquire"}, NEW asking \in Seq(Providers),
           asking # <<>>, NEW candidate \in Nat \cup {None}
    PROVE  Typed(Asking(w, pc, asking, candidate))
<1> DEFINE v == Asking(w, pc, asking, candidate)
<1>1. v \in Walk
  BY DEF Typed, Walk, Asking
<1>2. v.pc = pc /\ v.asking = asking
  BY DEF Typed, Walk, Asking
<1> HIDE DEF v
<1> QED BY <1>1, <1>2 DEF Typed, v

LEMMA NextProviderIsTyped ==
    ASSUME NEW w, Typed(w), w.left # <<>>,
           w.pc \in {"item", "retry", "acquire"}
    PROVE  Typed(NextProvider(w))
<1>1. w \in Walk /\ w.asking \in Seq(Providers) /\ w.candidate \in Nat \cup {None}
  BY DEF Typed, Walk
<1>2. CASE Len(w.asking) > 1
  <2>1. Tail(w.asking) \in Seq(Providers) /\ Tail(w.asking) # <<>>
    <3> DEFINE s == w.asking
    <3>1. s \in Seq(Providers) /\ Len(s) > 1 /\ Len(s) \in Nat
      BY <1>1, <1>2
    <3> HIDE DEF s
    <3>2. Tail(s) \in Seq(Providers) /\ Len(Tail(s)) = Len(s) - 1
      BY <3>1
    <3>3. Len(<<>>) = 0
      OBVIOUS
    <3>4. Len(Tail(s)) # 0
      <4> DEFINE n == Len(s)
                 m == Len(Tail(s))
      <4>1. n \in Nat /\ n > 1 /\ m = n - 1
        BY <3>1, <3>2
      <4> HIDE DEF n, m
      <4>2. m # 0
        BY <4>1
      <4> QED BY <4>2 DEF m
    <3>5. Tail(s) # <<>>
      BY <3>3, <3>4, Zenon
    <3> QED BY <3>2, <3>5 DEF s
  <2>2. NextProvider(w) = Asking(w, "item", Tail(w.asking), w.candidate)
    BY <1>1, <1>2 DEF NextProvider, Asking, Walk
  <2> QED BY <1>1, <2>1, <2>2, AskingIsTyped
<1>3. CASE ~(Len(w.asking) > 1)
  BY <1>3, SkippedIsTyped DEF NextProvider
<1> QED BY <1>2, <1>3

LEMMA AskIsTyped ==
    ASSUME NEW w, Typed(w), w.left # <<>>,
           w.pc \in {"item", "retry", "acquire"}
    PROVE  Typed(Ask(w))
<1>1. CASE Head(w.asking) \in disabled
  BY <1>1, NextProviderIsTyped DEF Ask
<1>2. CASE Head(w.asking) \notin disabled
  <2>1. /\ w \in Walk /\ w.asking \in Seq(Providers) /\ w.asking # <<>>
        /\ w.candidate \in Nat \cup {None}
    BY DEF Typed, Walk
  <2>2. Ask(w) = Asking(w, "acquire", w.asking, w.candidate)
    BY <1>2, <2>1 DEF Ask, Asking, Walk
  <2> QED BY <2>1, <2>2, AskingIsTyped
<1> QED BY <1>1, <1>2

LEMMA ProvidersTyped ==
    ASSUME NEW item \in Items PROVE ProvidersFor(item) \in Seq(Providers)
<1>1. CASE ProviderOf[item] = AnyProvider
  <2>1. Filtered(Priority, Providers \ disabled) \in Seq(Providers \cap (Providers \ disabled))
    BY ProvidersAssumption, FilteredMembers
  <2>2. Filtered(Priority, Providers \ disabled) \in Seq(Providers)
    BY <2>1, SeqOfMore
  <2> QED BY <1>1, <2>2 DEF ProvidersFor
<1>2. CASE ProviderOf[item] # AnyProvider
  <2>1. ProviderOf[item] \in Providers
    BY <1>2, ProvidersAssumption
  <2> QED BY <1>2, <2>1 DEF ProvidersFor
<1> QED BY <1>1, <1>2

LEMMA RoundIsTyped ==
    ASSUME NEW p \in Plans, NEW round \in Nat \ {0}, NEW offset \in Nat
    PROVE  AttemptsForRound(p, round, offset) \in Seq(Entry)
<1> DEFINE s == ItemsForRound(p, round)
<1>1. s \in Seq(Items) /\ Distinct(s)
  <2>1. round - 1 \in Nat /\ (round - 1) + 1 = round
    OBVIOUS
  <2> QED BY <2>1, RoundOfPlan
<1> HIDE DEF s
<1>2. Numbered(s, round, offset, s) \in Seq(Entry)
  BY <1>1, NumberedEntries DEF AttemptsAt
<1> QED BY <1>2 DEF AttemptsForRound, s

LEMMA NewTicketIsTyped ==
    ASSUME NEW w, Typed(w), w.left # <<>>, w.asking # <<>>, NEW retry \in BOOLEAN
    PROVE  NewTicket(w, retry) \in Ticket
<1> DEFINE e == Head(w.left)
           p == Head(w.asking)
<1>1. w.left \in Seq(Entry) /\ w.asking \in Seq(Providers)
  BY DEF Typed, Walk
<1>2. e \in Entry /\ p \in Providers
  BY <1>1
<1>3. /\ e.item \in Items /\ e.round \in Nat /\ e.index \in Nat /\ e.order \in Seq(Items)
      /\ CountryOf[e.item] \in {CountryOf[i] : i \in Items}
  BY <1>2 DEF Entry
<1> HIDE DEF e, p
<1>4. NewTicket(w, retry) =
        [item |-> IF w.kind = "direct" THEN None ELSE e.item, round |-> e.round,
         index |-> e.index, order |-> e.order, provider |-> p, country |-> CountryOf[e.item],
         retry |-> retry, reuses |-> 0, status |-> "open"]
  BY DEF NewTicket, e, p
<1> QED BY <1>2, <1>3, <1>4 DEF Ticket

(* One request moves; the tickets stay, change or grow by one.             *)
LEMMA OneTypedMoves ==
    ASSUME WalkTypes, NEW r \in Requests, NEW v, walk' = [walk EXCEPT ![r] = v],
           Typed(v), plan' \in Plans \cup {NoPlan}, tickets' \in Seq(Ticket),
           disabled' \subseteq Providers, edits' = edits, TicketIds \subseteq TicketIds'
    PROVE  WalkTypes'
<1>1. walk \in [Requests -> Walk] /\ edits \in 0..MaxEdits
  BY DEF WalkTypes, TypeOK
<1>2. v \in Walk
  BY DEF Typed
<1>3. walk' \in [Requests -> Walk]
  BY <1>1, <1>2
<1>4. ASSUME NEW q \in Requests PROVE Typed(walk'[q])
  <2>1. CASE q = r
    BY <2>1, <1>1
  <2>2. CASE q # r
    <3>1. walk'[q] = walk[q] /\ Typed(walk[q])
      BY <2>2, <1>1 DEF WalkTypes
    <3> QED BY <3>1 DEF Typed
  <2> QED BY <2>1, <2>2
<1> QED BY <1>1, <1>3, <1>4 DEF WalkTypes, TypeOK

LEMMA TypesInit == Init => WalkTypes
<1> SUFFICES ASSUME Init PROVE WalkTypes
  OBVIOUS
<1>1. \A r \in Requests : Typed(Answered("acquire", None, None))
  BY AnsweredIsTyped DEF Kinds
<1>2. Answered("acquire", None, None) \in Walk
  BY AnsweredIsTyped DEF Typed, Kinds
<1>3. walk \in [Requests -> Walk]
  BY <1>2 DEF Init
<1>4. edits \in 0..MaxEdits /\ tickets \in Seq(Ticket)
  BY BoundsAssumption DEF Init
<1> QED BY <1>1, <1>3, <1>4 DEF Init, WalkTypes, TypeOK

LEMMA BeginTypes ==
    ASSUME WalkTypes, RInv, NEW r \in Requests, Begin(r) PROVE WalkTypes'
<1>0. /\ plan \in Plans \cup {NoPlan} /\ plan \in Plan \cup {NoPlan}
      /\ tickets \in Seq(Ticket) /\ disabled \subseteq Providers /\ TicketIds \subseteq Nat
  <2>1. plan \in Plans \cup {NoPlan} /\ tickets \in Seq(Ticket) /\ disabled \subseteq Providers
    BY DEF WalkTypes, TypeOK
  <2> QED BY <2>1, PlansAssumption DEF TicketIds
<1>a. ASSUME NEW v, walk' = [walk EXCEPT ![r] = v], Typed(v),
             UNCHANGED <<plan, tickets, disabled, edits>>
      PROVE  WalkTypes'
  <2>1. TicketIds' = TicketIds
    BY <1>a DEF TicketIds
  <2> QED BY <1>0, <1>a, <2>1, OneTypedMoves
<1>1. CASE BeginAcquire(r)
  <2> DEFINE left == AttemptsForRound(plan, 1, 0)
  <2>1. left \in Seq(Entry) /\ plan \in Plan
    <3>1. plan \in Plans
      BY <1>0, <1>1 DEF BeginAcquire
    <3> QED BY <3>1, PlansAssumption, RoundIsTyped
  <2> HIDE DEF left
  <2>2. Typed(Started("acquire", plan, None, None, left))
    BY <2>1, StartedIsTyped DEF Kinds
  <2> QED BY <1>1, <1>a, <2>2 DEF BeginAcquire, left
<1>2. CASE \E item \in Items : BeginDirect(r, item)
  <2>1. PICK item \in Items : BeginDirect(r, item)
    BY <1>2
  <2> DEFINE only == [item |-> item, round |-> 0, index |-> 0, order |-> <<>>]
  <2>2. only \in Entry
    <3>1. <<>> \in Seq(Items)
      OBVIOUS
    <3> QED BY <3>1 DEF Entry
  <2> HIDE DEF only
  <2>3. <<only>> \in Seq(Entry)
    BY <2>2
  <2>4. Typed(Started("direct", NoPlan, None, None, <<only>>))
    BY <2>3, StartedIsTyped DEF Kinds
  <2> QED BY <2>1, <2>4, <1>a DEF BeginDirect, only
<1>3. CASE \E kind \in {"failover", "replace"}, t \in TicketIds, failed \in Items :
             BeginFailover(r, kind, t, failed)
  <2>1. PICK kind \in {"failover", "replace"}, t \in TicketIds, failed \in Items :
          BeginFailover(r, kind, t, failed)
    BY <1>3
  <2> DEFINE left == Remaining(plan, tickets[t], failed)
  <2>2. plan \in Plans /\ Routed(tickets[t])
    BY <2>1, <1>0 DEF BeginFailover, RInv, TicketsRouted, TicketIds
  <2>3. left \in Seq(Entry)
    BY <2>2, RemainingEntries
  <2> HIDE DEF left
  <2>4. Typed(Started(kind, plan, t, failed, left))
    BY <1>0, <2>1, <2>3, StartedIsTyped DEF Kinds
  <2> QED BY <2>1, <2>4, <1>a DEF BeginFailover, left
<1> QED BY <1>1, <1>2, <1>3 DEF Begin

LEMMA StepTypes ==
    ASSUME WalkTypes, RInv, NEW r \in Requests, Step(r) PROVE WalkTypes'
<1> DEFINE w == walk[r]
<1>0. /\ plan \in Plans \cup {NoPlan} /\ tickets \in Seq(Ticket)
      /\ disabled \subseteq Providers /\ TicketIds \subseteq Nat
      /\ walk \in [Requests -> Walk] /\ w \in Walk /\ Typed(w)
      /\ Walks(w, tickets) /\ Sound(w, TicketIds)
  <2>1. /\ plan \in Plans \cup {NoPlan} /\ tickets \in Seq(Ticket)
        /\ disabled \subseteq Providers /\ walk \in [Requests -> Walk]
    BY DEF WalkTypes, TypeOK
  <2>2. Typed(w)
    BY DEF WalkTypes
  <2>3. Walks(w, tickets) /\ Sound(w, TicketIds)
    BY IInvIsSound DEF RInv
  <2> QED BY <2>1, <2>2, <2>3 DEF TicketIds
<1>a. ASSUME NEW v, walk' = [walk EXCEPT ![r] = v], Typed(v),
             UNCHANGED <<plan, tickets, edits>>, disabled' \subseteq Providers
      PROVE  WalkTypes'
  <2>1. TicketIds' = TicketIds
    BY <1>a DEF TicketIds
  <2> QED BY <1>0, <1>a, <2>1, OneTypedMoves
<1>b. ASSUME NEW v, walk' = [walk EXCEPT ![r] = v], Typed(v),
             NEW t \in TicketIds, NEW ticket \in Ticket,
             tickets' = [tickets EXCEPT ![t] = ticket], UNCHANGED <<plan, disabled, edits>>
      PROVE  WalkTypes'
  <2>1. tickets' \in Seq(Ticket) /\ TicketIds' = TicketIds
    BY <1>0, <1>b DEF TicketIds
  <2> QED BY <1>0, <1>b, <2>1, OneTypedMoves
<1>c. \A t \in TicketIds : tickets[t] \in Ticket
  BY <1>0 DEF TicketIds
<1> HIDE DEF w
<1>1. CASE Attempt(r)
  <2> DEFINE providers == ProvidersFor(Head(w.left).item)
  <2>1. w.left \in Seq(Entry) /\ w.left # <<>> /\ w.pc = "walking"
    BY <1>0, <1>1 DEF Attempt, Walk, w
  <2>2. Head(w.left).item \in Items
    <3>1. Head(w.left) \in Entry
      BY <2>1
    <3> QED BY <3>1 DEF Entry
  <2>3. providers \in Seq(Providers)
    BY <2>2, ProvidersTyped
  <2> HIDE DEF providers
  <2>4. CASE providers = <<>>
    <3>1. Typed(Skipped(w))
      BY <1>0, <2>1, SkippedIsTyped
    <3> QED BY <1>1, <2>4, <3>1, <1>0, <1>a DEF Attempt, w, providers
  <2>5. CASE providers # <<>>
    <3> DEFINE v == [w EXCEPT !.pc = "item", !.asking = providers]
    <3>1. v = Asking(w, "item", providers, w.candidate) /\ w.candidate \in Nat \cup {None}
      BY <1>0 DEF Asking, Walk
    <3>2. Typed(v)
      BY <1>0, <2>1, <2>3, <2>5, <3>1, AskingIsTyped
    <3>3. walk' = [walk EXCEPT ![r] = v]
      BY <1>1, <2>5 DEF Attempt, w, providers
    <3> HIDE DEF v
    <3> QED BY <1>1, <3>2, <3>3, <1>0, <1>a DEF Attempt
  <2> QED BY <2>4, <2>5
<1>2. CASE AskRetry(r)
  <2>1. PICK t \in Retryable(Head(w.asking), CountryOf[Head(w.left).item]) :
          walk' = [walk EXCEPT ![r].pc = "retry", ![r].candidate = t]
    BY <1>2 DEF AskRetry, w
  <2> DEFINE v == [w EXCEPT !.pc = "retry", !.candidate = t]
  <2>2. t \in TicketIds
    BY <2>1 DEF Retryable
  <2>3. /\ w.asking \in Seq(Providers) /\ w.asking # <<>> /\ w.pc = "item"
        /\ t \in Nat \cup {None}
    BY <1>0, <1>2, <2>2 DEF AskRetry, Walk, Typed, w
  <2>4. v = Asking(w, "retry", w.asking, t)
    BY <1>0 DEF Asking, Walk
  <2>5. Typed(v)
    BY <1>0, <2>3, <2>4, AskingIsTyped
  <2>6. walk' = [walk EXCEPT ![r] = v]
    BY <2>1, <1>0 DEF w
  <2> HIDE DEF v
  <2> QED BY <1>2, <2>5, <2>6, <1>0, <1>a DEF AskRetry
<1>3. CASE AskAcquire(r)
  <2>1. w.pc = "item" /\ w.left # <<>>
    BY <1>0, <1>3 DEF AskAcquire, Walks, w
  <2>2. Typed(Ask(w))
    BY <1>0, <2>1, AskIsTyped
  <2> QED BY <1>3, <2>2, <1>0, <1>a DEF AskAcquire, w
<1>4. CASE RetryTaken(r)
  <2> DEFINE t == w.candidate
             ticket == [tickets[t] EXCEPT !.status = "open", !.reuses = tickets[t].reuses + 1]
  <2>1. t \in TicketIds /\ w.pc = "retry"
    BY <1>0, <1>4 DEF RetryTaken, Sound, w
  <2>2. ticket \in Ticket
    <3>1. \A k \in Ticket :
            /\ k.reuses \in Nat
            /\ \A n \in Nat : [k EXCEPT !.status = "open", !.reuses = n] \in Ticket
      BY DEF Ticket
    <3>2. \A n \in Nat : n + 1 \in Nat
      OBVIOUS
    <3> QED BY <1>c, <2>1, <3>1, <3>2
  <2>3. tickets' = [tickets EXCEPT ![t] = ticket]
    BY <1>4, <1>0, <2>1 DEF RetryTaken, TicketIds, w
  <2>4. Typed(Got(w, t))
    BY <1>0, <2>1, GotIsTyped
  <2> HIDE DEF ticket
  <2> QED BY <1>4, <2>1, <2>2, <2>3, <2>4, <1>b DEF RetryTaken, w
<1>5. CASE RetryRefused(r)
  <2> DEFINE t == w.candidate
             ticket == [tickets[t] EXCEPT !.retry = FALSE]
             v == Asking(w, "retry", w.asking, None)
  <2>1. t \in TicketIds /\ w.pc = "retry" /\ w.left # <<>>
    BY <1>0, <1>5 DEF RetryRefused, Sound, Walks, w
  <2>2. ticket \in Ticket
    BY <1>c, <2>1 DEF Ticket
  <2>3. tickets' = [tickets EXCEPT ![t] = ticket]
    BY <1>5, <1>0, <2>1 DEF RetryRefused, TicketIds, w
  <2>4. w.asking \in Seq(Providers) /\ w.asking # <<>>
    BY <1>0, <2>1 DEF Typed, Walk
  <2>5. /\ v = [w EXCEPT !.candidate = None]
        /\ v.left = w.left /\ v.pc = "retry"
    BY <1>0, <2>1 DEF Asking, Walk
  <2>6. Typed(v)
    BY <1>0, <2>1, <2>4, AskingIsTyped
  <2>7. walk' = [walk EXCEPT ![r] = Ask(v)]
    BY <1>5, <2>5 DEF RetryRefused, w
  <2> HIDE DEF ticket, v, t
  <2>8. Typed(Ask(v))
    BY <2>1, <2>5, <2>6, AskIsTyped
  <2> QED BY <1>5, <2>1, <2>2, <2>3, <2>7, <2>8, <1>b DEF RetryRefused
<1>6. CASE Acquired(r)
  <2>1. PICK retry \in BOOLEAN : tickets' = Append(tickets, NewTicket(w, retry))
    BY <1>6 DEF Acquired, w
  <2>2. w.pc = "acquire" /\ w.left # <<>> /\ w.asking # <<>>
    BY <1>0, <1>6 DEF Acquired, Walks, Typed, w
  <2>3. NewTicket(w, retry) \in Ticket
    BY <1>0, <2>2, NewTicketIsTyped
  <2>4. /\ tickets' \in Seq(Ticket) /\ TicketIds \subseteq TicketIds'
        /\ Len(tickets) + 1 \in Nat
    BY <1>0, <2>1, <2>3 DEF TicketIds
  <2>5. Typed(Got(w, Len(tickets) + 1))
    BY <1>0, <2>2, <2>4, GotIsTyped
  <2>6. walk' = [walk EXCEPT ![r] = Got(w, Len(tickets) + 1)]
        /\ UNCHANGED <<plan, disabled, edits>>
    BY <1>6 DEF Acquired, w
  <2> QED BY <1>0, <2>4, <2>5, <2>6, OneTypedMoves
<1>7. CASE NotAcquired(r)
  <2>1. /\ w.pc = "acquire" /\ w.left # <<>> /\ w.asking # <<>> /\ w.asking \in Seq(Providers)
    BY <1>0, <1>7 DEF NotAcquired, Walks, Typed, Walk, w
  <2>2. Head(w.asking) \in Providers
    BY <2>1
  <2>3. disabled' \subseteq Providers
    BY <1>0, <1>7, <2>2 DEF NotAcquired, w
  <2>4. Typed(NextProvider(w))
    BY <1>0, <2>1, NextProviderIsTyped
  <2> QED BY <1>7, <2>3, <2>4, <1>a DEF NotAcquired, w
<1>8. CASE BeginRound(r)
  <2> DEFINE offset == w.offset + Len(EnabledItems(w.plan))
             left == AttemptsForRound(w.plan, w.round + 1, offset)
             v == [w EXCEPT !.round = w.round + 1, !.offset = offset, !.left = left]
  <2>1. w.kind = "acquire" /\ w.pc = "walking"
    BY <1>8 DEF BeginRound, w
  <2>2. w.plan \in Plans
    BY <1>0, <2>1 DEF Walks
  <2>3. w.round \in Nat /\ w.offset \in Nat
    BY <1>0 DEF Walk
  <2>4. offset \in Nat /\ w.round + 1 \in Nat \ {0}
    BY <2>2, <2>3, CandidatesOfPlan DEF Size
  <2> HIDE DEF offset
  <2>5. left \in Seq(Entry)
    BY <2>2, <2>4, RoundIsTyped
  <2> HIDE DEF left
  <2>6. v \in Walk /\ v.pc = w.pc
    BY <1>0, <2>4, <2>5 DEF Walk
  <2>7. walk' = [walk EXCEPT ![r] = v]
    BY <1>8, <1>0 DEF BeginRound, w, left, offset
  <2> HIDE DEF v
  <2>8. Typed(v)
    BY <1>0, <2>1, <2>6 DEF Typed
  <2> QED BY <1>8, <2>7, <2>8, <1>0, <1>a DEF BeginRound
<1>9. CASE GiveUp(r)
  <2> DEFINE v == [w EXCEPT !.pc = "failed"]
  <2>1. v \in Walk /\ v.pc = "failed"
    BY <1>0, <1>9 DEF Walk, GiveUp, w
  <2>2. walk' = [walk EXCEPT ![r] = v]
    BY <1>9, <1>0 DEF GiveUp, w
  <2> HIDE DEF v
  <2>3. Typed(v)
    BY <1>0, <2>1 DEF Typed
  <2> QED BY <1>9, <2>2, <2>3, <1>0, <1>a DEF GiveUp
<1>10. CASE ReleaseAnswered(r)
  <2>1. PICK status \in {"closed", "pending"} :
          tickets' = [tickets EXCEPT ![w.from].status = status]
    BY <1>10 DEF ReleaseAnswered, w
  <2> DEFINE ticket == [tickets[w.from] EXCEPT !.status = status]
  <2>2. w.pc = "release" /\ w.from \in Nat \cup {None} /\ w.result \in Nat \cup {None}
    BY <1>0, <1>10 DEF ReleaseAnswered, Walk, w
  <2>3. Typed(Answered("replace", w.from, w.result))
    BY <2>2, AnsweredIsTyped DEF Kinds
  <2>4. CASE w.from \in TicketIds
    <3>1. ticket \in Ticket
      BY <1>c, <2>4 DEF Ticket
    <3>2. tickets' = [tickets EXCEPT ![w.from] = ticket]
      BY <2>1, <2>4, <1>0
    <3> HIDE DEF ticket
    <3> QED BY <1>10, <2>3, <2>4, <3>1, <3>2, <1>b DEF ReleaseAnswered, w
  <2>5. CASE w.from \notin TicketIds
    <3>1. tickets' = tickets
      BY <1>0, <2>1, <2>5 DEF TicketIds
    <3> QED BY <1>10, <2>3, <3>1, <1>0, <1>a DEF ReleaseAnswered, w
  <2> QED BY <2>4, <2>5
<1>11. CASE ReleaseRefused(r)
  <2>1. w.from \in Nat \cup {None}
    BY <1>0 DEF Walk
  <2>2. Typed(Answered("replace", w.from, None))
    BY <2>1, AnsweredIsTyped DEF Kinds
  <2> QED BY <1>11, <2>2, <1>0, <1>a DEF ReleaseRefused, w
<1> QED BY <1>1, <1>2, <1>3, <1>4, <1>5, <1>6, <1>7, <1>8, <1>9, <1>10, <1>11 DEF Step

LEMMA OthersTypes ==
    ASSUME WalkTypes, \/ \E t \in TicketIds : Close(t) \/ RetryExpires(t)
                      \/ Edit
                      \/ UNCHANGED vars
    PROVE  WalkTypes'
<1>1. /\ plan' \in Plans \cup {NoPlan} /\ edits' \in 0..MaxEdits
      /\ walk' = walk /\ disabled' = disabled
  <2>1. plan \in Plans \cup {NoPlan} /\ edits \in 0..MaxEdits
    BY DEF WalkTypes, TypeOK
  <2>2. CASE Edit
    BY <2>1, <2>2, BoundsAssumption DEF Edit
  <2>3. CASE \E t \in TicketIds : Close(t) \/ RetryExpires(t)
    BY <2>1, <2>3 DEF Close, RetryExpires
  <2> QED BY <2>1, <2>2, <2>3 DEF vars
<1>2. tickets' \in Seq(Ticket) /\ TicketIds' = TicketIds
  <2>1. tickets \in Seq(Ticket)
    BY DEF WalkTypes, TypeOK
  <2>2. CASE \E t \in TicketIds : Close(t) \/ RetryExpires(t)
    <3>1. PICK t \in TicketIds : Close(t) \/ RetryExpires(t)
      BY <2>2
    <3> DEFINE closed == [tickets[t] EXCEPT !.status = "closed"]
               expired == [tickets[t] EXCEPT !.retry = FALSE]
    <3>2. tickets[t] \in Ticket
      BY <2>1 DEF TicketIds
    <3>3. closed \in Ticket /\ expired \in Ticket
      BY <3>2 DEF Ticket
    <3>4. \/ tickets' = [tickets EXCEPT ![t] = closed]
          \/ tickets' = [tickets EXCEPT ![t] = expired]
      BY <3>1 DEF Close, RetryExpires
    <3> HIDE DEF closed, expired
    <3> QED BY <2>1, <3>3, <3>4 DEF TicketIds
  <2>3. CASE tickets' = tickets
    BY <2>1, <2>3 DEF TicketIds
  <2> QED BY <2>2, <2>3 DEF Edit, vars
<1> QED BY <1>1, <1>2 DEF WalkTypes, TypeOK, Typed

(* Every variable of the routing of acquires keeps its type.               *)
THEOREM RoutingTypesHold == Spec => []TypeOK
<1>1. RInv /\ [Next]_vars => RInv'
  BY BeginRInv, StepRInv, OthersRInv DEF Next
<1>2. WalkTypes /\ RInv /\ [Next]_vars => WalkTypes'
  BY BeginTypes, StepTypes, OthersTypes DEF Next
<1>3. WalkTypes => TypeOK
  BY DEF WalkTypes
<1> QED BY InitRInv, TypesInit, <1>1, <1>2, <1>3, PTL DEF Spec

=============================================================================
