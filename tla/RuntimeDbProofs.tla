--------------------------- MODULE RuntimeDbProofs ---------------------------
(***************************************************************************)
(* runtime.db, for every set of processes and workers, every size of the   *)
(* buffers and every bound: what the release-owner lease excludes          *)
(* (ReleaseOwner), and what the opening, the migrations and the units of   *)
(* work leave in the tables (RuntimeTables).                               *)
(*                                                                         *)
(* The lease.  LeaseInv says that the row is the lease of every covered    *)
(* pass.  It needs owner ids to be fresh (OwnersFresh) and clock readings  *)
(* not to lie in the future (ClockRead): a pass that asks with an old      *)
(* reading finds even fewer leases expired.                                *)
(*                                                                         *)
(* The tables.  Each action has a lemma (...Does) that says what it leaves *)
(* typed and what it changes; the four invariants are then proved from     *)
(* these lemmas:                                                           *)
(*   OpenInv    while no migration was cut, at most one process opens, and *)
(*              the file has the shape its next statement needs;           *)
(*   RowsInv    where the rows are, a migration being cut or not, as far   *)
(*              as the version and what the processes are at tell;         *)
(*   MemoryInv  each ticket in memory is in the file, or in the unit that  *)
(*              will write it, and no unit deletes it;                     *)
(*   SerialInv  what a start would load, were the one unit under way       *)
(*              written, is what is in memory, but for what was given up;  *)
(*              and were it given up, but for what it changed, too.        *)
(***************************************************************************)
EXTENDS RuntimeTables, ReleaseOwner, SelectionProofs, FiniteSetTheorems, TLAPS

-----------------------------------------------------------------------------
(* THE LEASE                                                               *)

(* Every pass under way carries an owner id already drawn and a clock      *)
(* reading that is not in the future.                                      *)
ClockRead ==
    \A h \in Hosts : pass[h].pc # "idle" =>
        pass[h].owner \in 1..ids /\ pass[h].at <= now

(* No two passes under way carry the same owner id.                        *)
OwnersFresh ==
    \A g, h \in Hosts :
        pass[g].pc # "idle" /\ pass[h].pc # "idle" /\ pass[g].owner = pass[h].owner
            => g = h

(* The row is the lease of every covered pass.                             *)
CoverHasRow ==
    \A h \in Hosts : Covered(h) =>
        row.owner = pass[h].owner /\ row.expires = pass[h].at + LeaseLen

LeaseInv == LeaseTypeOK /\ ClockRead /\ OwnersFresh /\ CoverHasRow

-----------------------------------------------------------------------------
(* The initial state satisfies the invariant: no pass is under way.        *)
LEMMA LeaseStarts == LeaseInit => LeaseInv
  BY LeaseAssumption DEF LeaseInit, LeaseInv, LeaseTypeOK, ClockRead, OwnersFresh, CoverHasRow,
     Covered, NoRow, NoPass

(* Every step preserves the invariant.                                     *)
LEMMA LeaseSteps == LeaseInv /\ [LeaseNext]_leaseVars => LeaseInv'
<1> SUFFICES ASSUME LeaseInv, [LeaseNext]_leaseVars PROVE LeaseInv'
  OBVIOUS
<1> USE LeaseAssumption, BoundAssumption
<1> USE DEF LeaseInv, LeaseTypeOK, ClockRead, OwnersFresh, CoverHasRow, Covered, NoRow, NoPass
<1>1. ASSUME NEW h \in Hosts, BeginPass(h) PROVE LeaseInv'
  <2>1. /\ ids' = ids + 1 /\ now' = now /\ row' = row
        /\ pass' = [pass EXCEPT ![h] = [pc |-> "asking", owner |-> ids + 1, at |-> now]]
    BY <1>1 DEF BeginPass
  <2>2. LeaseTypeOK'
    BY <2>1
  <2>3. ClockRead'
    BY <2>1
  <2>4. OwnersFresh'
    BY <2>1
  <2>5. CoverHasRow'
    BY <2>1
  <2> QED BY <2>2, <2>3, <2>4, <2>5
<1>2. ASSUME NEW h \in Hosts, Ask(h) PROVE LeaseInv'
  <2>1. CASE /\ Granted(row, pass[h].owner, pass[h].at)
             /\ row' = Lease(pass[h].owner, pass[h].at)
             /\ pass' = [pass EXCEPT ![h].pc = "inside"]
    <3>1. pass[h].pc = "asking" /\ now' = now /\ ids' = ids
      BY <1>2 DEF Ask
    <3>2. row' = [owner |-> pass[h].owner, expires |-> pass[h].at + LeaseLen]
      BY <2>1 DEF Lease
    <3>3. \A g \in Hosts : g # h => ~Covered(g)
      BY <2>1, <3>1 DEF Granted
    <3>4. LeaseTypeOK'
      BY <2>1, <3>1, <3>2
    <3>5. ClockRead' /\ OwnersFresh'
      BY <2>1, <3>1
    <3>6. CoverHasRow'
      BY <2>1, <3>1, <3>2, <3>3
    <3> QED BY <3>4, <3>5, <3>6
  <2>2. CASE pass' = [pass EXCEPT ![h] = NoPass] /\ UNCHANGED row
    BY <1>2, <2>2 DEF Ask
  <2> QED BY <1>2, <2>1, <2>2 DEF Ask
<1>3. ASSUME NEW h \in Hosts, Release(h) PROVE LeaseInv'
  <2>1. pass' = [pass EXCEPT ![h] = NoPass] /\ now' = now /\ ids' = ids
    BY <1>3 DEF Release
  <2>2. row' = row \/ (row.owner = pass[h].owner /\ row' = NoRow)
    BY <1>3 DEF Release
  <2>3. LeaseTypeOK' /\ ClockRead' /\ OwnersFresh'
    BY <2>1, <2>2
  <2>4. CoverHasRow'
    BY <1>3, <2>1, <2>2 DEF Release
  <2> QED BY <2>3, <2>4
<1>4. ASSUME NEW h \in Hosts, Crash(h) PROVE LeaseInv'
  BY <1>4 DEF Crash
<1>5. CASE Tick
  BY <1>5 DEF Tick
<1>6. CASE UNCHANGED leaseVars
  BY <1>6 DEF leaseVars
<1> QED BY <1>1, <1>2, <1>3, <1>4, <1>5, <1>6 DEF LeaseNext

(* The invariant implies mutual exclusion: two covered passes would both   *)
(* own the single row.                                                     *)
LEMMA LeaseExcludes == LeaseInv => LeaseExclusion
  BY DEF LeaseInv, CoverHasRow, OwnersFresh, LeaseExclusion, Covered

(* No step takes the row away from a covered pass that goes on.            *)
LEMMA NoTheft ==
  LeaseInv /\ [LeaseNext]_leaseVars =>
    [\A h \in Hosts :
        Covered(h) /\ pass'[h] = pass[h] => row'.owner = pass[h].owner]_leaseVars
<1> SUFFICES ASSUME LeaseInv, LeaseNext, NEW h \in Hosts, Covered(h), pass'[h] = pass[h]
             PROVE  row'.owner = pass[h].owner
  OBVIOUS
<1> USE DEF LeaseInv, LeaseTypeOK, ClockRead, OwnersFresh, CoverHasRow, Covered, NoRow, NoPass
<1>1. ASSUME NEW g \in Hosts, BeginPass(g) PROVE row' = row
  BY <1>1 DEF BeginPass
<1>2. ASSUME NEW g \in Hosts, Ask(g) PROVE row'.owner = pass[h].owner
  BY <1>2, LeaseAssumption DEF Ask, Granted, Lease
<1>3. ASSUME NEW g \in Hosts, Release(g) PROVE row'.owner = pass[h].owner
  BY <1>3 DEF Release
<1>4. ASSUME NEW g \in Hosts, Crash(g) PROVE row' = row
  BY <1>4 DEF Crash
<1>5. CASE Tick
  BY <1>5 DEF Tick
<1> QED BY <1>1, <1>2, <1>3, <1>4, <1>5 DEF LeaseNext

-----------------------------------------------------------------------------
(* The row and the passes keep their types: the expiry of a lease and the  *)
(* clock reading of a pass are moments of the clock.                       *)
THEOREM LeaseTypesHold == LeaseSpec => []LeaseTypeOK
<1>1. LeaseInv => LeaseTypeOK
  BY DEF LeaseInv
<1> QED BY LeaseStarts, LeaseSteps, <1>1, PTL DEF LeaseSpec

(* Two hosts are never inside the auto-release pass under an unexpired     *)
(* lease (acquire_release_owner).                                          *)
THEOREM Exclusion == LeaseSpec => []LeaseExclusion
  BY LeaseStarts, LeaseSteps, LeaseExcludes, PTL DEF LeaseSpec

(* The end of a pass never takes the lease of a covered pass of another    *)
(* host (release_release_owner).                                           *)
THEOREM NeverStolen == LeaseSpec => CoverNeverStolen
  BY LeaseStarts, LeaseSteps, NoTheft, PTL DEF LeaseSpec, CoverNeverStolen

-----------------------------------------------------------------------------
(* THE TABLES                                                              *)

(* The members of a set of row sets.                                       *)
LEMMA RowSetHas ==
    ASSUME NEW c \in Nat, NEW rows \in RowSets(c)
    PROVE  /\ DOMAIN rows \subseteq 0..c /\ IsFiniteSet(DOMAIN rows)
           /\ \A t \in DOMAIN rows : rows[t] \in Row(c)
           /\ rows = [t \in DOMAIN rows |-> rows[t]]
<1>1. PICK known \in SUBSET (0..c) : rows \in [known -> Row(c)]
  BY DEF RowSets
<1>2. DOMAIN rows = known /\ IsFiniteSet(0..c)
  BY <1>1, FS_Interval
<1> QED BY <1>1, <1>2, FS_Subset

LEMMA RowSetIs ==
    ASSUME NEW c \in Nat, NEW known \in SUBSET (0..c), NEW rows \in [known -> Row(c)]
    PROVE  rows \in RowSets(c)
  BY DEF RowSets

LEMMA RowSetsGrow ==
    ASSUME NEW c \in Nat, NEW d \in Nat, c <= d
    PROVE  Row(c) \subseteq Row(d) /\ RowSets(c) \subseteq RowSets(d)
<1>1. Row(c) \subseteq Row(d) /\ 0..c \subseteq 0..d
  BY DEF Row
<1>2. ASSUME NEW rows \in RowSets(c) PROVE rows \in RowSets(d)
  <2>1. DOMAIN rows \in SUBSET (0..d) /\ rows \in [DOMAIN rows -> Row(d)]
    BY <1>1, RowSetHas
  <2> QED BY <2>1, RowSetIs
<1> QED BY <1>1, <1>2

(* The rows of a buffer, in the order in which it drops them.              *)
RowOrder(rows) == {p \in (DOMAIN rows) \X (DOMAIN rows) : Older(rows, p[1], p[2])}

LEMMA RowsAreOrdered ==
    ASSUME NEW c \in Nat, NEW rows \in RowSets(c)
    PROVE  Orders(RowOrder(rows), DOMAIN rows)
<1> DEFINE D == DOMAIN rows
<1>1. \A t \in D : t \in Nat /\ rows[t].updated \in Nat
  BY RowSetHas DEF Row
<1>2. \A t, u \in D : <<t, u>> \in RowOrder(rows) <=> Older(rows, t, u)
  BY DEF RowOrder
<1>3. \A t, u, v \in D : Older(rows, t, u) /\ Older(rows, u, v) => Older(rows, t, v)
  BY <1>1 DEF Older
<1>4. \A t \in D : ~Older(rows, t, t)
  BY <1>1 DEF Older
<1>5. \A t, u \in D : t = u \/ Older(rows, t, u) \/ Older(rows, u, t)
  BY <1>1 DEF Older
<1> HIDE DEF D
<1> QED BY <1>2, <1>3, <1>4, <1>5 DEF Orders, D

(* What a buffer keeps are the last.                                       *)
KeptIds(rows) == DOMAIN rows \ Overflow(rows)

LEMMA KeptAreLast ==
    ASSUME NEW c \in Nat, NEW rows \in RowSets(c)
    PROVE  KeptIds(rows) = LastOf(RowOrder(rows), DOMAIN rows, TicketBuffer)
<1>1. ASSUME NEW t \in DOMAIN rows
      PROVE  {u \in DOMAIN rows : Older(rows, t, u)} = Beyond(RowOrder(rows), DOMAIN rows, t)
  BY DEF Beyond, RowOrder
<1>2. ASSUME NEW t \in DOMAIN rows
      PROVE  Cardinality(Beyond(RowOrder(rows), DOMAIN rows, t)) \in Nat
  BY FewerLater, RowsAreOrdered, RowSetHas
<1>3. TicketBuffer \in Nat
  BY TablesAssumption
<1> QED BY <1>1, <1>2, <1>3 DEF KeptIds, Overflow, LastOf

LEMMA Keeping ==
    ASSUME NEW c \in Nat, NEW rows \in RowSets(c)
    PROVE  /\ KeptIds(rows) \subseteq DOMAIN rows /\ IsFiniteSet(KeptIds(rows))
           /\ Cardinality(KeptIds(rows)) \in Nat /\ Cardinality(KeptIds(rows)) <= TicketBuffer
           /\ DOMAIN rows \ KeptIds(rows) # {} => Cardinality(KeptIds(rows)) >= TicketBuffer
           /\ \A t \in DOMAIN rows \ KeptIds(rows), u \in KeptIds(rows) : Older(rows, t, u)
<1> DEFINE R == RowOrder(rows)
           D == DOMAIN rows
<1>1. Orders(R, D) /\ IsFiniteSet(D) /\ TicketBuffer \in Nat
  BY RowsAreOrdered, RowSetHas, TablesAssumption
<1>2. KeptIds(rows) = LastOf(R, D, TicketBuffer)
  BY KeptAreLast
<1> HIDE DEF R, D
<1>3. /\ KeptIds(rows) \subseteq D /\ IsFiniteSet(KeptIds(rows))
      /\ Cardinality(KeptIds(rows)) \in Nat /\ Cardinality(KeptIds(rows)) <= TicketBuffer
  BY <1>1, <1>2, LastFit
<1>4. D \ KeptIds(rows) # {} => Cardinality(KeptIds(rows)) >= TicketBuffer
  BY <1>1, <1>2, LastFill
<1>5. ASSUME NEW t \in D \ KeptIds(rows), NEW u \in KeptIds(rows) PROVE Older(rows, t, u)
  <2>1. <<t, u>> \in R
    BY <1>1, <1>2, LastComeLater
  <2> QED BY <2>1 DEF R, RowOrder
<1> QED BY <1>3, <1>4, <1>5 DEF D

LEMMA KeptAre ==
    ASSUME NEW c \in Nat, NEW rows \in RowSets(c), NEW Z \in SUBSET (DOMAIN rows),
           Cardinality(Z) <= TicketBuffer,
           DOMAIN rows \ Z # {} => Cardinality(Z) >= TicketBuffer,
           \A t \in DOMAIN rows \ Z, u \in Z : Older(rows, t, u)
    PROVE  KeptIds(rows) = Z
<1> DEFINE R == RowOrder(rows)
           D == DOMAIN rows
<1>1. Orders(R, D) /\ IsFiniteSet(D) /\ TicketBuffer \in Nat
  BY RowsAreOrdered, RowSetHas, TablesAssumption
<1>2. \A t \in D \ Z, u \in Z : <<t, u>> \in R
  BY DEF RowOrder
<1> HIDE DEF R
<1>3. LastOf(R, D, TicketBuffer) = Z
  BY <1>1, <1>2, LastAre
<1> QED BY <1>3, KeptAreLast DEF R

(* The rows that a buffer keeps, as they are and normalised.               *)
LEMMA NewestHas ==
    ASSUME NEW c \in Nat, NEW rows \in RowSets(c)
    PROVE  /\ Newest(rows) \in RowSets(c) /\ DOMAIN Newest(rows) = KeptIds(rows)
           /\ \A t \in KeptIds(rows) : Newest(rows)[t] = rows[t]
<1>1. /\ KeptIds(rows) \subseteq DOMAIN rows /\ DOMAIN rows \subseteq 0..c
      /\ \A t \in DOMAIN rows : rows[t] \in Row(c)
  BY Keeping, RowSetHas
<1>2. Newest(rows) = [t \in KeptIds(rows) |-> rows[t]]
  BY DEF Newest, Restrict, KeptIds
<1>3. Newest(rows) \in [KeptIds(rows) -> Row(c)]
  BY <1>1, <1>2
<1>4. KeptIds(rows) \in SUBSET (0..c)
  BY <1>1
<1> QED BY <1>2, <1>3, <1>4, RowSetIs

LEMMA NormalizedHas ==
    ASSUME NEW c \in Nat, NEW rows \in RowSets(c)
    PROVE  /\ Normalized(rows) \in RowSets(c) /\ DOMAIN Normalized(rows) = KeptIds(rows)
           /\ Normalized(rows) = [t \in KeptIds(rows) |-> Named(rows[t])]
           /\ \A t \in KeptIds(rows) : Normalized(rows)[t] = Named(rows[t])
<1>1. /\ KeptIds(rows) \subseteq DOMAIN rows /\ DOMAIN rows \subseteq 0..c
      /\ \A t \in DOMAIN rows : rows[t] \in Row(c)
  BY Keeping, RowSetHas
<1>3. Normalized(rows) = [t \in KeptIds(rows) |-> Named(rows[t])]
  BY <1>1, NewestHas DEF Normalized
<1>4. \A t \in KeptIds(rows) : Named(rows[t]) \in Row(c)
  BY <1>1 DEF Named, Row
<1>5. Normalized(rows) \in [KeptIds(rows) -> Row(c)] /\ KeptIds(rows) \in SUBSET (0..c)
  BY <1>1, <1>3, <1>4
<1> QED BY <1>3, <1>5, RowSetIs

(* Rows that fit are all kept.                                             *)
LEMMA KeptAll ==
    ASSUME NEW c \in Nat, NEW rows \in RowSets(c), Cardinality(DOMAIN rows) <= TicketBuffer
    PROVE  KeptIds(rows) = DOMAIN rows
<1>1. DOMAIN rows \in SUBSET (DOMAIN rows) /\ DOMAIN rows \ DOMAIN rows = {}
  OBVIOUS
<1> QED BY <1>1, KeptAre

LEMMA NormalizedAgain ==
    ASSUME NEW c \in Nat, NEW rows \in RowSets(c)
    PROVE  Normalized(Normalized(rows)) = Normalized(rows)
<1> DEFINE n == Normalized(rows)
<1>1. /\ n \in RowSets(c) /\ DOMAIN n = KeptIds(rows)
      /\ n = [t \in KeptIds(rows) |-> Named(rows[t])]
      /\ \A t \in KeptIds(rows) : n[t] = Named(rows[t])
  BY NormalizedHas
<1> HIDE DEF n
<1>2. KeptIds(n) = KeptIds(rows)
  BY <1>1, Keeping, KeptAll
<1>3. Normalized(n) = [t \in KeptIds(n) |-> Named(n[t])]
  BY <1>1, NormalizedHas
<1>4. \A t \in KeptIds(n) : Named(n[t]) = n[t]
  BY <1>1, <1>2 DEF Named
<1> QED BY <1>1, <1>2, <1>3, <1>4 DEF n

(* w are the rows, and one of them, maybe a new one, is r.                 *)
IsWith(w, c, rows, t, r) ==
    /\ w \in RowSets(c) /\ DOMAIN w = DOMAIN rows \cup {t}
    /\ w[t] = r
    /\ \A u \in DOMAIN rows : u # t => w[u] = rows[u]

LEMMA WithHas ==
    ASSUME NEW c \in Nat, NEW rows \in RowSets(c), NEW t \in 0..c, NEW r \in Row(c)
    PROVE  IsWith(With(rows, t, r), c, rows, t, r)
<1> DEFINE one == [u \in {t} |-> r]
           known == DOMAIN rows \cup {t}
           w == [u \in known |-> IF u = t THEN r ELSE rows[u]]
<1>1. DOMAIN rows \subseteq 0..c /\ \A u \in DOMAIN rows : rows[u] \in Row(c)
  BY RowSetHas
<1>2. With(rows, t, r) = w
  <2>1. DOMAIN one = {t} /\ one[t] = r
    OBVIOUS
  <2>2. With(rows, t, r) = [u \in DOMAIN one \cup DOMAIN rows |->
                               IF u \in DOMAIN one THEN one[u] ELSE rows[u]]
    BY DEF With, Over
  <2> HIDE DEF one
  <2> QED BY <2>1, <2>2
<1>3. w \in [known -> Row(c)] /\ known \in SUBSET (0..c)
  BY <1>1
<1>4. w \in RowSets(c)
  <2> HIDE DEF w, known
  <2> QED BY <1>3, RowSetIs
<1> QED BY <1>2, <1>4 DEF IsWith

LEMMA RestrictHas ==
    ASSUME NEW c \in Nat, NEW rows \in RowSets(c), NEW S \in SUBSET (DOMAIN rows)
    PROVE  /\ Restrict(rows, S) \in RowSets(c) /\ DOMAIN Restrict(rows, S) = S
           /\ \A u \in S : Restrict(rows, S)[u] = rows[u]
<1>1. DOMAIN rows \subseteq 0..c /\ \A u \in DOMAIN rows : rows[u] \in Row(c)
  BY RowSetHas
<1>2. Restrict(rows, S) = [u \in S |-> rows[u]]
  BY DEF Restrict
<1>3. [u \in S |-> rows[u]] \in [S -> Row(c)] /\ S \in SUBSET (0..c)
  BY <1>1
<1> QED BY <1>2, <1>3, RowSetIs

(* Rows that are equal but for the names are kept alike.                   *)
LEMMA OlderAlike ==
    ASSUME NEW rows, NEW other, NEW t, NEW u, rows[t].updated = other[t].updated,
           rows[u].updated = other[u].updated
    PROVE  Older(rows, t, u) <=> Older(other, t, u)
  BY DEF Older

(* The rows that are written at a time.                                    *)
RowsAt(c) == {r \in Row(c) : Named(r) = r /\ r.updated = c}

(* Nothing was given up: the very same tickets.                            *)
LEMMA RecoversAll ==
    ASSUME NEW c \in Nat, NEW a \in RowSets(c), NEW b \in RowSets(c), Recovers(a, b, {})
    PROVE  a = b
<1>1. a = [t \in DOMAIN a |-> a[t]] /\ b = [t \in DOMAIN b |-> b[t]]
  BY RowSetHas
<1>2. DOMAIN a = DOMAIN b /\ \A t \in DOMAIN b : a[t] = b[t]
  BY DEF Recovers
<1> QED BY <1>1, <1>2

(* A ticket is acquired: what the unit makes of the rows of the file is, to *)
(* a start, what the memory holds, as far as it was before.                *)
LEMMA AcquireAgrees ==
    ASSUME NEW c \in Nat, NEW d \in Nat, c < d, NEW F \in RowSets(c), NEW M \in RowSets(c),
           NEW D, Recovers(Normalized(F), M, D), NEW r \in RowsAt(d)
    PROVE  LET Y == With(M, d, r)
               G == With(F, d, r)
           IN  Recovers(Normalized(Restrict(G, DOMAIN G \ Overflow(Y))), Newest(Y), D)
<1> DEFINE Y == With(M, d, r)
           G == With(F, d, r)
           K == KeptIds(F)
           Z == KeptIds(Y)
           O == DOMAIN F \ K
           X == DOMAIN G \ Overflow(Y)
           H == Restrict(G, X)
<1> HIDE DEF Y, G, K, Z, O, X, H
<1>1. /\ F \in RowSets(d) /\ M \in RowSets(d) /\ d \in 0..d /\ r \in Row(d)
      /\ DOMAIN F \subseteq 0..c /\ \A t \in DOMAIN F : F[t] \in Row(c)
  BY RowSetsGrow, RowSetHas DEF RowsAt
<1>2. /\ K \subseteq DOMAIN F /\ DOMAIN M = K
      /\ \A t \in K : Named(F[t]) = M[t] \/ M[t].updated \in D
      /\ O # {} => Cardinality(K) >= TicketBuffer
      /\ \A t \in O, u \in K : Older(F, t, u)
  BY NormalizedHas, Keeping DEF K, O, Recovers
<1>3. /\ Y \in RowSets(d) /\ DOMAIN Y = K \cup {d} /\ Y[d] = r
      /\ \A u \in K : u # d => Y[u] = M[u]
  <2>1. IsWith(Y, d, M, d, r)
    BY <1>1, WithHas DEF Y
  <2> QED BY <1>2, <2>1 DEF IsWith
<1>4. /\ G \in RowSets(d) /\ DOMAIN G = DOMAIN F \cup {d} /\ G[d] = r
      /\ \A u \in DOMAIN F : u # d => G[u] = F[u]
  <2>1. IsWith(G, d, F, d, r)
    BY <1>1, WithHas DEF G
  <2> QED BY <2>1 DEF IsWith
<1>5. d \notin DOMAIN F /\ d \notin K
  BY <1>1, <1>2
<1>6. /\ Z \subseteq DOMAIN Y /\ IsFiniteSet(Z) /\ Cardinality(Z) \in Nat
      /\ Cardinality(Z) <= TicketBuffer
      /\ DOMAIN Y \ Z # {} => Cardinality(Z) >= TicketBuffer
      /\ \A t \in DOMAIN Y \ Z, u \in Z : Older(Y, t, u)
  BY <1>3, Keeping DEF Z
<1>7. Overflow(Y) = DOMAIN Y \ Z
  BY <1>3 DEF KeptIds, Overflow, Z
<1>8. X = O \cup Z
  BY <1>2, <1>3, <1>4, <1>5, <1>6, <1>7 DEF X, O
<1>9. H \in RowSets(d) /\ DOMAIN H = X /\ \A u \in X : H[u] = G[u]
  BY <1>4, RestrictHas DEF H, X
<1>11. \A t \in O, u \in Z : Older(H, t, u)
  <2> SUFFICES ASSUME NEW t \in O, NEW u \in Z PROVE Older(H, t, u)
    OBVIOUS
  <2>1. t \in DOMAIN F /\ t # d /\ t \in X /\ u \in X
    BY <1>5, <1>8 DEF O
  <2>2. H[t] = F[t] /\ t \in Nat /\ F[t].updated \in 0..c
    BY <1>1, <1>4, <1>9, <2>1 DEF Row
  <2>3. CASE u = d
    <3>1. H[u].updated = d
      BY <1>4, <1>9, <2>1, <2>3 DEF RowsAt
    <3> QED BY <2>2, <3>1 DEF Older
  <2>4. CASE u # d
    <3>1. u \in K /\ H[u] = F[u]
      BY <1>2, <1>3, <1>4, <1>6, <1>9, <2>1, <2>4
    <3>2. Older(F, t, u)
      BY <1>2, <3>1
    <3> QED BY <2>2, <3>1, <3>2, OlderAlike
  <2> QED BY <2>3, <2>4
<1>12. O # {} => Cardinality(Z) >= TicketBuffer
  <2>1. ASSUME O # {}, Z = DOMAIN Y PROVE Cardinality(Z) >= TicketBuffer
    <3>1. Cardinality(K) \in Nat /\ Cardinality(K) >= TicketBuffer /\ TicketBuffer \in Nat
      BY <1>2, <2>1, Keeping, TablesAssumption DEF K
    <3>2. K \subseteq Z
      BY <1>3, <2>1
    <3>3. Cardinality(K) <= Cardinality(Z)
      BY <1>6, <3>2, FS_Subset
    <3> QED BY <1>6, <3>1, <3>3
  <2> QED BY <1>6, <2>1
<1>13. KeptIds(H) = Z
  BY <1>6, <1>8, <1>9, <1>11, <1>12, KeptAre
<1>14. DOMAIN Normalized(H) = Z /\ \A t \in Z : Normalized(H)[t] = Named(H[t])
  BY <1>9, <1>13, NormalizedHas
<1>15. DOMAIN Newest(Y) = Z /\ \A t \in Z : Newest(Y)[t] = Y[t]
  BY <1>3, NewestHas DEF Z
<1>16. \A t \in Z : Named(H[t]) = Y[t] \/ Y[t].updated \in D
  <2> SUFFICES ASSUME NEW t \in Z PROVE Named(H[t]) = Y[t] \/ Y[t].updated \in D
    OBVIOUS
  <2>1. t \in X /\ H[t] = G[t]
    BY <1>8, <1>9
  <2>2. CASE t = d
    BY <1>3, <1>4, <2>1, <2>2 DEF RowsAt
  <2>3. CASE t # d
    BY <1>2, <1>3, <1>4, <1>6, <2>1, <2>3
  <2> QED BY <2>2, <2>3
<1> QED BY <1>14, <1>15, <1>16 DEF H, X, G, Y, Recovers

(* A ticket that is kept is updated: the rows of the file with it written  *)
(* are, to a start, what the memory holds, as far as it was before; and    *)
(* without it, but for the update.                                         *)
LEMMA TouchAgrees ==
    ASSUME NEW c \in Nat, NEW d \in Nat, c < d, NEW F \in RowSets(c), NEW M \in RowSets(c),
           NEW D, Recovers(Normalized(F), M, D), NEW r \in RowsAt(d), NEW t \in DOMAIN M
    PROVE  /\ Recovers(Normalized(With(F, t, r)), [M EXCEPT ![t] = r], D)
           /\ Recovers(Normalized(F), [M EXCEPT ![t] = r], D \cup {d})
<1> DEFINE G == With(F, t, r)
           K == KeptIds(F)
           O == DOMAIN F \ K
<1> HIDE DEF G, K, O
<1>1. /\ F \in RowSets(d) /\ M \in RowSets(d) /\ r \in Row(d)
      /\ DOMAIN F \subseteq 0..c /\ \A u \in DOMAIN F : F[u] \in Row(c)
  BY RowSetsGrow, RowSetHas DEF RowsAt
<1>2. /\ K \subseteq DOMAIN F /\ DOMAIN M = K /\ IsFiniteSet(K)
      /\ \A u \in K : Named(F[u]) = M[u] \/ M[u].updated \in D
      /\ Cardinality(K) <= TicketBuffer
      /\ O # {} => Cardinality(K) >= TicketBuffer
      /\ \A x \in O, u \in K : Older(F, x, u)
  BY NormalizedHas, Keeping DEF K, O, Recovers
<1>3. t \in K /\ t \in 0..d /\ K \cup O = DOMAIN F
  <2>1. t \in K /\ K \cup O = DOMAIN F
    BY <1>2 DEF O
  <2>2. 0..c \subseteq 0..d
    OBVIOUS
  <2>3. t \in DOMAIN F
    BY <2>1
  <2> QED BY <1>1, <2>1, <2>2, <2>3
<1>4. /\ G \in RowSets(d) /\ DOMAIN G = DOMAIN F /\ G[t] = r
      /\ \A u \in DOMAIN F : u # t => G[u] = F[u]
  <2>1. IsWith(G, d, F, t, r)
    BY <1>1, <1>3, WithHas DEF G
  <2> QED BY <1>2, <1>3, <2>1 DEF IsWith
<1>5. ASSUME NEW x \in O, NEW u \in K PROVE Older(G, x, u)
  <2>1. x # t /\ G[x] = F[x] /\ x \in Nat /\ F[x].updated \in 0..c
    BY <1>1, <1>3, <1>4, <1>5 DEF O, Row
  <2>2. CASE u = t
    <3>1. G[u].updated = d
      BY <1>4, <2>2 DEF RowsAt
    <3> QED BY <2>1, <3>1 DEF Older
  <2>3. CASE u # t
    <3>1. G[u] = F[u] /\ Older(F, x, u)
      BY <1>2, <1>4, <2>3
    <3> QED BY <2>1, <3>1, OlderAlike
  <2> QED BY <2>2, <2>3
<1>6. KeptIds(G) = K
  <2>1. K \in SUBSET (DOMAIN G) /\ DOMAIN G \ K = O
    BY <1>2, <1>4 DEF O
  <2> QED BY <1>2, <1>4, <1>5, <2>1, KeptAre
<1>7. DOMAIN Normalized(G) = K /\ \A u \in K : Normalized(G)[u] = Named(G[u])
  BY <1>4, <1>6, NormalizedHas
<1>8. /\ DOMAIN [M EXCEPT ![t] = r] = K
      /\ \A u \in K : [M EXCEPT ![t] = r][u] = IF u = t THEN r ELSE M[u]
  <2>1. M = [u \in K |-> M[u]]
    BY <1>2, RowSetHas
  <2> QED BY <1>2, <2>1
<1>9. \A u \in K : IF u = t THEN Named(G[u]) = r /\ r.updated = d
                   ELSE Named(G[u]) = M[u] \/ M[u].updated \in D
  BY <1>2, <1>4 DEF RowsAt
<1>10. Recovers(Normalized(G), [M EXCEPT ![t] = r], D)
  BY <1>7, <1>8, <1>9 DEF Recovers
<1>11. DOMAIN Normalized(F) = K /\ \A u \in K : Normalized(F)[u] = Named(F[u])
  BY NormalizedHas DEF K
<1>12. Recovers(Normalized(F), [M EXCEPT ![t] = r], D \cup {d})
  BY <1>2, <1>8, <1>9, <1>11 DEF Recovers
<1> QED BY <1>10, <1>12 DEF G

-----------------------------------------------------------------------------
(* The log.                                                                *)
LogOrder == {p \in Nat \X Nat : p[1] < p[2]}

LEMMA LogsAreOrdered ==
    ASSUME NEW c \in Nat, NEW S \in SUBSET (0..c)
    PROVE  /\ IsFiniteSet(S) /\ Orders(LogOrder, S)
           /\ LastLogs(S) = LastOf(LogOrder, S, LogBuffer)
<1>1. IsFiniteSet(S)
  <2>1. IsFiniteSet(0..c)
    BY FS_Interval
  <2> QED BY <2>1, FS_Subset
<1>2. \A x, y \in S : x \in Nat /\ (<<x, y>> \in LogOrder <=> x < y)
  BY DEF LogOrder
<1>3. Orders(LogOrder, S)
  BY <1>2 DEF Orders
<1>4. ASSUME NEW l \in S PROVE {m \in S : m > l} = Beyond(LogOrder, S, l)
  BY <1>2 DEF Beyond
<1> QED BY <1>1, <1>3, <1>4 DEF LastLogs, LastOf

LEMMA LastLogsHas ==
    ASSUME NEW c \in Nat, NEW S \in SUBSET (0..c)
    PROVE  /\ LastLogs(S) \subseteq S /\ IsFiniteSet(LastLogs(S))
           /\ Cardinality(LastLogs(S)) \in Nat /\ Cardinality(LastLogs(S)) <= LogBuffer
           /\ S \ LastLogs(S) # {} => Cardinality(LastLogs(S)) >= LogBuffer
           /\ \A l \in S \ LastLogs(S), m \in LastLogs(S) : l < m
<1> DEFINE L == LastLogs(S)
<1>1. /\ IsFiniteSet(S) /\ Orders(LogOrder, S) /\ LogBuffer \in Nat
      /\ L = LastOf(LogOrder, S, LogBuffer)
  BY LogsAreOrdered, TablesAssumption
<1> HIDE DEF L
<1>2. /\ L \subseteq S /\ IsFiniteSet(L) /\ Cardinality(L) \in Nat
      /\ Cardinality(L) <= LogBuffer
  BY <1>1, LastFit
<1>3. S \ L # {} => Cardinality(L) >= LogBuffer
  BY <1>1, LastFill
<1>4. ASSUME NEW l \in S \ L, NEW m \in L PROVE l < m
  <2>1. <<l, m>> \in LogOrder
    BY <1>1, LastComeLater
  <2> QED BY <2>1 DEF LogOrder
<1> QED BY <1>2, <1>3, <1>4 DEF L

LEMMA LastLogsAre ==
    ASSUME NEW c \in Nat, NEW S \in SUBSET (0..c), NEW Z \in SUBSET S,
           Cardinality(Z) <= LogBuffer, S \ Z # {} => Cardinality(Z) >= LogBuffer,
           \A l \in S \ Z, m \in Z : l < m
    PROVE  LastLogs(S) = Z
<1>1. /\ IsFiniteSet(S) /\ Orders(LogOrder, S) /\ LogBuffer \in Nat
      /\ LastLogs(S) = LastOf(LogOrder, S, LogBuffer)
  BY LogsAreOrdered, TablesAssumption
<1>2. \A l \in S \ Z, m \in Z : <<l, m>> \in LogOrder
  BY DEF LogOrder
<1>3. LastOf(LogOrder, S, LogBuffer) = Z
  BY <1>1, <1>2, LastAre
<1> QED BY <1>1, <1>3

LEMMA LastLogsAgain ==
    ASSUME NEW c \in Nat, NEW S \in SUBSET (0..c)
    PROVE  LastLogs(LastLogs(S)) = LastLogs(S)
<1> DEFINE Z == LastLogs(S)
<1>1. Z \in SUBSET (0..c) /\ Z \in SUBSET Z /\ Z \ Z = {} /\ Cardinality(Z) <= LogBuffer
  BY LastLogsHas
<1> HIDE DEF Z
<1>2. LastLogs(Z) = Z
  BY <1>1, LastLogsAre
<1> QED BY <1>2 DEF Z

(* The ring that is loaded.                                                *)
RingOf(m, c) == m \in Seq(0..c) /\ Increases(m) /\ Len(m) <= LogBuffer

LEMMA RingIsLoaded ==
    ASSUME NEW c \in Nat, NEW S \in SUBSET (0..c)
    PROVE  /\ RingOf(Ascending(LastLogs(S)), c)
           /\ ToSet(Ascending(LastLogs(S))) = LastLogs(S)
<1> DEFINE Z == LastLogs(S)
<1>1. /\ Z \in SUBSET (0..c) /\ Z \subseteq Nat /\ IsFiniteSet(Z)
      /\ Cardinality(Z) <= LogBuffer
  <2>1. Z \subseteq S /\ IsFiniteSet(Z) /\ Cardinality(Z) <= LogBuffer
    BY LastLogsHas
  <2> HIDE DEF Z
  <2>2. S \subseteq 0..c /\ 0..c \subseteq Nat
    OBVIOUS
  <2> QED BY <2>1, <2>2
<1> HIDE DEF Z
<1>2. /\ Ascending(Z) \in Seq(Z) /\ Len(Ascending(Z)) = Cardinality(Z)
      /\ Increases(Ascending(Z)) /\ ToSet(Ascending(Z)) = Z
  BY <1>1, AscendingSorts
<1>3. Ascending(Z) \in Seq(0..c)
  BY <1>1, <1>2, SeqOfMore
<1> QED BY <1>1, <1>2, <1>3 DEF RingOf, Z

LEMMA IncreasesIsDistinct ==
    ASSUME NEW c \in Nat, NEW m \in Seq(0..c), Increases(m)
    PROVE  IsFiniteSet(ToSet(m)) /\ Cardinality(ToSet(m)) = Len(m) /\ ToSet(m) \subseteq 0..c
<1>1. DOMAIN m = 1..Len(m) /\ Len(m) \in Nat /\ \A i \in 1..Len(m) : m[i] \in 0..c
  OBVIOUS
<1>2. Distinct(m)
  <2> SUFFICES ASSUME NEW i \in 1..Len(m), NEW j \in 1..Len(m), m[i] = m[j] PROVE i = j
    BY DEF Distinct
  <2>1. ~(i < j) /\ ~(j < i)
    BY <1>1 DEF Increases
  <2> QED BY <1>1, <2>1
<1>3. ToSet(m) \subseteq 0..c
  BY <1>1 DEF ToSet
<1> QED BY <1>2, <1>3, DistinctCounts

(* An entry that is later than all others is pushed: the ring remains one. *)
LEMMA RingGrows ==
    ASSUME NEW c \in Nat, NEW m, RingOf(m, c), NEW s \in 0..c, \A l \in ToSet(m) : l < s
    PROVE  /\ RingOf(Ring(Append(m, s)), c)
           /\ s \in ToSet(Ring(Append(m, s)))
           /\ ToSet(Ring(Append(m, s))) \subseteq ToSet(m) \cup {s}
           /\ \A l \in ToSet(m) \ ToSet(Ring(Append(m, s))), k \in ToSet(Ring(Append(m, s))) : l < k
           /\ ToSet(m) \ ToSet(Ring(Append(m, s))) # {} => Len(Ring(Append(m, s))) >= LogBuffer
           /\ Len(m) >= LogBuffer => Len(Ring(Append(m, s))) >= LogBuffer
<1> DEFINE a == Append(m, s)
           n == Ring(a)
           k == Len(m)
           B == LogBuffer
<1>1. /\ m \in Seq(0..c) /\ k \in Nat /\ DOMAIN m = 1..k /\ \A i \in 1..k : m[i] \in 0..c
      /\ B \in Nat \ {0} /\ k <= B
  BY TablesAssumption DEF RingOf
<1>2. /\ a \in Seq(0..c) /\ Len(a) = k + 1 /\ DOMAIN a = 1..(k + 1) /\ a[k + 1] = s
      /\ \A i \in 1..k : a[i] = m[i]
  BY <1>1
<1>3. ToSet(m) = {m[i] : i \in 1..k}
  BY <1>1 DEF ToSet
<1>4. \A i, j \in 1..(k + 1) : i < j => a[i] < a[j]
  <2> SUFFICES ASSUME NEW i \in 1..(k + 1), NEW j \in 1..(k + 1), i < j PROVE a[i] < a[j]
    OBVIOUS
  <2>1. i \in 1..k /\ a[i] = m[i] /\ m[i] \in ToSet(m)
    BY <1>1, <1>2, <1>3
  <2>2. CASE j = k + 1
    BY <1>2, <2>1, <2>2
  <2>3. CASE j # k + 1
    <3>1. j \in 1..k /\ a[j] = m[j]
      BY <1>1, <1>2, <2>3
    <3> QED BY <1>1, <2>1, <3>1 DEF RingOf, Increases
  <2> QED BY <2>2, <2>3
<1> HIDE DEF a, n, k, B
<1>5. CASE k = B
  <2>1. n = Tail(a)
    BY <1>1, <1>2, <1>5 DEF n, Ring, B
  <2>2. /\ n \in Seq(0..c) /\ Len(n) = k /\ DOMAIN n = 1..k
        /\ \A i \in 1..k : n[i] = a[i + 1]
    BY <1>1, <1>2, <2>1
  <2>3. Increases(n)
    <3> SUFFICES ASSUME NEW i \in 1..k, NEW j \in 1..k, i < j PROVE n[i] < n[j]
      BY <2>2 DEF Increases
    <3>1. k \in Nat
      BY <1>1
    <3>2. i + 1 \in 1..(k + 1) /\ j + 1 \in 1..(k + 1) /\ i + 1 < j + 1
      BY <3>1
    <3>3. a[i + 1] < a[j + 1]
      BY <1>4, <3>2
    <3>4. \A x \in 1..k : n[x] = a[x + 1]
      BY <2>2
    <3> QED BY <3>3, <3>4
  <2>4. ToSet(n) = {n[i] : i \in 1..k}
    BY <2>2 DEF ToSet
  <2>5. n[k] = s /\ k \in 1..k
    BY <1>1, <1>2, <1>5, <2>2
  <2>6. \A i \in 1..k : i # 1 => m[i] \in ToSet(n)
    <3> SUFFICES ASSUME NEW i \in 1..k, i # 1 PROVE m[i] \in ToSet(n)
      OBVIOUS
    <3>1. i - 1 \in 1..k /\ n[i - 1] = m[i]
      BY <1>1, <1>2, <2>2
    <3> QED BY <2>4, <3>1
  <2>7. \A i \in 1..k : n[i] \in ToSet(m) \cup {s}
    <3> SUFFICES ASSUME NEW i \in 1..k, i # k PROVE n[i] \in ToSet(m)
      BY <2>5
    <3>1. i + 1 \in 1..k /\ n[i] = m[i + 1]
      BY <1>1, <1>2, <2>2
    <3> QED BY <1>3, <3>1
  <2>8. ASSUME NEW l \in ToSet(m) \ ToSet(n), NEW x \in ToSet(n) PROVE l < x
    <3>1. l = m[1] /\ 1 \in 1..k
      BY <1>1, <1>3, <2>5, <2>6
    <3>2. PICK i \in 1..k : x = n[i]
      BY <2>4
    <3>3. l = a[1] /\ x = a[i + 1] /\ 1 \in 1..(k + 1) /\ i + 1 \in 1..(k + 1) /\ 1 < i + 1
      BY <1>1, <1>2, <2>2, <3>1, <3>2
    <3> QED BY <1>4, <3>3
  <2>9. RingOf(n, c) /\ Len(n) >= B
    BY <1>1, <1>5, <2>2, <2>3 DEF RingOf, B
  <2> QED BY <2>4, <2>5, <2>7, <2>8, <2>9 DEF n, a, B
<1>6. CASE k # B
  <2>1. n = a
    BY <1>1, <1>2, <1>6 DEF n, Ring, B
  <2>2. Increases(n)
    BY <1>2, <1>4, <2>1 DEF Increases
  <2>3. ToSet(n) = ToSet(m) \cup {s}
    BY <1>1, <2>1, ToSetOfAppend DEF a
  <2>4. RingOf(n, c)
    BY <1>1, <1>2, <1>6, <2>1, <2>2 DEF RingOf, B
  <2>5. ~(k >= B)
    BY <1>1, <1>6
  <2> QED BY <2>3, <2>4, <2>5 DEF n, a, k, B
<1> QED BY <1>5, <1>6

(* The log that a start loads is that of the ring, but for what was given  *)
(* up, whose place older entries may take.                                 *)
LogRecovers(last, m, given) ==
    /\ ToSet(m) \ given \subseteq last
    /\ \A l \in last \ ToSet(m), k \in ToSet(m) : l < k
    /\ last \ ToSet(m) # {} => Len(m) >= LogBuffer

LEMMA RecoversMore ==
    ASSUME NEW D, NEW E, D \subseteq E
    PROVE  /\ \A a, b : Recovers(a, b, D) => Recovers(a, b, E)
           /\ \A a, m : LogRecovers(a, m, D) => LogRecovers(a, m, E)
  BY DEF Recovers, LogRecovers

(* An entry of a log that is later than all others is among the last.      *)
LEMMA LastIsKept ==
    ASSUME NEW c \in Nat, NEW S \in SUBSET (0..c), NEW s \in S, \A l \in S : l = s \/ l < s
    PROVE  s \in LastLogs(S)
<1>1. {x \in S : x > s} = {}
  <2> SUFFICES ASSUME NEW x \in S PROVE ~(x > s)
    OBVIOUS
  <2>1. x \in Nat /\ s \in Nat /\ (x = s \/ x < s)
    OBVIOUS
  <2> QED BY <2>1
<1>2. Cardinality({}) = 0 /\ LogBuffer \in Nat \ {0}
  BY FS_EmptySet, TablesAssumption
<1> QED BY <1>1, <1>2 DEF LastLogs

(* What is not among the last is not when there are more.                  *)
LEMMA LastShrinks ==
    ASSUME NEW c \in Nat, NEW F \in SUBSET (0..c), NEW S \in SUBSET (0..c), F \subseteq S
    PROVE  LastLogs(S) \cap F \subseteq LastLogs(F)
<1> SUFFICES ASSUME NEW l \in LastLogs(S), l \in F, l \notin LastLogs(F) PROVE FALSE
  OBVIOUS
<1> DEFINE L == LastLogs(F)
           B == {x \in S : x > l}
<1>1. /\ L \subseteq F /\ Cardinality(L) \in Nat /\ Cardinality(L) >= LogBuffer
      /\ \A m \in L : l < m
  BY LastLogsHas
<1>2. Cardinality(B) < LogBuffer /\ LogBuffer \in Nat
  BY TablesAssumption DEF LastLogs
<1>3. IsFiniteSet(B)
  <2>1. IsFiniteSet(S) /\ B \subseteq S
    BY LogsAreOrdered
  <2> QED BY <2>1, FS_Subset
<1>4. L \subseteq B
  BY <1>1
<1> HIDE DEF L, B
<1>5. Cardinality(L) <= Cardinality(B) /\ Cardinality(B) \in Nat
  BY <1>3, <1>4, FS_Subset, FS_CardinalityType
<1> QED BY <1>1, <1>2, <1>5

(* An entry is pushed: what a start loads is that of the ring, as far as   *)
(* it was before, after the entry was written to the file; and if it is    *)
(* not written, but for the entry.                                         *)
LEMMA PushAgrees ==
    ASSUME NEW c \in Nat, NEW F \in SUBSET (0..c), NEW m, RingOf(m, c),
           NEW D, LogRecovers(LastLogs(F), m, D),
           NEW s \in 0..c, \A l \in F \cup ToSet(m) : l < s
    PROVE  LET n == Ring(Append(m, s))
           IN  /\ RingOf(n, c)
               /\ LogRecovers(LastLogs(F \cup {s}), n, D)
               /\ LogRecovers(LastLogs(F), n, D \cup {s})
<1> DEFINE n == Ring(Append(m, s))
           Z == ToSet(n)
           S == F \cup {s}
           M == ToSet(m)
           L == LastLogs(F)
           N == LastLogs(S)
<1>1. /\ RingOf(n, c) /\ s \in Z /\ Z \subseteq M \cup {s}
      /\ \A l \in M \ Z, k \in Z : l < k
      /\ M \ Z # {} => Len(n) >= LogBuffer
      /\ Len(m) >= LogBuffer => Len(n) >= LogBuffer
  BY RingGrows
<1>2. Cardinality(Z) = Len(n) /\ Len(n) <= LogBuffer /\ IsFiniteSet(Z) /\ Len(n) \in Nat
      /\ Z \subseteq 0..c /\ LogBuffer \in Nat
  <2>1. n \in Seq(0..c) /\ Increases(n) /\ Len(n) <= LogBuffer
    BY <1>1 DEF RingOf
  <2> HIDE DEF n
  <2> QED BY <2>1, IncreasesIsDistinct, TablesAssumption
<1>3. /\ M \ D \subseteq L /\ \A l \in L \ M, k \in M : l < k
      /\ L \ M # {} => Len(m) >= LogBuffer
  BY DEF LogRecovers
<1>4. L \subseteq F /\ \A l \in F \ L, k \in L : l < k
  BY LastLogsHas
<1>5. S \in SUBSET (0..c) /\ F \subseteq S /\ N \subseteq S
  <2>1. S \in SUBSET (0..c) /\ F \subseteq S
    OBVIOUS
  <2> HIDE DEF S
  <2> QED BY <2>1, LastLogsHas
<1>6. s \in N
  <2>1. s \in S /\ \A l \in S : l = s \/ l < s
    OBVIOUS
  <2> HIDE DEF S
  <2> QED BY <1>5, <2>1, LastIsKept
<1>7. N \cap F \subseteq L
  <2> HIDE DEF S
  <2> QED BY <1>5, LastShrinks
<1> HIDE DEF n, Z, M, L, N
<1>8. ASSUME NEW k \in Z \ D, k # s PROVE k \in N
  <2> DEFINE B == {x \in S : x > k}
             R == Z \ {k}
  <2>1. k \in M /\ k \in L /\ k \in F /\ k \in 0..c
    BY <1>1, <1>2, <1>3, <1>4, <1>8
  <2>2. \A x \in F : x > k => x \in Z
    <3> SUFFICES ASSUME NEW x \in F, x > k, x \notin Z PROVE FALSE
      OBVIOUS
    <3>1. x \in 0..c /\ ~(x < k)
      BY <2>1
    <3>2. x \in L
      BY <1>4, <2>1, <3>1
    <3>3. x \in M
      BY <1>3, <2>1, <3>1, <3>2
    <3> QED BY <1>1, <1>8, <3>1, <3>3
  <2>3. B \subseteq R
    <3> SUFFICES ASSUME NEW x \in S, x > k PROVE x \in Z /\ x # k
      OBVIOUS
    <3>1. x \in Z
      <4>1. CASE x = s
        BY <1>1, <4>1
      <4>2. CASE x # s
        BY <2>2, <4>2
      <4> QED BY <4>1, <4>2
    <3> QED BY <2>1, <3>1
  <2>4. Cardinality(R) = Len(n) - 1 /\ IsFiniteSet(R)
    BY <1>2, <1>8, FS_RemoveElement
  <2>5. Cardinality(B) < LogBuffer
    <3> HIDE DEF B, R
    <3>1. Cardinality(B) <= Cardinality(R) /\ Cardinality(B) \in Nat
      BY <2>3, <2>4, FS_Subset, FS_CardinalityType
    <3> QED BY <1>2, <2>4, <3>1
  <2>6. k \in S
    BY <1>5, <2>1
  <2> HIDE DEF S
  <2> QED BY <2>5, <2>6 DEF LastLogs, N
<1>9. ASSUME NEW l \in L \cup N, l \notin Z PROVE Len(n) >= LogBuffer /\ \A k \in Z : l < k
  <2>1. l \in F /\ l \in L /\ l \in 0..c /\ l < s
    BY <1>1, <1>4, <1>5, <1>7, <1>9
  <2>2. CASE l \in M
    BY <1>1, <1>9, <2>2
  <2>3. CASE l \notin M
    BY <1>1, <1>3, <2>1, <2>3
  <2> QED BY <2>2, <2>3
<1>10. LogRecovers(N, n, D)
  <2>1. Z \ D \subseteq N
    BY <1>6, <1>8
  <2> QED BY <1>9, <2>1 DEF LogRecovers, Z
<1>11. LogRecovers(L, n, D \cup {s})
  <2>1. Z \ (D \cup {s}) \subseteq L
    BY <1>1, <1>3
  <2> QED BY <1>9, <2>1 DEF LogRecovers, Z
<1> QED BY <1>1, <1>10, <1>11 DEF n, N, L

(* With nothing given up since, it is the very same log; else an older     *)
(* entry has taken the place of one that was.                              *)
LEMMA OlderForDropped ==
    ASSUME NEW c \in Nat, NEW F \in SUBSET (0..c), NEW m, RingOf(m, c), NEW D,
           LogRecovers(LastLogs(F), m, D), LastLogs(F) \ ToSet(m) # {}
    PROVE  ToSet(m) \cap D # {}
<1> SUFFICES ASSUME ToSet(m) \cap D = {} PROVE FALSE
  OBVIOUS
<1> DEFINE M == ToSet(m)
           L == LastLogs(F)
<1>1. IsFiniteSet(M) /\ Cardinality(M) = Len(m) /\ Len(m) \in Nat
  BY IncreasesIsDistinct DEF RingOf
<1>2. IsFiniteSet(L) /\ Cardinality(L) \in Nat /\ Cardinality(L) <= LogBuffer
  BY LastLogsHas
<1>3. M \subseteq L /\ L \ M # {} /\ Len(m) >= LogBuffer /\ LogBuffer \in Nat
  BY TablesAssumption DEF LogRecovers
<1> HIDE DEF M, L
<1>4. Cardinality(M) = Cardinality(L)
  <2>1. Cardinality(M) <= Cardinality(L)
    BY <1>2, <1>3, FS_Subset
  <2> QED BY <1>1, <1>2, <1>3, <2>1
<1>5. M = L
  BY <1>2, <1>3, <1>4, FS_Subset
<1> QED BY <1>3, <1>5

(* The types grow with the clock.                                          *)
LEMMA TypesGrow ==
    ASSUME NEW c \in Nat, NEW d \in Nat, c <= d
    PROVE  /\ Tables(c) \subseteq Tables(d) /\ Files(c) \subseteq Files(d)
           /\ Loads(c) \subseteq Loads(d) /\ Memories(c) \subseteq Memories(d)
           /\ Units(c) \subseteq Units(d)
<1>1. Row(c) \subseteq Row(d) /\ RowSets(c) \subseteq RowSets(d) /\ 0..c \subseteq 0..d
  BY RowSetsGrow
<1>2. SUBSET (0..c) \subseteq SUBSET (0..d)
  BY <1>1
<1>3. Tables(c) \subseteq Tables(d)
  BY <1>1 DEF Tables
<1>4. Files(c) \subseteq Files(d)
  BY <1>2, <1>3 DEF Files
<1>5. Loads(c) \subseteq Loads(d)
  BY <1>1, <1>2 DEF Loads
<1>6. Memories(c) \subseteq Memories(d)
  <2>1. ASSUME NEW m \in Seq(0..c) PROVE m \in Seq(0..d)
    BY <1>1, SeqOfMore
  <2> QED BY <1>1, <2>1 DEF Memories
<1>7. Units(c) \subseteq Units(d)
  BY <1>1, <1>2 DEF Units
<1> QED BY <1>3, <1>4, <1>5, <1>6, <1>7

(* Nothing is in the file, or in the memory.                               *)
LEMMA NoRowsIs == ASSUME NEW c \in Nat PROVE NoRows \in RowSets(c) /\ DOMAIN NoRows = {}
<1>1. DOMAIN NoRows = {} /\ NoRows \in [{} -> Row(c)]
  BY DEF NoRows
<1> QED BY <1>1, RowSetIs

LEMMA TablesAreThere ==
    ASSUME NEW c \in 0..MaxClock, NEW columns \in {"payload", "columns"}, NEW rows \in RowSets(c)
    PROVE  /\ Table(columns, rows) \in Tables(c) /\ Table(columns, rows) # Absent
           /\ Table(columns, rows).columns = columns /\ Table(columns, rows).rows = rows
<1>1. c \in Nat /\ MaxClock \in Nat /\ c <= MaxClock
  BY TablesAssumption
<1>2. Table(columns, rows) \in Tables(c)
  BY DEF Table, Tables
<1>3. Absent \notin Tables(c)
  BY <1>1, TypesGrow, DatabasesAssumption
<1> QED BY <1>2, <1>3 DEF Table

(* A file whose tickets are there, with other rows and logs.               *)
Wrote(g, f, rows, logs) ==
    /\ g.tickets = Table(f.tickets.columns, rows) /\ g.logs = logs
    /\ g.legacy = f.legacy /\ g.version = f.version

LEMMA RowsWritten ==
    ASSUME NEW c \in 0..MaxClock, NEW f \in Files(c), f.tickets # Absent,
           NEW rows \in RowSets(c), NEW logs \in SUBSET (0..c)
    PROVE  LET g == [f EXCEPT !.tickets.rows = rows, !.logs = logs]
           IN  g \in Files(c) /\ Wrote(g, f, rows, logs)
<1> DEFINE t == [f.tickets EXCEPT !.rows = rows]
           g == [f EXCEPT !.tickets = t, !.logs = logs]
<1>1. f.tickets \in Tables(c)
  BY DEF Files
<1>2. t = Table(f.tickets.columns, rows) /\ t \in Tables(c)
  BY <1>1 DEF Tables, Table
<1> HIDE DEF t
<1>3. g \in Files(c) /\ g.tickets = t /\ g.logs = logs /\ g.legacy = f.legacy
      /\ g.version = f.version
  BY <1>2 DEF Files
<1>4. [f EXCEPT !.tickets.rows = rows, !.logs = logs] = g
  BY DEF t, Files
<1> QED BY <1>2, <1>3, <1>4 DEF Wrote

(* A process goes on to a stage; it has loaded rows and logs.              *)
Moves(q, p, h, stage) ==
    /\ q[h].stage = stage /\ q[h].rows = p[h].rows /\ q[h].logs = p[h].logs
    /\ \A g \in Processes : g # h => q[g] = p[g]

LEMMA MovesTo ==
    ASSUME NEW c, NEW p \in [Processes -> Loads(c)], NEW h \in Processes, NEW stage \in Stages
    PROVE  LET q == [p EXCEPT ![h].stage = stage]
           IN  q \in [Processes -> Loads(c)] /\ Moves(q, p, h, stage)
<1> DEFINE l == [p[h] EXCEPT !.stage = stage]
           q == [p EXCEPT ![h] = l]
<1>1. p[h] \in Loads(c)
  OBVIOUS
<1>2. l \in Loads(c) /\ l.stage = stage /\ l.rows = p[h].rows /\ l.logs = p[h].logs
  BY <1>1 DEF Loads
<1> HIDE DEF l
<1>3. q \in [Processes -> Loads(c)] /\ q[h] = l /\ \A g \in Processes : g # h => q[g] = p[g]
  BY <1>2
<1>4. [p EXCEPT ![h].stage = stage] = q
  BY DEF l
<1> QED BY <1>2, <1>3, <1>4 DEF Moves

LEMMA ToMoves ==
    ASSUME TypeOK, NEW h \in Processes, NEW stage \in Stages, To(h, stage)
    PROVE  process' \in [Processes -> Loads(clock)] /\ Moves(process', process, h, stage)
  BY MovesTo DEF To, TypeOK

(* The initial clock is not behind.                                        *)
LEMMA GreatestNumber ==
    ASSUME NEW n \in Nat, NEW S \in SUBSET (0..n), S # {}
    PROVE  Max(S) \in S /\ \A x \in S : x <= Max(S)
<1> DEFINE T == {n - x : x \in S}
<1>1. T \in SUBSET Nat /\ T # {}
  <2>1. ASSUME NEW x \in S PROVE n - x \in Nat
    OBVIOUS
  <2>2. PICK x : x \in S
    OBVIOUS
  <2> QED BY <2>1, <2>2
<1>2. PICK m \in T : \A k \in T : m <= k
  BY <1>1, LeastNumber
<1>3. PICK x \in S : m = n - x
  BY <1>2
<1>4. ASSUME NEW y \in S PROVE x >= y
  <2>1. m <= n - y
    BY <1>2
  <2> QED BY <1>3, <2>1
<1>5. Max(S) \in S /\ \A y \in S : Max(S) >= y
  BY <1>4 DEF Max
<1> QED BY <1>5

LEMMA InitTypes == Init => TypeOK
<1> SUFFICES ASSUME Init PROVE TypeOK
  OBVIOUS
<1>1. file \in Files(MaxClock) /\ Whole(file) /\ MaxClock \in Nat
  BY DatabasesAssumption, TablesAssumption DEF Init
<1>2. file.tickets \in Tables(MaxClock) \cup {Absent} /\ file.logs \in SUBSET (0..MaxClock)
      /\ file.version \in {0, 2, 3} /\ file.legacy = Absent
      /\ file = [tickets |-> file.tickets, legacy |-> Absent, logs |-> file.logs,
                  version |-> file.version]
  BY <1>1 DEF Files, Whole
<1> DEFINE S == {0} \cup Times(file)
           rows == file.tickets.rows
<1>3. file.tickets # Absent => rows \in RowSets(MaxClock)
  BY <1>2 DEF Tables
<1>4. ASSUME NEW t \in Rows(file.tickets)
      PROVE  file.tickets # Absent /\ t \in DOMAIN rows /\ t \in 0..MaxClock
             /\ rows[t] \in Row(MaxClock) /\ rows[t].updated \in 0..MaxClock
  <2>1. file.tickets # Absent /\ t \in DOMAIN rows
    BY DEF Rows
  <2>2. t \in 0..MaxClock /\ rows[t] \in Row(MaxClock)
    BY <1>1, <1>3, <2>1, RowSetHas
  <2> QED BY <2>1, <2>2 DEF Row
<1>5. S \in SUBSET (0..MaxClock) /\ S # {}
  BY <1>1, <1>2, <1>4 DEF Times
<1>6. clock \in S /\ \A x \in S : x <= clock
  BY <1>1, <1>5, GreatestNumber DEF Init
<1>7. clock \in 0..MaxClock /\ clock \in Nat
  BY <1>1, <1>5, <1>6
<1>8. ASSUME file.tickets # Absent PROVE rows \in RowSets(clock)
  <2>1. DOMAIN rows = Rows(file.tickets)
    BY <1>8 DEF Rows
  <2>2. ASSUME NEW t \in DOMAIN rows PROVE t \in 0..clock /\ rows[t] \in Row(clock)
    <3>1. t \in S /\ rows[t].updated \in S
      BY <2>1 DEF Times
    <3>2. t <= clock /\ rows[t].updated <= clock
      BY <1>6, <3>1
    <3>3. t \in 0..MaxClock /\ rows[t] \in Row(MaxClock)
      BY <1>4, <2>1
    <3>4. t \in 0..clock
      BY <1>7, <3>2, <3>3
    <3>5. rows[t] \in Row(clock)
      BY <1>7, <3>2, <3>3 DEF Row
    <3> QED BY <3>4, <3>5
  <2>3. rows \in [DOMAIN rows -> Row(clock)] /\ DOMAIN rows \in SUBSET (0..clock)
    <3>1. rows = [t \in DOMAIN rows |-> rows[t]]
      BY <1>1, <1>3, <1>8, RowSetHas
    <3> QED BY <2>2, <3>1
  <2> QED BY <1>7, <2>3, RowSetIs
<1>9. file.tickets \in Tables(clock) \cup {Absent}
  BY <1>2, <1>8 DEF Tables
<1>10. file.logs \subseteq 0..clock
  <2>1. \A l \in file.logs : l \in S /\ l \in 0..MaxClock
    BY <1>2 DEF Times
  <2>2. \A l \in file.logs : l <= clock
    BY <1>6, <2>1
  <2> QED BY <1>7, <2>1, <2>2
<1>11. file \in Files(clock)
  BY <1>2, <1>9, <1>10 DEF Files
<1>12. NoRows \in RowSets(clock) /\ Cardinality(DOMAIN NoRows) = 0
  BY <1>7, NoRowsIs, FS_EmptySet
<1>13. Off \in Loads(clock)
  BY <1>12 DEF Off, Loads, Stages
<1>14. [tickets |-> NoRows, logs |-> <<>>] \in Memories(clock) /\ Len(<<>>) = 0
  BY <1>12 DEF Memories
<1>15. NoUnit \in Units(clock)
  BY DEF NoUnit, Units
<1>16. /\ process = [h \in Processes |-> Off] /\ unit = [w \in Workers |-> NoUnit]
       /\ memory = [tickets |-> NoRows, logs |-> <<>>] /\ starts = 0
       /\ cut = FALSE /\ crossed = FALSE /\ failed = FALSE /\ dropped = {}
  BY DEF Init
<1>17. memory.tickets = NoRows /\ memory.logs = <<>>
  BY <1>16
<1>18. Cardinality(DOMAIN memory.tickets) <= TicketBuffer /\ Len(memory.logs) <= LogBuffer
  BY <1>12, <1>14, <1>17, TablesAssumption
<1>19. starts \in 0..MaxStarts /\ dropped \in SUBSET (0..MaxClock)
  BY <1>16, TablesAssumption
<1> HIDE DEF S, rows
<1>20. /\ process \in [Processes -> Loads(clock)] /\ unit \in [Workers -> Units(clock)]
       /\ memory \in Memories(clock) /\ cut \in BOOLEAN /\ crossed \in BOOLEAN
       /\ failed \in BOOLEAN
  BY <1>13, <1>14, <1>15, <1>16
<1> QED BY <1>7, <1>11, <1>18, <1>19, <1>20 DEF TypeOK

(* A statement of the opening: the process goes on, from one stage to the  *)
(* next, and nothing changes but the file.                                 *)
Opened(h, from, to) ==
    At(h, from) /\ Moves(process', process, h, to) /\ Quiet /\ UNCHANGED cut

FilePut(tickets, legacy, version) ==
    /\ file'.tickets = tickets /\ file'.legacy = legacy /\ file'.version = version
    /\ file'.logs = file.logs

GivesUp(h, from) == Opened(h, from, "memory") /\ file' = file

LEMMA OpenedTypes ==
    ASSUME TypeOK, NEW h \in Processes, NEW from, NEW to \in Stages,
           At(h, from), To(h, to), Quiet, UNCHANGED cut, file' \in Files(clock)
    PROVE  Opened(h, from, to) /\ TypeOK'
<1>1. process' \in [Processes -> Loads(clock)] /\ Moves(process', process, h, to)
  BY ToMoves
<1>2. TypeOK'
  BY <1>1 DEF TypeOK, Quiet
<1> QED BY <1>1, <1>2 DEF Opened

LEMMA FileHas ==
    ASSUME TypeOK
    PROVE  /\ clock \in 0..MaxClock /\ clock \in Nat /\ MaxClock \in Nat
           /\ file.tickets \in Tables(clock) \cup {Absent}
           /\ file.legacy \in Tables(clock) \cup {Absent}
           /\ Absent \notin Tables(clock)
           /\ file.version \in {0, 2, 3} /\ file.logs \in SUBSET (0..clock)
           /\ file \in Files(clock)
           /\ \A t \in Tables(clock) : /\ t.columns \in {"payload", "columns"} /\ t.rows \in RowSets(clock)
                                       /\ t = Table(t.columns, t.rows)
<1>1. clock \in 0..MaxClock /\ clock \in Nat /\ MaxClock \in Nat /\ clock <= MaxClock
  BY TablesAssumption DEF TypeOK
<1>2. Absent \notin Tables(clock)
  BY <1>1, TypesGrow, DatabasesAssumption
<1>3. ASSUME NEW t \in Tables(clock)
      PROVE  t.columns \in {"payload", "columns"} /\ t.rows \in RowSets(clock) /\ t = Table(t.columns, t.rows)
  BY DEF Tables, Table
<1>4. file \in Files(clock)
  BY DEF TypeOK
<1>5. /\ file.tickets \in Tables(clock) \cup {Absent}
      /\ file.legacy \in Tables(clock) \cup {Absent}
      /\ file.version \in {0, 2, 3} /\ file.logs \in SUBSET (0..clock)
  BY <1>4 DEF Files
<1> QED BY <1>1, <1>2, <1>3, <1>4, <1>5

LEMMA TicketsPut ==
    ASSUME NEW c, NEW f \in Files(c), NEW table \in Tables(c) \cup {Absent}
    PROVE  LET g == [f EXCEPT !.tickets = table]
           IN  /\ g \in Files(c) /\ g.tickets = table /\ g.legacy = f.legacy
               /\ g.version = f.version /\ g.logs = f.logs
  BY DEF Files

(* A statement that fails.                                                 *)
LEMMA GivingUp ==
    ASSUME TypeOK, NEW h \in Processes, NEW from, At(h, from), To(h, "memory"), UNCHANGED file,
           Quiet, UNCHANGED cut
    PROVE  GivesUp(h, from) /\ TypeOK'
<1>1. file' \in Files(clock) /\ "memory" \in Stages
  BY DEF TypeOK, Stages
<1> QED BY <1>1, OpenedTypes DEF GivesUp

LEMMA CreateDoes ==
    ASSUME TypeOK, NEW h \in Processes, CreateTables(h)
    PROVE  /\ TypeOK' /\ Opened(h, "create", "version")
           /\ FilePut(IF file.tickets = Absent THEN Table("payload", NoRows) ELSE file.tickets,
                      file.legacy, file.version)
<1> DEFINE table == Table("payload", NoRows)
<1>1. At(h, "create") /\ To(h, "version") /\ Quiet /\ UNCHANGED cut /\ "version" \in Stages
  BY DEF CreateTables, Stages
<1>2. table \in Tables(clock)
  BY FileHas, NoRowsIs, TablesAreThere
<1> HIDE DEF table
<1>3. CASE file.tickets = Absent
  <2>1. file' = [file EXCEPT !.tickets = table]
    BY <1>3 DEF CreateTables, table
  <2>2. file' \in Files(clock) /\ FilePut(table, file.legacy, file.version)
    BY <1>2, <2>1, FileHas, TicketsPut DEF FilePut
  <2> QED BY <1>1, <1>3, <2>2, OpenedTypes DEF table
<1>4. CASE file.tickets # Absent
  <2>1. file' = file
    BY <1>4 DEF CreateTables
  <2>2. file' \in Files(clock) /\ FilePut(file.tickets, file.legacy, file.version)
    BY <2>1, FileHas DEF FilePut
  <2> QED BY <1>1, <1>4, <2>2, OpenedTypes
<1> QED BY <1>3, <1>4

LEMMA ReadDoes ==
    ASSUME TypeOK, NEW h \in Processes, ReadVersion(h)
    PROVE  /\ TypeOK' /\ file' = file
           /\ \/ file.version = 3 /\ Opened(h, "version", "load")
              \/ file.version = 2 /\ Opened(h, "version", "stamp")
              \/ file.version = 0 /\ Opened(h, "version", "rename")
<1>1. At(h, "version") /\ Quiet /\ UNCHANGED <<file, cut>> /\ file' \in Files(clock)
  BY DEF ReadVersion, TypeOK
<1>2. file.version \in {0, 2, 3} /\ {"load", "stamp", "rename"} \subseteq Stages
  BY FileHas DEF Stages
<1>3. CASE file.version = 3
  BY <1>1, <1>2, <1>3, OpenedTypes DEF ReadVersion
<1>4. CASE file.version = 2
  BY <1>1, <1>2, <1>4, OpenedTypes DEF ReadVersion
<1>5. CASE file.version = 0
  BY <1>1, <1>2, <1>5, OpenedTypes DEF ReadVersion
<1> QED BY <1>2, <1>3, <1>4, <1>5

LEMMA RenameDoes ==
    ASSUME TypeOK, NEW h \in Processes, RenameTable(h)
    PROVE  /\ TypeOK'
           /\ \/ ~(file.legacy = Absent /\ file.tickets # Absent) /\ GivesUp(h, "rename")
              \/ /\ file.legacy = Absent /\ file.tickets # Absent
                 /\ Opened(h, "rename", "new") /\ FilePut(Absent, file.tickets, file.version)
<1>1. At(h, "rename") /\ Quiet /\ UNCHANGED cut /\ "new" \in Stages
  BY DEF RenameTable, Stages
<1>2. CASE file.legacy = Absent /\ file.tickets # Absent
  <2>1. file' = [file EXCEPT !.legacy = file.tickets, !.tickets = Absent] /\ To(h, "new")
    BY <1>2 DEF RenameTable
  <2>2. file' \in Files(clock) /\ FilePut(Absent, file.tickets, file.version)
    BY <2>1, FileHas DEF Files, FilePut
  <2> QED BY <1>1, <1>2, <2>1, <2>2, OpenedTypes
<1>3. CASE ~(file.legacy = Absent /\ file.tickets # Absent)
  <2>1. To(h, "memory") /\ UNCHANGED file
    BY <1>3 DEF RenameTable
  <2> QED BY <1>1, <1>3, <2>1, GivingUp
<1> QED BY <1>2, <1>3

LEMMA NewDoes ==
    ASSUME TypeOK, NEW h \in Processes, NewTable(h)
    PROVE  /\ TypeOK'
           /\ \/ file.tickets # Absent /\ GivesUp(h, "new")
              \/ /\ file.tickets = Absent
                 /\ Opened(h, "new", "copy")
                 /\ FilePut(Table("columns", NoRows), file.legacy, file.version)
<1> DEFINE table == Table("columns", NoRows)
<1>1. At(h, "new") /\ Quiet /\ UNCHANGED cut /\ "copy" \in Stages
  BY DEF NewTable, Stages
<1>0. table \in Tables(clock)
  BY FileHas, NoRowsIs, TablesAreThere
<1> HIDE DEF table
<1>2. CASE file.tickets = Absent
  <2>1. file' = [file EXCEPT !.tickets = table] /\ To(h, "copy")
    BY <1>2 DEF NewTable, table
  <2>2. file' \in Files(clock) /\ FilePut(table, file.legacy, file.version)
    BY <1>0, <2>1, FileHas, TicketsPut DEF FilePut
  <2> QED BY <1>1, <1>2, <2>1, <2>2, OpenedTypes DEF table
<1>3. CASE file.tickets # Absent
  <2>1. To(h, "memory") /\ UNCHANGED file
    BY <1>3 DEF NewTable
  <2> QED BY <1>1, <1>3, <2>1, GivingUp
<1> QED BY <1>2, <1>3

LEMMA OverHas ==
    ASSUME NEW c \in Nat, NEW a \in RowSets(c), NEW b \in RowSets(c)
    PROVE  Over(a, b) \in RowSets(c) /\ DOMAIN Over(a, b) = DOMAIN a \cup DOMAIN b
<1> DEFINE known == DOMAIN a \cup DOMAIN b
           o == [t \in known |-> IF t \in DOMAIN a THEN a[t] ELSE b[t]]
<1>1. known \in SUBSET (0..c) /\ o \in [known -> Row(c)]
  <2>1. /\ DOMAIN a \subseteq 0..c /\ \A t \in DOMAIN a : a[t] \in Row(c)
        /\ DOMAIN b \subseteq 0..c /\ \A t \in DOMAIN b : b[t] \in Row(c)
    BY RowSetHas
  <2> QED BY <2>1
<1>2. Over(a, b) = o
  BY DEF Over
<1> HIDE DEF o
<1>3. o \in RowSets(c)
  <2> HIDE DEF known
  <2> QED BY <1>1, RowSetIs
<1>4. DOMAIN o = known
  BY <1>1
<1> QED BY <1>2, <1>3, <1>4

LEMMA CopyDoes ==
    ASSUME TypeOK, NEW h \in Processes, CopyRows(h)
    PROVE  /\ TypeOK'
           /\ \/ /\ ~(/\ file.legacy # Absent /\ file.legacy.columns = "payload"
                    /\ file.tickets # Absent /\ Rows(file.legacy) \cap Rows(file.tickets) = {})
                 /\ GivesUp(h, "copy")
              \/ /\ file.legacy # Absent /\ file.legacy.columns = "payload"
                 /\ file.tickets # Absent /\ Rows(file.legacy) \cap Rows(file.tickets) = {}
                 /\ Opened(h, "copy", "drop")
                 /\ FilePut(Table(file.tickets.columns, Over(file.legacy.rows, file.tickets.rows)),
                            file.legacy, file.version)
<1>1. At(h, "copy") /\ Quiet /\ UNCHANGED cut /\ "drop" \in Stages
  BY DEF CopyRows, Stages
<1>2. CASE /\ file.legacy # Absent /\ file.legacy.columns = "payload"
           /\ file.tickets # Absent /\ Rows(file.legacy) \cap Rows(file.tickets) = {}
  <2> DEFINE rows == Over(file.legacy.rows, file.tickets.rows)
             table == Table(file.tickets.columns, rows)
  <2>1. file' = [file EXCEPT !.tickets.rows = rows] /\ To(h, "drop")
    BY <1>2 DEF CopyRows
  <2>2. file.legacy \in Tables(clock) /\ file.tickets \in Tables(clock)
    BY <1>2, FileHas
  <2>3. file.legacy.rows \in RowSets(clock) /\ file.tickets.rows \in RowSets(clock)
        /\ file.tickets.columns \in {"payload", "columns"}
    BY <2>2, FileHas
  <2>4. rows \in RowSets(clock)
    BY <2>3, FileHas, OverHas
  <2> HIDE DEF rows
  <2>5. table \in Tables(clock) /\ [file.tickets EXCEPT !.rows = rows] = table
    BY <2>2, <2>3, <2>4 DEF Tables, Table
  <2>6. file' = [file EXCEPT !.tickets = table]
    BY <2>1, <2>5, FileHas DEF Files
  <2> HIDE DEF table
  <2>7. file' \in Files(clock) /\ FilePut(table, file.legacy, file.version)
    BY <2>5, <2>6, FileHas, TicketsPut DEF FilePut
  <2> QED BY <1>1, <1>2, <2>1, <2>7, OpenedTypes DEF table, rows
<1>3. CASE ~(/\ file.legacy # Absent /\ file.legacy.columns = "payload"
             /\ file.tickets # Absent /\ Rows(file.legacy) \cap Rows(file.tickets) = {})
  <2>1. To(h, "memory") /\ UNCHANGED file
    BY <1>3 DEF CopyRows
  <2> QED BY <1>1, <1>3, <2>1, GivingUp
<1> QED BY <1>2, <1>3

LEMMA CopyFailsDoes ==
    ASSUME TypeOK, NEW h \in Processes, CopyFails(h)
    PROVE  /\ TypeOK' /\ At(h, "copy") /\ Moves(process', process, h, "memory")
           /\ Quiet /\ UNCHANGED file /\ cut'
<1>1. process' \in [Processes -> Loads(clock)] /\ Moves(process', process, h, "memory")
  BY ToMoves DEF CopyFails, Stages
<1>2. At(h, "copy") /\ Quiet /\ UNCHANGED file /\ cut' /\ cut' \in BOOLEAN
  BY DEF CopyFails
<1> QED BY <1>1, <1>2 DEF TypeOK, Quiet

LEMMA DropDoes ==
    ASSUME TypeOK, NEW h \in Processes, DropTable(h)
    PROVE  /\ TypeOK'
           /\ \/ file.legacy = Absent /\ GivesUp(h, "drop")
              \/ /\ file.legacy # Absent
                 /\ Opened(h, "drop", "stamp") /\ FilePut(file.tickets, Absent, file.version)
<1>1. At(h, "drop") /\ Quiet /\ UNCHANGED cut /\ "stamp" \in Stages
  BY DEF DropTable, Stages
<1>2. CASE file.legacy # Absent
  <2>1. file' = [file EXCEPT !.legacy = Absent] /\ To(h, "stamp")
    BY <1>2 DEF DropTable
  <2>2. file' \in Files(clock) /\ FilePut(file.tickets, Absent, file.version)
    BY <2>1, FileHas DEF Files, FilePut
  <2> QED BY <1>1, <1>2, <2>1, <2>2, OpenedTypes
<1>3. CASE file.legacy = Absent
  <2>1. To(h, "memory") /\ UNCHANGED file
    BY <1>3 DEF DropTable
  <2> QED BY <1>1, <1>3, <2>1, GivingUp
<1> QED BY <1>2, <1>3

LEMMA StampDoes ==
    ASSUME TypeOK, NEW h \in Processes, StampVersion(h)
    PROVE  /\ TypeOK' /\ Opened(h, "stamp", "load")
           /\ FilePut(file.tickets, file.legacy, 3)
<1>1. At(h, "stamp") /\ Quiet /\ UNCHANGED cut /\ To(h, "load") /\ "load" \in Stages
      /\ file' = [file EXCEPT !.version = 3]
  BY DEF StampVersion, Stages
<1>2. file' \in Files(clock) /\ FilePut(file.tickets, file.legacy, 3)
  BY <1>1, FileHas DEF Files, FilePut
<1> QED BY <1>1, <1>2, OpenedTypes

LEMMA StartDoes ==
    ASSUME TypeOK, NEW h \in Processes, Start(h)
    PROVE  TypeOK' /\ At(h, "off") /\ Moves(process', process, h, "create")
<1>1. process' \in [Processes -> Loads(clock)] /\ Moves(process', process, h, "create")
  BY ToMoves DEF Start, Stages
<1>2. starts' \in 0..MaxStarts
  BY TablesAssumption DEF TypeOK, Start
<1>3. cut' \in BOOLEAN /\ UNCHANGED <<file, memory, unit, clock, crossed, failed, dropped>> /\ At(h, "off")
  BY DEF Start, TypeOK
<1> QED BY <1>1, <1>2, <1>3 DEF TypeOK

(* A process has loaded the file.                                          *)
HasLoaded(h, q, p, rows, logs) ==
    /\ q[h].stage = (IF \E t \in DOMAIN Newest(rows) : ~rows[t].canonical THEN "replace" ELSE "sqlite")
    /\ q[h].rows = Normalized(rows) /\ q[h].logs = LastLogs(logs)
    /\ \A g \in Processes : g # h => q[g] = p[g]

LEMMA LoadDoes ==
    ASSUME TypeOK, NEW h \in Processes, Load(h)
    PROVE  /\ TypeOK' /\ At(h, "load") /\ Readable
           /\ HasLoaded(h, process', process, file.tickets.rows, file.logs)
           /\ h = Owner => /\ memory'.tickets = Normalized(file.tickets.rows)
                           /\ memory'.logs = Ascending(LastLogs(file.logs))
                           /\ crossed' = FALSE /\ failed' = FALSE
           /\ h # Owner => UNCHANGED <<memory, crossed, failed>>
           /\ UNCHANGED <<file, unit, clock, starts, cut, dropped>>
<1> DEFINE rows == file.tickets.rows
           stage == IF \E t \in DOMAIN Newest(rows) : ~rows[t].canonical THEN "replace" ELSE "sqlite"
           l == [stage |-> stage, rows |-> Normalized(rows), logs |-> LastLogs(file.logs)]
           m == [tickets |-> Normalized(rows), logs |-> Ascending(LastLogs(file.logs))]
<1>1. At(h, "load") /\ Readable /\ Loaded(h, file.tickets.rows, file.logs)
  BY DEF Load
<1>2. clock \in Nat /\ rows \in RowSets(clock) /\ file.logs \in SUBSET (0..clock)
  BY <1>1, FileHas DEF Readable
<1>3. /\ Normalized(rows) \in RowSets(clock)
      /\ Cardinality(DOMAIN Normalized(rows)) <= TicketBuffer
  <2>1. DOMAIN Normalized(rows) = KeptIds(rows) /\ Normalized(rows) \in RowSets(clock)
    BY <1>2, NormalizedHas
  <2>2. Cardinality(KeptIds(rows)) <= TicketBuffer
    BY <1>2, Keeping
  <2> QED BY <2>1, <2>2
<1>4. LastLogs(file.logs) \subseteq 0..clock /\ RingOf(Ascending(LastLogs(file.logs)), clock)
  BY <1>2, LastLogsHas, RingIsLoaded
<1>5. l \in Loads(clock) /\ l.stage = stage /\ l.rows = Normalized(rows) /\ l.logs = LastLogs(file.logs)
  <2>1. stage \in Stages
    BY DEF Stages
  <2> HIDE DEF stage, rows
  <2> QED BY <1>3, <1>4, <2>1 DEF Loads
<1>6. m \in Memories(clock) /\ m.tickets = Normalized(rows) /\ m.logs = Ascending(LastLogs(file.logs))
  <2> HIDE DEF rows
  <2> QED BY <1>3, <1>4 DEF Memories, RingOf
<1>7. /\ process' = [process EXCEPT ![h] = l]
      /\ h = Owner => memory' = m /\ crossed' = FALSE /\ failed' = FALSE
      /\ h # Owner => UNCHANGED <<memory, crossed, failed>>
      /\ UNCHANGED <<file, unit, clock, starts, cut, dropped>>
  BY <1>1 DEF Loaded
<1> HIDE DEF l, m, stage, rows
<1>8. /\ process' \in [Processes -> Loads(clock)] /\ process'[h] = l
      /\ \A g \in Processes : g # h => process'[g] = process[g]
  BY <1>5, <1>7 DEF TypeOK
<1>9. HasLoaded(h, process', process, rows, file.logs)
  BY <1>5, <1>8 DEF HasLoaded, stage
<1>10. /\ memory' \in Memories(clock) /\ Cardinality(DOMAIN memory'.tickets) <= TicketBuffer
       /\ Len(memory'.logs) <= LogBuffer /\ crossed' \in BOOLEAN /\ failed' \in BOOLEAN
  <2>1. CASE h = Owner
    BY <1>3, <1>4, <1>6, <1>7, <2>1 DEF RingOf
  <2>2. CASE h # Owner
    BY <1>7, <2>2 DEF TypeOK
  <2> QED BY <2>1, <2>2
<1>11. TypeOK'
  BY <1>7, <1>8, <1>10 DEF TypeOK
<1> QED BY <1>1, <1>6, <1>7, <1>9, <1>11 DEF rows

LEMMA LoadFailsDoes ==
    ASSUME TypeOK, NEW h \in Processes, LoadFails(h)
    PROVE  TypeOK' /\ At(h, "load") /\ Moves(process', process, h, "sqlite")
<1>1. process' \in [Processes -> Loads(clock)] /\ Moves(process', process, h, "sqlite")
  BY ToMoves DEF LoadFails, Stages
<1>2. /\ At(h, "load") /\ crossed' \in BOOLEAN /\ failed' \in BOOLEAN
      /\ UNCHANGED <<file, memory, unit, clock, starts, cut, dropped>>
  BY DEF LoadFails, TypeOK
<1> QED BY <1>1, <1>2 DEF TypeOK

LEMMA ReplaceDoes ==
    ASSUME TypeOK, NEW h \in Processes, Replace(h)
    PROVE  /\ TypeOK' /\ At(h, "replace") /\ Readable /\ Moves(process', process, h, "sqlite")
           /\ Wrote(file', file, process[h].rows, process[h].logs)
<1>1. process' \in [Processes -> Loads(clock)] /\ Moves(process', process, h, "sqlite")
  BY ToMoves DEF Replace, Stages
<1>2. /\ At(h, "replace") /\ Readable /\ failed' \in BOOLEAN
      /\ UNCHANGED <<memory, unit, clock, starts, cut, crossed, dropped>>
  BY DEF Replace, TypeOK
<1>3. process[h].rows \in RowSets(clock) /\ process[h].logs \in SUBSET (0..clock)
  <2>1. process[h] \in Loads(clock)
    BY DEF TypeOK
  <2> QED BY <2>1 DEF Loads
<1>4. file' \in Files(clock) /\ Wrote(file', file, process[h].rows, process[h].logs)
  <2>1. file' = [file EXCEPT !.tickets.rows = process[h].rows, !.logs = process[h].logs]
    BY DEF Replace
  <2> DEFINE rows == process[h].rows
             logs == process[h].logs
  <2> HIDE DEF rows, logs
  <2>2. clock \in 0..MaxClock /\ file \in Files(clock) /\ file.tickets # Absent
    BY <1>2, FileHas DEF Readable
  <2>3. LET g == [file EXCEPT !.tickets.rows = rows, !.logs = logs]
        IN  g \in Files(clock) /\ Wrote(g, file, rows, logs)
    BY <1>3, <2>2, RowsWritten DEF rows, logs
  <2> QED BY <2>1, <2>3 DEF rows, logs
<1> QED BY <1>1, <1>2, <1>4 DEF TypeOK

LEMMA ReplaceFailsDoes ==
    ASSUME TypeOK, NEW h \in Processes, ReplaceFails(h)
    PROVE  TypeOK' /\ At(h, "replace") /\ Moves(process', process, h, "sqlite")
<1>1. process' \in [Processes -> Loads(clock)] /\ Moves(process', process, h, "sqlite")
  BY ToMoves DEF ReplaceFails, Stages
<1>2. /\ At(h, "replace") /\ failed' \in BOOLEAN
      /\ UNCHANGED <<file, memory, unit, clock, starts, cut, crossed, dropped>>
  BY DEF ReplaceFails, TypeOK
<1> QED BY <1>1, <1>2 DEF TypeOK

LEMMA StopDoes ==
    ASSUME TypeOK, NEW h \in Processes, Stop(h)
    PROVE  /\ TypeOK' /\ ~At(h, "off") /\ process'[h] = Off
           /\ \A g \in Processes : g # h => process'[g] = process[g]
           /\ h = Owner => /\ memory'.tickets = NoRows /\ unit' = [w \in Workers |-> NoUnit]
                           /\ dropped' = {}
<1> DEFINE m == [tickets |-> NoRows, logs |-> <<>>]
           none == [w \in Workers |-> NoUnit]
<1>1. /\ ~At(h, "off") /\ process' = [process EXCEPT ![h] = Off] /\ cut' \in BOOLEAN
      /\ memory' = (IF h = Owner THEN m ELSE memory) /\ unit' = (IF h = Owner THEN none ELSE unit)
      /\ dropped' = (IF h = Owner THEN {} ELSE dropped) /\ dropped' \in SUBSET (0..MaxClock)
      /\ UNCHANGED <<file, clock, starts, crossed, failed>>
  BY DEF Stop, TypeOK
<1>2. NoRows \in RowSets(clock) /\ Cardinality(DOMAIN NoRows) = 0
  BY FileHas, NoRowsIs, FS_EmptySet
<1>3. Off \in Loads(clock)
  BY <1>2 DEF Off, Loads, Stages
<1>4. /\ process' \in [Processes -> Loads(clock)] /\ process'[h] = Off
      /\ \A g \in Processes : g # h => process'[g] = process[g]
  BY <1>1, <1>3 DEF TypeOK
<1>5. m \in Memories(clock) /\ m.tickets = NoRows /\ m.logs = <<>> /\ Len(<<>>) = 0
  BY <1>2 DEF Memories
<1>6. none \in [Workers -> Units(clock)]
  BY DEF NoUnit, Units
<1> HIDE DEF m, none
<1>7. /\ memory' \in Memories(clock) /\ Cardinality(DOMAIN memory'.tickets) <= TicketBuffer
      /\ Len(memory'.logs) <= LogBuffer /\ unit' \in [Workers -> Units(clock)]
      /\ h = Owner => memory'.tickets = NoRows /\ unit' = none
  BY <1>1, <1>2, <1>5, <1>6, TablesAssumption DEF TypeOK
<1> QED BY <1>1, <1>4, <1>7 DEF TypeOK, none

(* A unit of work with these changes.                                      *)
UnitHas(u, stage, upsert, r, deletes, logs, clear, stamp) ==
    /\ u.stage = stage /\ u.upsert = upsert /\ u.row = r /\ u.deletes = deletes
    /\ u.logs = logs /\ u.clear = clear /\ u.stamp = stamp

LEMMA UnitIs ==
    ASSUME NEW c \in Nat, NEW u \in Units(c)
    PROVE  /\ u.stage \in {"none", "open", "ready"} /\ u.upsert \in {None} \cup 0..c
           /\ u.row \in {None} \cup Row(c) /\ u.deletes \in SUBSET (0..c)
           /\ u.logs \in SUBSET (0..c) /\ u.clear \in BOOLEAN /\ u.stamp \in {None} \cup 0..c
           /\ u.upsert # None => u.row \in Row(c)
  BY DEF Units

LEMMA NoUnitIs ==
    ASSUME NEW c \in Nat
    PROVE  NoUnit \in Units(c) /\ UnitHas(NoUnit, "none", None, None, {}, {}, FALSE, None)
  BY DEF NoUnit, Units, UnitHas

LEMMA OpenWithTicket ==
    ASSUME NEW c \in Nat, NEW t \in 0..c, NEW r \in Row(c), NEW deletes \in SUBSET (0..c)
    PROVE  LET u == [Open EXCEPT !.upsert = t, !.row = r, !.deletes = deletes]
           IN  u \in Units(c) /\ UnitHas(u, "open", t, r, deletes, {}, FALSE, None)
  BY DEF Open, NoUnit, Units, UnitHas

LEMMA OpenWithRow ==
    ASSUME NEW c \in Nat, NEW t \in 0..c, NEW r \in Row(c)
    PROVE  LET u == [Open EXCEPT !.upsert = t, !.row = r]
           IN  u \in Units(c) /\ UnitHas(u, "open", t, r, {}, {}, FALSE, None)
  BY DEF Open, NoUnit, Units, UnitHas

LEMMA OpenWithStamp ==
    ASSUME NEW c \in Nat, NEW s \in 0..c
    PROVE  LET u == [Open EXCEPT !.stamp = s]
           IN  u \in Units(c) /\ UnitHas(u, "open", None, None, {}, {}, FALSE, s)
  BY DEF Open, NoUnit, Units, UnitHas

LEMMA OpenClearing ==
    ASSUME NEW c \in Nat, NEW clear \in BOOLEAN
    PROVE  LET u == [Open EXCEPT !.stage = "ready", !.clear = clear]
           IN  u \in Units(c) /\ UnitHas(u, "ready", None, None, {}, {}, clear, None)
  BY DEF Open, NoUnit, Units, UnitHas

LEMMA Stamped ==
    ASSUME NEW c \in Nat, NEW u \in Units(c), NEW s \in 0..c
    PROVE  LET v == [u EXCEPT !.stamp = s]
           IN  v \in Units(c) /\ UnitHas(v, u.stage, u.upsert, u.row, u.deletes, u.logs, u.clear, s)
  BY DEF Units, UnitHas

LEMMA Pushed ==
    ASSUME NEW c \in Nat, NEW u \in Units(c), NEW s \in 0..c
    PROVE  LET v == [u EXCEPT !.stage = "ready", !.logs = {s}, !.stamp = None]
           IN  v \in Units(c) /\ UnitHas(v, "ready", u.upsert, u.row, u.deletes, {s}, u.clear, None)
  BY DEF Units, UnitHas

(* A unit of work begins.                                                  *)
Begins(w, u) ==
    /\ Working /\ unit[w].stage = "none"
    /\ unit'[w] = u /\ \A v \in Workers : v # w => unit'[v] = unit[v]
    /\ crossed' = (crossed \/ Others(w))
    /\ UNCHANGED <<file, process, starts, cut, failed, dropped>>

LEMMA BeginDoes ==
    ASSUME TypeOK, NEW w \in Workers, NEW d \in Nat, clock <= d, NEW u \in Units(d), Begin(w, u)
    PROVE  unit' \in [Workers -> Units(d)] /\ Begins(w, u)
<1>1. unit \in [Workers -> Units(d)]
  <2>1. Units(clock) \subseteq Units(d)
    BY FileHas, TypesGrow
  <2> QED BY <2>1 DEF TypeOK
<1>2. unit' = [unit EXCEPT ![w] = u]
  BY DEF Begin
<1>3. /\ unit' \in [Workers -> Units(d)] /\ unit'[w] = u
      /\ \A v \in Workers : v # w => unit'[v] = unit[v]
  BY <1>1, <1>2
<1> QED BY <1>3 DEF Begin, Begins

LEMMA Grown ==
    ASSUME TypeOK, NEW d \in 0..MaxClock, clock <= d, clock' = d,
           UNCHANGED <<file, process, starts, cut, failed, dropped>>,
           memory' \in Memories(d), Cardinality(DOMAIN memory'.tickets) <= TicketBuffer,
           Len(memory'.logs) <= LogBuffer, unit' \in [Workers -> Units(d)], crossed' \in BOOLEAN
    PROVE  TypeOK'
<1>1. d \in Nat /\ clock \in Nat
  BY FileHas
<1>2. Files(clock) \subseteq Files(d) /\ Loads(clock) \subseteq Loads(d)
  BY <1>1, TypesGrow
<1>3. file' \in Files(d) /\ process' \in [Processes -> Loads(d)]
  BY <1>2 DEF TypeOK
<1> QED BY <1>3 DEF TypeOK

LEMMA Ticks ==
    ASSUME TypeOK, clock < MaxClock
    PROVE  clock + 1 \in 0..MaxClock /\ clock < clock + 1 /\ clock <= clock + 1 /\ clock + 1 \in Nat
  BY FileHas

LEMMA MemoryHas ==
    ASSUME TypeOK, NEW d \in Nat, clock <= d
    PROVE  /\ memory \in Memories(d) /\ memory.tickets \in RowSets(d) /\ memory.logs \in Seq(0..d)
           /\ memory.tickets \in RowSets(clock) /\ memory.logs \in Seq(0..clock)
           /\ Cardinality(DOMAIN memory.tickets) <= TicketBuffer /\ Len(memory.logs) <= LogBuffer
<1>1. memory \in Memories(clock) /\ Memories(clock) \subseteq Memories(d)
  BY FileHas, TypesGrow DEF TypeOK
<1> QED BY <1>1 DEF Memories, TypeOK

LEMMA TicketsKept ==
    ASSUME NEW c \in Nat, NEW m \in Memories(c), NEW rows \in RowSets(c)
    PROVE  LET n == [m EXCEPT !.tickets = rows]
           IN  n \in Memories(c) /\ n.tickets = rows /\ n.logs = m.logs
  BY DEF Memories

LEMMA LogsKept ==
    ASSUME NEW c \in Nat, NEW m \in Memories(c), NEW logs \in Seq(0..c)
    PROVE  LET n == [m EXCEPT !.logs = logs]
           IN  n \in Memories(c) /\ n.tickets = m.tickets /\ n.logs = logs
  BY DEF Memories

(* The rows that are written now.                                          *)
LEMMA RowNow ==
    ASSUME NEW d \in Nat
    PROVE  [updated |-> d, canonical |-> TRUE] \in RowsAt(d)
  BY DEF RowsAt, Row, Named

(* A ticket is acquired at a time d, with a row r.                         *)
Acquires(w, d, r) ==
    LET rows == With(memory.tickets, d, r)
    IN  /\ clock < d /\ clock' = d
        /\ memory'.tickets = Newest(rows) /\ memory'.logs = memory.logs
        /\ Begins(w, unit'[w])
        /\ UnitHas(unit'[w], "open", d, r, Overflow(rows), {}, FALSE, None)

LEMMA AcquireDoes ==
    ASSUME TypeOK, NEW w \in Workers, Acquire(w)
    PROVE  TypeOK' /\ \E d \in 0..MaxClock : \E r \in RowsAt(d) : Acquires(w, d, r)
<1> DEFINE d == clock + 1
           r == [updated |-> d, canonical |-> TRUE]
           rows == With(memory.tickets, d, r)
           m == [memory EXCEPT !.tickets = Newest(rows)]
           u == [Open EXCEPT !.upsert = d, !.row = r, !.deletes = Overflow(rows)]
<1>1. /\ clock < MaxClock /\ clock' = d /\ memory' = m /\ Begin(w, u)
  BY DEF Acquire
<1>2. d \in 0..MaxClock /\ d \in Nat /\ clock < d /\ clock <= d /\ d \in 0..d
  BY <1>1, Ticks
<1>3. r \in RowsAt(d) /\ r \in Row(d)
  BY <1>2, RowNow DEF RowsAt
<1> HIDE DEF d, r
<1>4. rows \in RowSets(d)
  BY <1>2, <1>3, MemoryHas, WithHas DEF IsWith
<1> HIDE DEF rows
<1>5. /\ Newest(rows) \in RowSets(d) /\ Overflow(rows) \in SUBSET (0..d)
      /\ Cardinality(DOMAIN Newest(rows)) <= TicketBuffer
  <2>1. Newest(rows) \in RowSets(d) /\ DOMAIN Newest(rows) = KeptIds(rows)
    BY <1>2, <1>4, NewestHas
  <2>2. Cardinality(KeptIds(rows)) <= TicketBuffer
    BY <1>2, <1>4, Keeping
  <2>3. Overflow(rows) \subseteq DOMAIN rows /\ DOMAIN rows \subseteq 0..d
    BY <1>2, <1>4, RowSetHas DEF Overflow
  <2> QED BY <2>1, <2>2, <2>3
<1>6. m \in Memories(d) /\ m.tickets = Newest(rows) /\ m.logs = memory.logs
  BY <1>2, <1>5, MemoryHas, TicketsKept
<1>7. u \in Units(d) /\ UnitHas(u, "open", d, r, Overflow(rows), {}, FALSE, None)
  BY <1>2, <1>3, <1>5, OpenWithTicket
<1> HIDE DEF m, u
<1>8. unit' \in [Workers -> Units(d)] /\ Begins(w, u)
  BY <1>1, <1>2, <1>7, BeginDoes
<1>9. UNCHANGED <<file, process, starts, cut, failed, dropped>> /\ crossed' \in BOOLEAN /\ unit'[w] = u
  BY <1>8 DEF Begins, TypeOK, Others
<1>10. Len(memory'.logs) <= LogBuffer /\ Cardinality(DOMAIN memory'.tickets) <= TicketBuffer
       /\ memory' \in Memories(d)
  BY <1>1, <1>2, <1>5, <1>6, MemoryHas
<1>11. TypeOK'
  BY <1>1, <1>2, <1>8, <1>9, <1>10, Grown
<1>12. Acquires(w, d, r)
  BY <1>1, <1>2, <1>6, <1>7, <1>8, <1>9 DEF Acquires, rows
<1> QED BY <1>2, <1>3, <1>11, <1>12

(* A ticket t is updated at a time d.                                      *)
Touches(w, t, d, r) ==
    /\ t \in DOMAIN memory.tickets
    /\ clock < d /\ clock' = d
    /\ memory'.tickets = [memory.tickets EXCEPT ![t] = r] /\ memory'.logs = memory.logs
    /\ Begins(w, unit'[w])
    /\ UnitHas(unit'[w], "open", t, r, {}, {}, FALSE, None)

LEMMA TouchDoes ==
    ASSUME TypeOK, NEW w \in Workers, NEW t, Touch(w, t)
    PROVE  TypeOK' /\ \E d \in 0..MaxClock : \E r \in RowsAt(d) : Touches(w, t, d, r)
<1> DEFINE d == clock + 1
           r == [updated |-> d, canonical |-> TRUE]
           rows == [memory.tickets EXCEPT ![t] = r]
           m == [memory EXCEPT !.tickets = rows]
           u == [Open EXCEPT !.upsert = t, !.row = r]
<1>1. /\ clock < MaxClock /\ clock' = d /\ Begin(w, u) /\ t \in DOMAIN memory.tickets
      /\ memory' = [memory EXCEPT !.tickets[t] = r]
  BY DEF Touch
<1>2. d \in 0..MaxClock /\ d \in Nat /\ clock < d /\ clock <= d
  BY <1>1, Ticks
<1>3. r \in RowsAt(d) /\ r \in Row(d)
  BY <1>2, RowNow DEF RowsAt
<1> HIDE DEF d, r
<1>4. /\ memory.tickets \in [DOMAIN memory.tickets -> Row(d)]
      /\ DOMAIN memory.tickets \in SUBSET (0..d) /\ t \in 0..d
  <2>1. memory.tickets \in RowSets(d)
    BY <1>2, MemoryHas
  <2>2. /\ DOMAIN memory.tickets \subseteq 0..d /\ \A v \in DOMAIN memory.tickets : memory.tickets[v] \in Row(d)
        /\ memory.tickets = [v \in DOMAIN memory.tickets |-> memory.tickets[v]]
    BY <1>2, <2>1, RowSetHas
  <2> QED BY <1>1, <2>2
<1>5. rows \in [DOMAIN memory.tickets -> Row(d)] /\ DOMAIN rows = DOMAIN memory.tickets
  BY <1>3, <1>4
<1>6. memory' = m
  BY <1>1, <1>2, MemoryHas DEF Memories
<1> HIDE DEF rows
<1>7. rows \in RowSets(d)
  BY <1>2, <1>4, <1>5, RowSetIs
<1>8. m \in Memories(d) /\ m.tickets = rows /\ m.logs = memory.logs
  BY <1>2, <1>7, MemoryHas, TicketsKept
<1>9. u \in Units(d) /\ UnitHas(u, "open", t, r, {}, {}, FALSE, None)
  BY <1>2, <1>3, <1>4, OpenWithRow
<1> HIDE DEF m, u
<1>10. unit' \in [Workers -> Units(d)] /\ Begins(w, u)
  BY <1>1, <1>2, <1>9, BeginDoes
<1>11. UNCHANGED <<file, process, starts, cut, failed, dropped>> /\ crossed' \in BOOLEAN /\ unit'[w] = u
  BY <1>10 DEF Begins, TypeOK, Others
<1>12. Len(memory'.logs) <= LogBuffer /\ Cardinality(DOMAIN memory'.tickets) <= TicketBuffer
       /\ memory' \in Memories(d)
  BY <1>2, <1>5, <1>6, <1>8, MemoryHas
<1>13. TypeOK'
  BY <1>1, <1>2, <1>10, <1>11, <1>12, Grown
<1>14. Touches(w, t, d, r)
  BY <1>1, <1>2, <1>6, <1>8, <1>9, <1>10, <1>11 DEF Touches, rows
<1> QED BY <1>2, <1>3, <1>13, <1>14

(* A unit of work begins with the time of an entry.                        *)
StampsOnly(w, d) ==
    /\ clock < d /\ clock' = d /\ UNCHANGED memory
    /\ Begins(w, unit'[w])
    /\ UnitHas(unit'[w], "open", None, None, {}, {}, FALSE, d)

LEMMA StampOnlyDoes ==
    ASSUME TypeOK, NEW w \in Workers, StampOnly(w)
    PROVE  TypeOK' /\ \E d \in 0..MaxClock : StampsOnly(w, d)
<1> DEFINE d == clock + 1
           u == [Open EXCEPT !.stamp = d]
<1>1. clock < MaxClock /\ clock' = d /\ Begin(w, u) /\ UNCHANGED memory
  BY DEF StampOnly
<1>2. d \in 0..MaxClock /\ d \in Nat /\ clock < d /\ clock <= d /\ d \in 0..d
  BY <1>1, Ticks
<1> HIDE DEF d
<1>3. u \in Units(d) /\ UnitHas(u, "open", None, None, {}, {}, FALSE, d)
  BY <1>2, OpenWithStamp
<1> HIDE DEF u
<1>4. unit' \in [Workers -> Units(d)] /\ Begins(w, u)
  BY <1>1, <1>2, <1>3, BeginDoes
<1>5. UNCHANGED <<file, process, starts, cut, failed, dropped>> /\ crossed' \in BOOLEAN /\ unit'[w] = u
  BY <1>4 DEF Begins, TypeOK, Others
<1>6. Len(memory'.logs) <= LogBuffer /\ Cardinality(DOMAIN memory'.tickets) <= TicketBuffer
      /\ memory' \in Memories(d)
  BY <1>1, <1>2, MemoryHas
<1>7. TypeOK'
  BY <1>1, <1>2, <1>4, <1>5, <1>6, Grown
<1>8. StampsOnly(w, d)
  BY <1>1, <1>2, <1>3, <1>4, <1>5 DEF StampsOnly
<1> QED BY <1>2, <1>7, <1>8

(* The log is cleared.                                                     *)
Clears(w) ==
    /\ UNCHANGED clock /\ memory'.tickets = memory.tickets /\ memory'.logs = <<>>
    /\ Begins(w, unit'[w])
    /\ UnitHas(unit'[w], "ready", None, None, {}, {}, TRUE, None)

LEMMA ClearDoes ==
    ASSUME TypeOK, NEW w \in Workers, ClearLogs(w)
    PROVE  TypeOK' /\ Clears(w)
<1> DEFINE u == [Open EXCEPT !.stage = "ready", !.clear = TRUE]
           none == <<>>
           m == [memory EXCEPT !.logs = none]
<1>1. memory' = m /\ Begin(w, u) /\ UNCHANGED clock
  BY DEF ClearLogs
<1>2. clock \in 0..MaxClock /\ clock \in Nat /\ clock <= clock /\ LogBuffer \in Nat
  BY FileHas, TablesAssumption
<1>3. u \in Units(clock) /\ UnitHas(u, "ready", None, None, {}, {}, TRUE, None)
  BY <1>2, OpenClearing
<1>4. m \in Memories(clock) /\ m.tickets = memory.tickets /\ m.logs = <<>>
  <2>1. none \in Seq(0..clock) /\ memory \in Memories(clock)
    BY <1>2, MemoryHas
  <2> HIDE DEF none
  <2>2. m \in Memories(clock) /\ m.tickets = memory.tickets /\ m.logs = none
    BY <1>2, <2>1, LogsKept
  <2> QED BY <2>2 DEF none
<1> HIDE DEF u, m
<1>5. unit' \in [Workers -> Units(clock)] /\ Begins(w, u)
  BY <1>1, <1>2, <1>3, BeginDoes
<1>6. UNCHANGED <<file, process, starts, cut, failed, dropped>> /\ crossed' \in BOOLEAN /\ unit'[w] = u
  BY <1>5 DEF Begins, TypeOK, Others
<1>7. Len(memory'.logs) <= LogBuffer /\ Cardinality(DOMAIN memory'.tickets) <= TicketBuffer
      /\ memory' \in Memories(clock)
  BY <1>1, <1>2, <1>4, MemoryHas
<1>8. TypeOK'
  BY <1>1, <1>2, <1>5, <1>6, <1>7, Grown
<1>9. Clears(w)
  BY <1>1, <1>3, <1>4, <1>5, <1>6 DEF Clears
<1> QED BY <1>8, <1>9

(* An entry of a unit that is open gets its time.                          *)
Stamps(w, d) ==
    /\ clock < d /\ clock' = d
    /\ unit[w].stage = "open" /\ unit[w].logs = {} /\ unit[w].stamp = None
    /\ UnitHas(unit'[w], "open", unit[w].upsert, unit[w].row, unit[w].deletes, {}, unit[w].clear, d)
    /\ \A v \in Workers : v # w => unit'[v] = unit[v]
    /\ UNCHANGED <<file, process, memory, starts, cut, crossed, failed, dropped>>

LEMMA StampDoesEntry ==
    ASSUME TypeOK, NEW w \in Workers, StampEntry(w)
    PROVE  TypeOK' /\ \E d \in 0..MaxClock : Stamps(w, d)
<1> DEFINE d == clock + 1
           u == [unit[w] EXCEPT !.stamp = d]
<1>1. /\ clock < MaxClock /\ clock' = d
      /\ unit[w].stage = "open" /\ unit[w].logs = {} /\ unit[w].stamp = None
      /\ UNCHANGED <<file, process, memory, starts, cut, crossed, failed, dropped>>
      /\ unit' = [unit EXCEPT ![w].stamp = d]
  BY DEF StampEntry
<1>2. d \in 0..MaxClock /\ d \in Nat /\ clock < d /\ clock <= d /\ d \in 0..d
  BY <1>1, Ticks
<1> HIDE DEF d
<1>3. unit \in [Workers -> Units(d)]
  <2>1. Units(clock) \subseteq Units(d)
    BY <1>2, FileHas, TypesGrow
  <2> QED BY <2>1 DEF TypeOK
<1>4. u \in Units(d) /\ UnitHas(u, "open", unit[w].upsert, unit[w].row, unit[w].deletes, {}, unit[w].clear, d)
  <2>1. unit[w] \in Units(d)
    BY <1>3
  <2>2. UnitHas(u, unit[w].stage, unit[w].upsert, unit[w].row, unit[w].deletes, unit[w].logs, unit[w].clear, d)
        /\ u \in Units(d)
    BY <1>2, <2>1, Stamped
  <2> QED BY <1>1, <2>2 DEF UnitHas
<1>5. unit' = [unit EXCEPT ![w] = u]
  BY <1>1
<1> HIDE DEF u
<1>6. /\ unit' \in [Workers -> Units(d)] /\ unit'[w] = u
      /\ \A v \in Workers : v # w => unit'[v] = unit[v]
  BY <1>3, <1>4, <1>5
<1>7. Len(memory'.logs) <= LogBuffer /\ Cardinality(DOMAIN memory'.tickets) <= TicketBuffer
      /\ memory' \in Memories(d)
  BY <1>1, <1>2, MemoryHas
<1>8. TypeOK'
  <2>1. crossed' \in BOOLEAN
    BY <1>1 DEF TypeOK
  <2> QED BY <1>1, <1>2, <1>6, <1>7, <2>1, Grown
<1>9. Stamps(w, d)
  BY <1>1, <1>2, <1>4, <1>6 DEF Stamps
<1> QED BY <1>2, <1>8, <1>9

(* An entry gets its place in the ring.                                    *)
LEMMA RingFits ==
    ASSUME NEW c \in Nat, NEW m \in Seq(0..c), Len(m) <= LogBuffer, NEW s \in 0..c
    PROVE  Ring(Append(m, s)) \in Seq(0..c) /\ Len(Ring(Append(m, s))) <= LogBuffer
<1> DEFINE a == Append(m, s)
<1>1. a \in Seq(0..c) /\ Len(a) = Len(m) + 1 /\ Len(m) \in Nat /\ LogBuffer \in Nat \ {0}
  BY TablesAssumption
<1> HIDE DEF a
<1>2. CASE Len(a) > LogBuffer
  <2>1. Ring(a) = Tail(a) /\ a # <<>>
    BY <1>1, <1>2 DEF Ring
  <2>2. Tail(a) \in Seq(0..c) /\ Len(Tail(a)) = Len(a) - 1
    BY <1>1, <2>1
  <2> QED BY <1>1, <2>1, <2>2 DEF a
<1>3. CASE ~(Len(a) > LogBuffer)
  BY <1>1, <1>3 DEF Ring, a
<1> QED BY <1>2, <1>3

Pushes(w) ==
    /\ unit[w].stamp # None
    /\ memory'.tickets = memory.tickets
    /\ memory'.logs = Ring(Append(memory.logs, unit[w].stamp))
    /\ UnitHas(unit'[w], "ready", unit[w].upsert, unit[w].row, unit[w].deletes, {unit[w].stamp},
               unit[w].clear, None)
    /\ \A v \in Workers : v # w => unit'[v] = unit[v]
    /\ UNCHANGED <<file, process, clock, starts, cut, crossed, failed, dropped>>

LEMMA PushDoes ==
    ASSUME TypeOK, NEW w \in Workers, PushEntry(w)
    PROVE  TypeOK' /\ Pushes(w)
<1> DEFINE s == unit[w].stamp
           logs == Ring(Append(memory.logs, s))
           m == [memory EXCEPT !.logs = logs]
           u == [unit[w] EXCEPT !.stage = "ready", !.logs = {s}, !.stamp = None]
<1>1. /\ s # None /\ memory' = [memory EXCEPT !.logs = Ring(Append(@, s))]
      /\ unit' = [unit EXCEPT ![w].stage = "ready", ![w].logs = {s}, ![w].stamp = None]
      /\ UNCHANGED <<file, process, clock, starts, cut, crossed, failed, dropped>>
  BY DEF PushEntry
<1>2. unit[w] \in Units(clock) /\ unit \in [Workers -> Units(clock)] /\ clock \in Nat /\ clock <= clock
      /\ clock \in 0..MaxClock
  BY FileHas DEF TypeOK
<1>3. s \in 0..clock
  BY <1>1, <1>2, UnitIs
<1>4. memory' = m
  BY <1>1, <1>2, MemoryHas DEF Memories
<1>5. unit' = [unit EXCEPT ![w] = u]
  BY <1>1, <1>2 DEF Units
<1> HIDE DEF s
<1>6. logs \in Seq(0..clock) /\ Len(logs) <= LogBuffer
  BY <1>2, <1>3, MemoryHas, RingFits
<1> HIDE DEF logs
<1>7. m \in Memories(clock) /\ m.tickets = memory.tickets /\ m.logs = logs
  BY <1>2, <1>6, MemoryHas, LogsKept
<1>8. u \in Units(clock) /\ UnitHas(u, "ready", unit[w].upsert, unit[w].row, unit[w].deletes, {s}, unit[w].clear, None)
  BY <1>2, <1>3, Pushed
<1> HIDE DEF u, m
<1>9. /\ unit' \in [Workers -> Units(clock)] /\ unit'[w] = u
      /\ \A v \in Workers : v # w => unit'[v] = unit[v]
  BY <1>2, <1>5, <1>8
<1>10. Len(memory'.logs) <= LogBuffer /\ Cardinality(DOMAIN memory'.tickets) <= TicketBuffer
       /\ memory' \in Memories(clock)
  BY <1>2, <1>4, <1>6, <1>7, MemoryHas
<1>11. TypeOK'
  BY <1>1, <1>9, <1>10 DEF TypeOK
<1>12. Pushes(w)
  BY <1>1, <1>4, <1>7, <1>8, <1>9 DEF Pushes, logs, s
<1> QED BY <1>11, <1>12

(* A unit of work is written, or the write fails.                          *)
LEMMA UnitEnds ==
    ASSUME TypeOK, NEW w \in Workers, unit' = [unit EXCEPT ![w] = NoUnit]
    PROVE  /\ unit' \in [Workers -> Units(clock)] /\ unit'[w] = NoUnit
           /\ \A v \in Workers : v # w => unit'[v] = unit[v]
<1>1. NoUnit \in Units(clock)
  BY FileHas, NoUnitIs
<1> QED BY <1>1 DEF TypeOK

LEMMA RowsWithHas ==
    ASSUME NEW c \in Nat, NEW rows \in RowSets(c), NEW u \in Units(c), u.upsert # None
    PROVE  LET w == With(rows, u.upsert, u.row)
           IN  /\ IsWith(w, c, rows, u.upsert, u.row)
               /\ RowsWith(u, rows) = Restrict(w, DOMAIN w \ u.deletes)
               /\ RowsWith(u, rows) \in RowSets(c)
               /\ DOMAIN RowsWith(u, rows) = (DOMAIN rows \cup {u.upsert}) \ u.deletes
<1> DEFINE w == With(rows, u.upsert, u.row)
<1>1. IsWith(w, c, rows, u.upsert, u.row)
  BY UnitIs, WithHas
<1>2. RowsWith(u, rows) = Restrict(w, DOMAIN w \ u.deletes)
  BY DEF RowsWith
<1> HIDE DEF w
<1>3. w \in RowSets(c) /\ DOMAIN w = DOMAIN rows \cup {u.upsert}
  BY <1>1 DEF IsWith
<1>4. /\ Restrict(w, DOMAIN w \ u.deletes) \in RowSets(c)
      /\ DOMAIN Restrict(w, DOMAIN w \ u.deletes) = DOMAIN w \ u.deletes
  BY <1>3, RestrictHas
<1> QED BY <1>1, <1>2, <1>3, <1>4 DEF w

LEMMA AppliedHas ==
    ASSUME NEW c \in Nat, NEW logs \in SUBSET (0..c), NEW u \in Units(c)
    PROVE  Applied(u, logs) \in SUBSET (0..c)
<1> DEFINE S == (IF u.clear THEN {} ELSE logs) \cup u.logs
<1>1. S \in SUBSET (0..c)
  BY UnitIs
<1> HIDE DEF S
<1>2. LastLogs(S) \subseteq S
  BY <1>1, LastLogsHas
<1> QED BY <1>1, <1>2 DEF Applied, S

Commits(w) ==
    /\ unit[w].stage = "ready" /\ At(Owner, "sqlite")
    /\ unit[w].upsert = None \/ Readable
    /\ file'.logs = Applied(unit[w], file.logs)
    /\ file'.legacy = file.legacy /\ file'.version = file.version
    /\ file'.tickets = IF unit[w].upsert = None THEN file.tickets
                       ELSE Table(file.tickets.columns, RowsWith(unit[w], file.tickets.rows))
    /\ unit'[w] = NoUnit /\ \A v \in Workers : v # w => unit'[v] = unit[v]
    /\ UNCHANGED <<process, memory, clock, starts, cut, crossed, failed, dropped>>

LEMMA CommitDoes ==
    ASSUME TypeOK, NEW w \in Workers, Commit(w)
    PROVE  TypeOK' /\ Commits(w)
<1> DEFINE u == unit[w]
           logs == Applied(u, file.logs)
           rows == RowsWith(u, file.tickets.rows)
<1>1. /\ u.stage = "ready" /\ At(Owner, "sqlite") /\ (u.upsert = None \/ Readable)
      /\ unit' = [unit EXCEPT ![w] = NoUnit]
      /\ UNCHANGED <<process, memory, clock, starts, cut, crossed, failed, dropped>>
      /\ u.upsert = None => file' = [file EXCEPT !.logs = logs]
      /\ u.upsert # None => file' = [file EXCEPT !.logs = logs, !.tickets.rows = rows]
  BY DEF Commit
<1>2. u \in Units(clock) /\ clock \in Nat /\ clock \in 0..MaxClock /\ file \in Files(clock)
  BY FileHas DEF TypeOK
<1> HIDE DEF u
<1>3. logs \in SUBSET (0..clock)
  BY <1>2, FileHas, AppliedHas
<1> HIDE DEF logs
<1>4. /\ file' \in Files(clock) /\ file'.logs = logs
      /\ file'.legacy = file.legacy /\ file'.version = file.version
      /\ file'.tickets = IF u.upsert = None THEN file.tickets ELSE Table(file.tickets.columns, rows)
  <2>1. CASE u.upsert = None
    <3> HIDE DEF rows
    <3>1. file' = [file EXCEPT !.logs = logs]
      BY <1>1, <2>1
    <3>2. file' \in Files(clock) /\ file'.logs = logs /\ file'.tickets = file.tickets
          /\ file'.legacy = file.legacy /\ file'.version = file.version
      BY <1>2, <1>3, <3>1 DEF Files
    <3> QED BY <2>1, <3>2
  <2>2. CASE u.upsert # None
    <3>1. file.tickets # Absent /\ file.tickets.rows \in RowSets(clock)
      BY <1>1, <2>2, FileHas DEF Readable
    <3>2. rows \in RowSets(clock)
      BY <1>2, <2>2, <3>1, RowsWithHas
    <3> HIDE DEF rows
    <3>3. file' = [file EXCEPT !.tickets.rows = rows, !.logs = logs]
      BY <1>1, <1>2, <2>2 DEF Files
    <3>4. LET g == [file EXCEPT !.tickets.rows = rows, !.logs = logs]
          IN  g \in Files(clock) /\ Wrote(g, file, rows, logs)
      BY <1>2, <1>3, <3>1, <3>2, RowsWritten
    <3>5. file' \in Files(clock) /\ Wrote(file', file, rows, logs)
      BY <3>3, <3>4
    <3> QED BY <2>2, <3>5 DEF Wrote
  <2> QED BY <2>1, <2>2
<1>5. /\ unit' \in [Workers -> Units(clock)] /\ unit'[w] = NoUnit
      /\ \A v \in Workers : v # w => unit'[v] = unit[v]
  BY <1>1, UnitEnds
<1>6. TypeOK'
  BY <1>1, <1>4, <1>5 DEF TypeOK
<1> QED BY <1>1, <1>4, <1>5, <1>6 DEF Commits, u, logs, rows

LEMMA CommitFailsDoes ==
    ASSUME TypeOK, NEW w \in Workers, CommitFails(w)
    PROVE  /\ TypeOK' /\ unit'[w] = NoUnit /\ \A v \in Workers : v # w => unit'[v] = unit[v]
<1>1. /\ unit' \in [Workers -> Units(clock)] /\ unit'[w] = NoUnit
      /\ \A v \in Workers : v # w => unit'[v] = unit[v]
  BY UnitEnds DEF CommitFails
<1> QED BY <1>1 DEF CommitFails, TypeOK

LEMMA GiveUpDoes ==
    ASSUME TypeOK, NEW w \in Workers, GiveUp(w)
    PROVE  /\ TypeOK' /\ unit'[w] = NoUnit /\ \A v \in Workers : v # w => unit'[v] = unit[v]
           /\ unit[w].stage = "ready" /\ ~Acquired(unit[w]) /\ ~unit[w].clear
           /\ dropped' = dropped \cup ChangedAt(unit[w])
           /\ UNCHANGED <<file, process, memory, clock, starts, cut, crossed, failed>>
<1>1. /\ unit' \in [Workers -> Units(clock)] /\ unit'[w] = NoUnit
      /\ \A v \in Workers : v # w => unit'[v] = unit[v]
  BY UnitEnds DEF GiveUp
<1>2. unit[w] \in Units(clock) /\ clock \in Nat /\ clock \in 0..MaxClock /\ MaxClock \in Nat
  BY FileHas DEF TypeOK
<1>3. ChangedAt(unit[w]) \in SUBSET (0..MaxClock)
  <2>1. unit[w].logs \subseteq 0..MaxClock
    BY <1>2, UnitIs
  <2>2. unit[w].upsert # None => unit[w].row.updated \in 0..MaxClock
    BY <1>2, UnitIs DEF Row
  <2> QED BY <2>1, <2>2 DEF ChangedAt
<1>4. /\ unit[w].stage = "ready" /\ ~Acquired(unit[w]) /\ ~unit[w].clear
      /\ dropped' = dropped \cup ChangedAt(unit[w])
      /\ UNCHANGED <<file, process, memory, clock, starts, cut, crossed, failed>>
  BY DEF GiveUp
<1> QED BY <1>1, <1>3, <1>4 DEF TypeOK

LEMMA NextTypes == TypeOK /\ [Next]_vars => TypeOK'
<1> SUFFICES ASSUME TypeOK, [Next]_vars PROVE TypeOK'
  OBVIOUS
<1>1. CASE UNCHANGED vars
  BY <1>1 DEF vars, TypeOK
<1>2. ASSUME NEW h \in Processes, Start(h) \/ Stop(h) PROVE TypeOK'
  BY <1>2, StartDoes, StopDoes
<1>3. ASSUME NEW h \in Processes, OpenStep(h) PROVE TypeOK'
  <2>1. CASE CreateTables(h) \/ ReadVersion(h) \/ RenameTable(h) \/ NewTable(h)
    BY <2>1, CreateDoes, ReadDoes, RenameDoes, NewDoes
  <2>2. CASE CopyRows(h) \/ CopyFails(h) \/ DropTable(h) \/ StampVersion(h)
    BY <2>2, CopyDoes, CopyFailsDoes, DropDoes, StampDoes
  <2>3. CASE Load(h) \/ LoadFails(h) \/ Replace(h) \/ ReplaceFails(h)
    BY <2>3, LoadDoes, LoadFailsDoes, ReplaceDoes, ReplaceFailsDoes
  <2> QED BY <1>3, <2>1, <2>2, <2>3 DEF OpenStep
<1>4. ASSUME NEW w \in Workers, UnitStep(w) PROVE TypeOK'
  <2>1. CASE Acquire(w) \/ StampOnly(w) \/ StampEntry(w) \/ PushEntry(w) \/ ClearLogs(w)
    BY <2>1, AcquireDoes, StampOnlyDoes, StampDoesEntry, PushDoes, ClearDoes
  <2>2. CASE Commit(w) \/ CommitFails(w) \/ GiveUp(w)
    BY <2>2, CommitDoes, CommitFailsDoes, GiveUpDoes
  <2>3. ASSUME NEW t \in DOMAIN memory.tickets, Touch(w, t) PROVE TypeOK'
    BY <2>3, TouchDoes
  <2> QED BY <1>4, <2>1, <2>2, <2>3 DEF UnitStep
<1> QED BY <1>1, <1>2, <1>3, <1>4 DEF Next

(* Types hold.                                                             *)
THEOREM TypesHold == Spec => []TypeOK
<1>1. Init => TypeOK
  BY InitTypes
<1>2. TypeOK /\ [Next]_vars => TypeOK'
  BY NextTypes
<1> QED BY <1>1, <1>2, PTL DEF Spec

-----------------------------------------------------------------------------
(* The process is past the migration, or within its last statements.       *)
Past(h) == process[h].stage \in {"load", "replace", "sqlite"}
Rebuilding(h) == process[h].stage \in {"new", "copy", "drop", "stamp"}

(* What each stage of the opening finds in the file.                       *)
StageFits(h) ==
    /\ ~At(h, "memory")
    /\ At(h, "version") => file.tickets # Absent
    /\ At(h, "rename") => file.version = 0 /\ file.legacy = Absent /\ file.tickets # Absent
                          /\ file.tickets.columns = "payload"
    /\ At(h, "new") => file.version = 0 /\ file.tickets = Absent /\ file.legacy # Absent
                       /\ file.legacy.columns = "payload"
    /\ At(h, "copy") => file.version = 0 /\ file.tickets # Absent
                        /\ file.tickets = Table("columns", NoRows)
                        /\ file.legacy # Absent /\ file.legacy.columns = "payload"
    /\ At(h, "drop") => file.version = 0 /\ file.tickets # Absent
                        /\ file.tickets.columns = "columns"
                        /\ file.legacy # Absent /\ file.legacy.columns = "payload"
    /\ At(h, "stamp") => file.version # 3 /\ file.tickets # Absent
                         /\ file.tickets.columns = "columns" /\ file.legacy = Absent
    /\ Past(h) => file.version = 3

OpenInv ==
    ~cut => /\ \A g, h \in Processes : Opening(g) /\ Opening(h) => g = h
            /\ \A h \in Processes : StageFits(h)
            /\ (\A h \in Processes : ~Rebuilding(h)) => Whole(file)

(* The stage of one process changes.                                       *)
Turns(h, stage) ==
    /\ process'[h].stage = stage
    /\ \A g \in Processes : g # h => process'[g].stage = process[g].stage

(* While no other process opens the file, one may.                         *)
LEMMA OpenAlone ==
    ASSUME OpenInv, ~cut, NEW h \in Processes, NEW stage, Turns(h, stage),
           \A g \in Processes : g # h => ~Opening(g),
           \A g \in Processes : g # h /\ Past(g) => file'.version = 3,
           StageFits(h)', ~Rebuilding(h)' => Whole(file')
    PROVE  OpenInv'
<1>1. \A g \in Processes : g # h => ~Opening(g)' /\ ~Rebuilding(g)' /\ (Past(g)' <=> Past(g))
  BY DEF Turns, Opening, Migrating, Rebuilding, Past
<1>2. ASSUME NEW g \in Processes PROVE StageFits(g)'
  <2>1. CASE g # h
    <3>1. ~At(g, "memory")'
      BY <2>1 DEF OpenInv, StageFits, At, Turns
    <3>2. Past(g)' => file'.version = 3
      BY <1>1, <2>1
    <3>3. /\ ~At(g, "version")' /\ ~At(g, "rename")' /\ ~At(g, "new")' /\ ~At(g, "copy")'
          /\ ~At(g, "drop")' /\ ~At(g, "stamp")'
      BY <1>1, <2>1 DEF At, Opening, Migrating
    <3> QED BY <3>1, <3>2, <3>3 DEF StageFits
  <2> QED BY <2>1
<1>3. \A g, k \in Processes : Opening(g)' /\ Opening(k)' => g = k
  BY <1>1
<1> QED BY <1>1, <1>2, <1>3 DEF OpenInv

(* A process that is past the opening, or ends, disturbs nobody, and if it *)
(* writes, then to a file of the last version.                             *)
SameShape ==
    \/ file' = file
    \/ /\ file.version = 3 /\ file'.version = 3 /\ file'.legacy = file.legacy
       /\ \/ file'.tickets = file.tickets
          \/ /\ file.tickets # Absent /\ file'.tickets # Absent
             /\ file'.tickets.columns = file.tickets.columns

LEMMA OpenApart ==
    ASSUME OpenInv, ~cut, NEW h \in Processes, NEW stage \in {"off", "replace", "sqlite"},
           Turns(h, stage), stage = "off" \/ Past(h), SameShape,
           Rebuilding(h) => Whole(file)
    PROVE  OpenInv'
<1>1. /\ \A g, k \in Processes : Opening(g) /\ Opening(k) => g = k
      /\ \A g \in Processes : StageFits(g)
      /\ (\A g \in Processes : ~Rebuilding(g)) => Whole(file)
  BY DEF OpenInv
<1>2. ~Opening(h)' /\ ~Rebuilding(h)' /\ (Past(h)' => Past(h))
  BY DEF Turns, Opening, Migrating, Rebuilding, Past
<1>3. \A g \in Processes : g # h =>
         /\ Opening(g)' <=> Opening(g)
         /\ Rebuilding(g)' <=> Rebuilding(g)
  BY DEF Turns, Opening, Migrating, Rebuilding
<1>4. ASSUME NEW g \in Processes PROVE StageFits(g)'
  <2>1. CASE g = h
    <3>1. Past(h)' => file'.version = 3
      BY <1>1, <1>2 DEF StageFits, SameShape
    <3>2. /\ ~At(g, "memory")' /\ ~At(g, "version")' /\ ~At(g, "rename")' /\ ~At(g, "new")'
          /\ ~At(g, "copy")' /\ ~At(g, "drop")' /\ ~At(g, "stamp")'
      BY <2>1 DEF At, Turns
    <3> QED BY <2>1, <3>1, <3>2 DEF StageFits
  <2>2. CASE g # h
    <3>1. StageFits(g) /\ process'[g].stage = process[g].stage
      BY <1>1, <2>2 DEF Turns
    <3>2. CASE file' = file
      BY <3>1, <3>2 DEF StageFits, At, Past
    <3>3. CASE file' # file
      BY <3>1, <3>3 DEF StageFits, At, Past, SameShape
    <3> QED BY <3>2, <3>3
  <2> QED BY <2>1, <2>2
<1>5. \A g, k \in Processes : Opening(g)' /\ Opening(k)' => g = k
  BY <1>1, <1>2, <1>3
<1>6. ASSUME \A g \in Processes : ~Rebuilding(g)' PROVE Whole(file')
  <2>1. Whole(file)
    BY <1>1, <1>3, <1>6
  <2> QED BY <2>1 DEF SameShape, Whole
<1> QED BY <1>4, <1>5, <1>6 DEF OpenInv

(* Nobody moves and the file stays.                                        *)
LEMMA OpenIdle == ASSUME OpenInv, UNCHANGED <<file, process, cut>> PROVE OpenInv'
  BY DEF OpenInv, StageFits, Opening, Migrating, Rebuilding, Past, At

LEMMA OpensStart ==
    ASSUME TypeOK, OpenInv, NEW h \in Processes, Start(h) PROVE OpenInv'
<1> SUFFICES ASSUME ~cut' PROVE OpenInv'
  BY DEF OpenInv
<1>1. /\ ~cut /\ At(h, "off") /\ file' = file /\ Turns(h, "create")
      /\ \A g \in Processes : g # h => ~Opening(g)
  BY StartDoes DEF Start, Moves, Turns
<1>2. StageFits(h)'
  BY <1>1 DEF StageFits, At, Past, Turns
<1>3. \A g \in Processes : g # h /\ Past(g) => file'.version = 3
  BY <1>1 DEF OpenInv, StageFits
<1>4. ~Rebuilding(h)' => Whole(file')
  BY <1>1 DEF OpenInv, Opening, Migrating, Rebuilding, At
<1> QED BY <1>1, <1>2, <1>3, <1>4, OpenAlone

(* A step of the opening finds what it needs, and nobody else opens.       *)
LEMMA OpensAlone ==
    ASSUME OpenInv, ~cut, NEW h \in Processes, Opening(h)
    PROVE  /\ StageFits(h) /\ \A g \in Processes : g # h => ~Opening(g)
           /\ \A g \in Processes : g # h /\ Past(g) => file.version = 3
           /\ ~Rebuilding(h) => Whole(file)
<1>1. \A g \in Processes : g # h => ~Opening(g) /\ ~Rebuilding(g)
  BY DEF OpenInv, Opening, Migrating, Rebuilding
<1> QED BY <1>1 DEF OpenInv, StageFits

LEMMA OpensCreate ==
    ASSUME TypeOK, OpenInv, NEW h \in Processes, CreateTables(h) PROVE OpenInv'
<1>1. /\ Opened(h, "create", "version")
      /\ FilePut(IF file.tickets = Absent THEN Table("payload", NoRows) ELSE file.tickets,
                 file.legacy, file.version)
  BY CreateDoes
<1>2. At(h, "create") /\ Turns(h, "version") /\ cut' = cut /\ Opening(h) /\ ~Rebuilding(h)
  BY <1>1 DEF Opened, Moves, Turns, At, Opening, Rebuilding
<1> SUFFICES ASSUME ~cut PROVE OpenInv'
  BY <1>2 DEF OpenInv
<1>3. /\ \A g \in Processes : g # h => ~Opening(g)
      /\ \A g \in Processes : g # h /\ Past(g) => file.version = 3
      /\ Whole(file)
  BY <1>2, OpensAlone
<1> DEFINE table == Table("payload", NoRows)
<1>4. table # Absent /\ table.columns = "payload"
  BY FileHas, NoRowsIs, TablesAreThere
<1> HIDE DEF table
<1>5. /\ file'.tickets = IF file.tickets = Absent THEN table ELSE file.tickets
      /\ file'.legacy = file.legacy /\ file'.version = file.version
  BY <1>1 DEF FilePut, table
<1>6. file'.tickets # Absent /\ Whole(file')
  BY <1>3, <1>4, <1>5 DEF Whole
<1>7. StageFits(h)'
  BY <1>2, <1>6 DEF StageFits, At, Past, Turns
<1> QED BY <1>2, <1>3, <1>5, <1>6, <1>7, OpenAlone

LEMMA OpensRead ==
    ASSUME TypeOK, OpenInv, NEW h \in Processes, ReadVersion(h) PROVE OpenInv'
<1>1. /\ file' = file
      /\ \/ file.version = 3 /\ Opened(h, "version", "load")
         \/ file.version = 2 /\ Opened(h, "version", "stamp")
         \/ file.version = 0 /\ Opened(h, "version", "rename")
  BY ReadDoes
<1>2. At(h, "version") /\ cut' = cut /\ Opening(h) /\ ~Rebuilding(h)
  BY <1>1 DEF Opened, At, Opening, Rebuilding
<1> SUFFICES ASSUME ~cut PROVE OpenInv'
  BY <1>2 DEF OpenInv
<1>3. /\ StageFits(h) /\ \A g \in Processes : g # h => ~Opening(g)
      /\ \A g \in Processes : g # h /\ Past(g) => file.version = 3
      /\ Whole(file)
  BY <1>2, OpensAlone
<1>4. file.tickets # Absent
  BY <1>2, <1>3 DEF StageFits
<1>5. CASE file.version = 3 /\ Turns(h, "load")
  <2>1. StageFits(h)'
    BY <1>1, <1>5 DEF StageFits, At, Past, Turns
  <2> QED BY <1>1, <1>3, <1>5, <2>1, OpenAlone
<1>6. CASE file.version = 2 /\ Turns(h, "stamp")
  <2>1. StageFits(h)'
    BY <1>1, <1>3, <1>4, <1>6 DEF StageFits, At, Past, Turns, Whole
  <2> QED BY <1>1, <1>3, <1>6, <2>1, OpenAlone
<1>7. CASE file.version = 0 /\ Turns(h, "rename")
  <2>1. StageFits(h)'
    BY <1>1, <1>3, <1>4, <1>7 DEF StageFits, At, Past, Turns, Whole
  <2> QED BY <1>1, <1>3, <1>7, <2>1, OpenAlone
<1> QED BY <1>1, <1>5, <1>6, <1>7 DEF Opened, Moves, Turns

(* A migrating step.                                                       *)
LEMMA OpensFurther ==
    ASSUME TypeOK, OpenInv, ~cut, NEW h \in Processes, NEW from \in {"rename", "new", "copy", "drop"},
           NEW stage \in {"new", "copy", "drop", "stamp"},
           Opened(h, from, stage), StageFits(h)'
    PROVE  OpenInv'
<1>1. Opening(h) /\ Turns(h, stage) /\ At(h, from) /\ Rebuilding(h)'
  BY DEF Opened, Moves, Turns, At, Opening, Migrating, Rebuilding
<1>2. /\ \A g \in Processes : g # h => ~Opening(g)
      /\ \A g \in Processes : g # h /\ Past(g) => file.version = 3
      /\ StageFits(h)
  BY <1>1, OpensAlone
<1>3. \A g \in Processes : g # h => ~Past(g)
  <2>1. file.version = 0
    BY <1>1, <1>2 DEF StageFits, At
  <2> QED BY <1>2, <2>1
<1> QED BY <1>1, <1>2, <1>3, OpenAlone

(* No statement fails.                                                     *)
LEMMA OpensRename ==
    ASSUME TypeOK, OpenInv, NEW h \in Processes, RenameTable(h) PROVE OpenInv'
<1>1. At(h, "rename") /\ cut' = cut /\ Opening(h)
  BY DEF RenameTable, At, Opening, Migrating
<1> SUFFICES ASSUME ~cut PROVE OpenInv'
  BY <1>1 DEF OpenInv
<1>2. /\ file.version = 0 /\ file.legacy = Absent /\ file.tickets # Absent
      /\ file.tickets.columns = "payload"
  BY <1>1, OpensAlone DEF StageFits
<1>4. Opened(h, "rename", "new") /\ FilePut(Absent, file.tickets, file.version)
  BY <1>2, RenameDoes
<1>5. StageFits(h)'
  BY <1>2, <1>4 DEF StageFits, At, Past, Opened, Moves, FilePut
<1> QED BY <1>4, <1>5, OpensFurther

LEMMA OpensNew ==
    ASSUME TypeOK, OpenInv, NEW h \in Processes, NewTable(h) PROVE OpenInv'
<1>1. At(h, "new") /\ cut' = cut /\ Opening(h)
  BY DEF NewTable, At, Opening, Migrating
<1> SUFFICES ASSUME ~cut PROVE OpenInv'
  BY <1>1 DEF OpenInv
<1>2. /\ file.version = 0 /\ file.tickets = Absent /\ file.legacy # Absent
      /\ file.legacy.columns = "payload"
  BY <1>1, OpensAlone DEF StageFits
<1> DEFINE table == Table("columns", NoRows)
<1>3. Opened(h, "new", "copy") /\ FilePut(table, file.legacy, file.version)
  BY <1>2, NewDoes
<1>4. table # Absent
  BY FileHas, NoRowsIs, TablesAreThere
<1> HIDE DEF table
<1>5. file'.tickets = table /\ file'.legacy = file.legacy /\ file'.version = 0
      /\ process'[h].stage = "copy"
  BY <1>2, <1>3 DEF Opened, Moves, FilePut
<1>6. StageFits(h)'
  BY <1>2, <1>4, <1>5 DEF StageFits, At, Past, table
<1> QED BY <1>3, <1>6, OpensFurther

LEMMA OpensCopy ==
    ASSUME TypeOK, OpenInv, NEW h \in Processes, CopyRows(h) PROVE OpenInv'
<1>1. At(h, "copy") /\ cut' = cut /\ Opening(h)
  BY DEF CopyRows, At, Opening, Migrating
<1> SUFFICES ASSUME ~cut PROVE OpenInv'
  BY <1>1 DEF OpenInv
<1>2. /\ file.version = 0 /\ file.tickets # Absent /\ file.tickets = Table("columns", NoRows)
      /\ file.legacy # Absent /\ file.legacy.columns = "payload"
  BY <1>1, OpensAlone DEF StageFits
<1>3. Rows(file.tickets) = {} /\ file.tickets.columns = "columns"
  BY <1>2, NoRowsIs DEF Rows, Table
<1> DEFINE rows == Over(file.legacy.rows, file.tickets.rows)
           table == Table(file.tickets.columns, rows)
<1>4. Opened(h, "copy", "drop") /\ FilePut(table, file.legacy, file.version)
  BY <1>2, <1>3, CopyDoes
<1>5. table # Absent /\ table.columns = "columns"
  <2>1. file.legacy \in Tables(clock) /\ file.tickets \in Tables(clock) /\ clock \in Nat
        /\ clock \in 0..MaxClock
    BY <1>2, FileHas
  <2>2. rows \in RowSets(clock)
    BY <2>1, FileHas, OverHas
  <2> HIDE DEF rows
  <2> QED BY <1>3, <2>1, <2>2, TablesAreThere
<1> HIDE DEF table, rows
<1>6. file'.tickets = table /\ file'.legacy = file.legacy /\ file'.version = 0
      /\ process'[h].stage = "drop"
  BY <1>2, <1>4 DEF Opened, Moves, FilePut
<1>7. StageFits(h)'
  BY <1>2, <1>5, <1>6 DEF StageFits, At, Past
<1> QED BY <1>4, <1>7, OpensFurther

LEMMA OpensDrop ==
    ASSUME TypeOK, OpenInv, NEW h \in Processes, DropTable(h) PROVE OpenInv'
<1>1. At(h, "drop") /\ cut' = cut /\ Opening(h)
  BY DEF DropTable, At, Opening, Migrating
<1> SUFFICES ASSUME ~cut PROVE OpenInv'
  BY <1>1 DEF OpenInv
<1>2. /\ file.version = 0 /\ file.tickets # Absent /\ file.tickets.columns = "columns"
      /\ file.legacy # Absent /\ file.legacy.columns = "payload"
  BY <1>1, OpensAlone DEF StageFits
<1>3. Opened(h, "drop", "stamp") /\ FilePut(file.tickets, Absent, file.version)
  BY <1>2, DropDoes
<1>4. StageFits(h)'
  BY <1>2, <1>3 DEF StageFits, At, Past, Opened, Moves, FilePut
<1> QED BY <1>3, <1>4, OpensFurther

LEMMA OpensStamp ==
    ASSUME TypeOK, OpenInv, NEW h \in Processes, StampVersion(h) PROVE OpenInv'
<1>1. /\ At(h, "stamp") /\ cut' = cut /\ Opening(h)
      /\ Opened(h, "stamp", "load") /\ FilePut(file.tickets, file.legacy, 3)
  BY StampDoes DEF StampVersion, At, Opening, Migrating
<1> SUFFICES ASSUME ~cut PROVE OpenInv'
  BY <1>1 DEF OpenInv
<1>2. /\ file.tickets # Absent /\ file.tickets.columns = "columns" /\ file.legacy = Absent
      /\ \A g \in Processes : g # h => ~Opening(g)
  BY <1>1, OpensAlone DEF StageFits
<1>3. file'.tickets = file.tickets /\ file'.legacy = file.legacy /\ file'.version = 3
      /\ Turns(h, "load")
  BY <1>1 DEF Opened, Moves, FilePut, Turns
<1>4. StageFits(h)'
  BY <1>3 DEF StageFits, At, Past, Turns
<1>5. Whole(file')
  BY <1>2, <1>3 DEF Whole
<1> QED BY <1>2, <1>3, <1>4, <1>5, OpenAlone

LEMMA OpensLoad ==
    ASSUME TypeOK, OpenInv, NEW h \in Processes, Load(h) \/ LoadFails(h) \/ ReplaceFails(h)
    PROVE  OpenInv'
<1>0. cut' = cut /\ file' = file /\ process[h].stage \in {"load", "replace"}
  BY DEF Load, Loaded, LoadFails, ReplaceFails, At
<1> SUFFICES ASSUME ~cut PROVE OpenInv'
  BY <1>0 DEF OpenInv
<1>1. SameShape /\ Past(h) /\ ~Rebuilding(h)
  BY <1>0 DEF SameShape, Past, Rebuilding
<1>2. \E stage \in {"replace", "sqlite"} : Turns(h, stage)
  <2>1. CASE Load(h)
    BY <2>1, LoadDoes DEF HasLoaded, Turns
  <2>2. CASE LoadFails(h)
    BY <2>2, LoadFailsDoes DEF Moves, Turns
  <2>3. CASE ReplaceFails(h)
    BY <2>3, ReplaceFailsDoes DEF Moves, Turns
  <2> QED BY <2>1, <2>2, <2>3
<1> QED BY <1>1, <1>2, OpenApart

LEMMA OpensReplace ==
    ASSUME TypeOK, OpenInv, NEW h \in Processes, Replace(h) PROVE OpenInv'
<1>1. /\ At(h, "replace") /\ Readable /\ Moves(process', process, h, "sqlite") /\ cut' = cut
      /\ Wrote(file', file, process[h].rows, process[h].logs)
  BY ReplaceDoes DEF Replace
<1> SUFFICES ASSUME ~cut PROVE OpenInv'
  BY <1>1 DEF OpenInv
<1>2. Turns(h, "sqlite") /\ Past(h) /\ ~Rebuilding(h)
  BY <1>1 DEF Moves, Turns, Past, Rebuilding, At
<1>3. file.version = 3 /\ file.tickets # Absent
  BY <1>1, <1>2 DEF OpenInv, StageFits, Readable
<1> DEFINE rows == process[h].rows
           table == Table(file.tickets.columns, rows)
<1>4. table # Absent /\ table.columns = file.tickets.columns
  <2>1. rows \in RowSets(clock)
    <3>1. process[h] \in Loads(clock)
      BY DEF TypeOK
    <3> QED BY <3>1 DEF Loads
  <2>2. file.tickets.columns \in {"payload", "columns"} /\ clock \in 0..MaxClock
    BY <1>3, FileHas
  <2> HIDE DEF rows
  <2> QED BY <2>1, <2>2, TablesAreThere
<1> HIDE DEF table
<1>5. SameShape
  BY <1>1, <1>3, <1>4 DEF SameShape, Wrote, table
<1> QED BY <1>2, <1>5, OpenApart

LEMMA OpensStop ==
    ASSUME TypeOK, OpenInv, NEW h \in Processes, Stop(h) PROVE OpenInv'
<1>1. /\ process'[h] = Off /\ \A g \in Processes : g # h => process'[g] = process[g]
      /\ file' = file /\ cut' = (cut \/ (Migrating(h) /\ file.version < 2))
  BY StopDoes DEF Stop
<1>2. Turns(h, "off") /\ SameShape
  BY <1>1 DEF Turns, Off, SameShape
<1> SUFFICES ASSUME ~cut' PROVE OpenInv'
  BY DEF OpenInv
<1>3. ~cut /\ ~(Migrating(h) /\ file.version < 2)
  BY <1>1
<1>4. Rebuilding(h) => Whole(file)
  <2> SUFFICES ASSUME Rebuilding(h) PROVE Whole(file)
    OBVIOUS
  <2>1. Migrating(h) /\ file.version # 0 /\ file.version \in {0, 2, 3}
    BY <1>3, FileHas DEF Rebuilding, Migrating
  <2>2. At(h, "stamp")
    BY <1>3, <2>1 DEF OpenInv, StageFits, Rebuilding, At
  <2> QED BY <1>3, <2>1, <2>2 DEF OpenInv, StageFits, Whole
<1> QED BY <1>2, <1>3, <1>4, OpenApart

LEMMA OpensCommit ==
    ASSUME TypeOK, OpenInv, NEW w \in Workers, Commit(w) PROVE OpenInv'
<1>1. Commits(w)
  BY CommitDoes
<1> SUFFICES ASSUME ~cut PROVE OpenInv'
  BY <1>1 DEF OpenInv, Commits
<1>2. Owner \in Processes /\ Past(Owner) /\ ~Rebuilding(Owner) /\ Turns(Owner, "sqlite")
  BY <1>1 DEF Commits, Processes, Past, Rebuilding, Turns, At
<1>3. file.version = 3 /\ file'.version = file.version /\ file'.legacy = file.legacy
  BY <1>1, <1>2 DEF OpenInv, StageFits, Commits
<1>4. SameShape
  <2>1. CASE unit[w].upsert = None
    <3>1. file'.tickets = file.tickets
      BY <1>1, <2>1 DEF Commits
    <3> QED BY <1>3, <3>1 DEF SameShape
  <2>2. CASE unit[w].upsert # None
    <3> DEFINE rows == RowsWith(unit[w], file.tickets.rows)
               table == Table(file.tickets.columns, rows)
    <3>1. file.tickets # Absent /\ file'.tickets = table
      BY <1>1, <2>2 DEF Commits, Readable
    <3>2. unit[w] \in Units(clock) /\ clock \in 0..MaxClock /\ clock \in Nat
          /\ file.tickets.rows \in RowSets(clock) /\ file.tickets.columns \in {"payload", "columns"}
      BY <3>1, FileHas DEF TypeOK
    <3>3. rows \in RowSets(clock)
      BY <2>2, <3>2, RowsWithHas
    <3> HIDE DEF rows
    <3>4. table # Absent /\ table.columns = file.tickets.columns
      BY <3>2, <3>3, TablesAreThere
    <3> QED BY <1>3, <3>1, <3>4 DEF SameShape
  <2> QED BY <2>1, <2>2
<1> QED BY <1>2, <1>3, <1>4, OpenApart

LEMMA OpensNext == TypeOK /\ OpenInv /\ [Next]_vars => OpenInv'
<1> SUFFICES ASSUME TypeOK, OpenInv, [Next]_vars PROVE OpenInv'
  OBVIOUS
<1>1. CASE UNCHANGED vars
  BY <1>1, OpenIdle DEF vars
<1>2. ASSUME NEW h \in Processes, Start(h) \/ Stop(h) PROVE OpenInv'
  BY <1>2, OpensStart, OpensStop
<1>3. ASSUME NEW h \in Processes, OpenStep(h) PROVE OpenInv'
  <2>1. CASE CreateTables(h) \/ ReadVersion(h) \/ RenameTable(h) \/ NewTable(h)
    BY <2>1, OpensCreate, OpensRead, OpensRename, OpensNew
  <2>2. CASE CopyRows(h) \/ CopyFails(h) \/ DropTable(h) \/ StampVersion(h)
    BY <2>2, OpensCopy, OpensDrop, OpensStamp DEF CopyFails, OpenInv
  <2>3. CASE Load(h) \/ LoadFails(h) \/ Replace(h) \/ ReplaceFails(h)
    BY <2>3, OpensLoad, OpensReplace
  <2> QED BY <1>3, <2>1, <2>2, <2>3 DEF OpenStep
<1>4. ASSUME NEW w \in Workers, UnitStep(w) PROVE OpenInv'
  <2>1. CASE Acquire(w) \/ StampOnly(w) \/ ClearLogs(w)
    BY <2>1, OpenIdle DEF Acquire, StampOnly, ClearLogs, Begin
  <2>2. CASE StampEntry(w) \/ PushEntry(w) \/ CommitFails(w) \/ GiveUp(w)
    BY <2>2, OpenIdle DEF StampEntry, PushEntry, CommitFails, GiveUp
  <2>3. CASE Commit(w)
    BY <2>3, OpensCommit
  <2>4. ASSUME NEW t \in DOMAIN memory.tickets, Touch(w, t) PROVE OpenInv'
    BY <2>4, OpenIdle DEF Touch, Begin
  <2> QED BY <1>4, <2>1, <2>2, <2>3, <2>4 DEF UnitStep
<1> QED BY <1>1, <1>2, <1>3, <1>4 DEF Next

LEMMA OpensInit == Init => OpenInv
<1> SUFFICES ASSUME Init PROVE OpenInv
  OBVIOUS
<1>1. Whole(file) /\ \A h \in Processes : process[h].stage = "off"
  BY DatabasesAssumption DEF Init, Off
<1> QED BY <1>1 DEF OpenInv, StageFits, At, Past, Opening, Migrating

THEOREM OpeningsSucceed == Spec => []OpensUnlessCut
<1>1. Init => TypeOK /\ OpenInv
  BY InitTypes, OpensInit
<1>2. TypeOK /\ OpenInv /\ [Next]_vars => TypeOK' /\ OpenInv'
  BY NextTypes, OpensNext
<1>3. OpenInv => OpensUnlessCut
  BY DEF OpenInv, StageFits, OpensUnlessCut
<1> QED BY <1>1, <1>2, <1>3, PTL DEF Spec

-----------------------------------------------------------------------------
(* Where the rows are while the file is not of the last version.           *)
Busy(S) == \E h \in Processes : process[h].stage \in S
Once(S) == \A g, h \in Processes : process[g].stage \in S /\ process[h].stage \in S => g = h

InOldTable ==
    /\ file.legacy = Absent /\ file.tickets # Absent /\ file.tickets.columns = "payload"
    /\ ~Busy({"new", "copy", "drop", "stamp"})
Moved ==
    /\ file.legacy # Absent /\ file.legacy.columns = "payload" /\ Rows(file.tickets) = {}
    /\ ~Busy({"drop", "stamp"}) /\ Once({"new", "copy"})
    /\ Busy({"copy"}) => file.tickets # Absent /\ file.tickets.columns = "columns"
Copied ==
    /\ file.legacy # Absent /\ file.legacy.columns = "payload"
    /\ file.tickets # Absent /\ file.tickets.columns = "columns"
    /\ Rows(file.tickets) = Rows(file.legacy)
    /\ ~Busy({"new", "copy", "stamp"}) /\ Once({"drop"})
InNewTable ==
    /\ file.legacy = Absent /\ file.tickets # Absent /\ file.tickets.columns = "columns"
    /\ ~Busy({"new", "copy", "drop"})
MovedAgain ==
    /\ file.legacy # Absent /\ file.legacy.columns = "columns" /\ Rows(file.tickets) = {}
    /\ ~Busy({"drop"})

(* Then a table of the first version has no rows, and only one process is  *)
(* still migrating.                                                        *)
LastVersion ==
    /\ Once({"rename", "new", "copy", "drop", "stamp"})
    /\ file.tickets # Absent /\ file.tickets.columns = "payload" => Rows(file.tickets) = {}
    /\ file.legacy # Absent /\ file.legacy.columns = "payload" => Rows(file.legacy) = {}
    /\ Busy({"drop"}) => Rows(file.legacy) = {}
SecondVersion ==
    /\ file.legacy = Absent /\ file.tickets # Absent /\ file.tickets.columns = "columns"
    /\ ~Busy({"rename", "new", "copy", "drop"})

NotPast == file.version # 3 => ~Busy({"load", "replace", "sqlite"})
RowsLast == file.version = 3 => LastVersion
RowsSecond == file.version = 2 => SecondVersion
RowsFirst == file.version # 3 /\ Kept(file) # {} =>
                InOldTable \/ Moved \/ Copied \/ InNewTable \/ MovedAgain

RowsInv == NotPast /\ RowsLast /\ RowsSecond /\ RowsFirst

(* The other process.                                                      *)
LEMMA TheOther ==
    ASSUME NEW h \in Processes
    PROVE  \E g \in Processes : g # h /\ Processes = {g, h}
  BY TablesAssumption DEF Processes

(* A process that does not touch the tables.                               *)
LEMMA RowsApart ==
    ASSUME RowsInv, NEW h \in Processes,
           NEW stage \in {"off", "create", "version", "rename", "load", "replace", "sqlite", "memory"},
           Turns(h, stage), file' = file,
           stage = "rename" => file.version = 0,
           stage \in {"load", "replace", "sqlite"} => file.version = 3
    PROVE  RowsInv'
<1>1. ASSUME NEW S \in SUBSET {"new", "copy", "drop", "stamp"}
      PROVE  (Busy(S)' => Busy(S)) /\ (Once(S) => Once(S)')
  BY DEF Busy, Once, Turns
<1>2. file.version # 3 => (Busy({"load", "replace", "sqlite"})' => Busy({"load", "replace", "sqlite"}))
  BY DEF Busy, Turns
<1>3. file.version # 0 =>
         /\ Once({"rename", "new", "copy", "drop", "stamp"}) => Once({"rename", "new", "copy", "drop", "stamp"})'
         /\ Busy({"rename", "new", "copy", "drop"})' => Busy({"rename", "new", "copy", "drop"})
  BY DEF Busy, Once, Turns
<1>4. /\ Busy({"new", "copy", "drop", "stamp"})' => Busy({"new", "copy", "drop", "stamp"})
      /\ Busy({"drop", "stamp"})' => Busy({"drop", "stamp"})
      /\ Once({"new", "copy"}) => Once({"new", "copy"})'
      /\ Busy({"copy"})' => Busy({"copy"})
      /\ Busy({"new", "copy", "stamp"})' => Busy({"new", "copy", "stamp"})
      /\ Once({"drop"}) => Once({"drop"})'
      /\ Busy({"new", "copy", "drop"})' => Busy({"new", "copy", "drop"})
      /\ Busy({"drop"})' => Busy({"drop"})
  BY <1>1
<1>5. /\ InOldTable => InOldTable'
      /\ Moved => Moved'
      /\ Copied => Copied'
      /\ InNewTable => InNewTable'
      /\ MovedAgain => MovedAgain'
  BY <1>4 DEF InOldTable, Moved, Copied, InNewTable, MovedAgain
<1>6. file.version = 3 /\ LastVersion => LastVersion'
  BY <1>3, <1>4 DEF LastVersion
<1>7. file.version = 2 /\ SecondVersion => SecondVersion'
  BY <1>3 DEF SecondVersion
<1>8. Kept(file)' = Kept(file)
  BY DEF Kept, Rows
<1>9. NotPast'
  BY <1>2 DEF RowsInv, NotPast
<1>10. RowsLast'
  BY <1>6 DEF RowsInv, RowsLast
<1>11. RowsSecond'
  BY <1>7 DEF RowsInv, RowsSecond
<1>12. RowsFirst'
  BY <1>5, <1>8 DEF RowsInv, RowsFirst
<1> QED BY <1>9, <1>10, <1>11, <1>12 DEF RowsInv

(* A step of one process, and what the other is at.                        *)
Turned(g, h, from, to) ==
    /\ Processes = {g, h} /\ g # h
    /\ process[h].stage = from /\ process'[h].stage = to
    /\ process'[g].stage = process[g].stage

LEMMA OpenedTurns ==
    ASSUME NEW h \in Processes, NEW from, NEW to, Opened(h, from, to)
    PROVE  \E g \in Processes : Turned(g, h, from, to)
<1>1. PICK g \in Processes : g # h /\ Processes = {g, h}
  BY TheOther
<1>2. process[h].stage = from /\ process'[h].stage = to /\ process'[g].stage = process[g].stage
  BY <1>1 DEF Opened, At, Moves
<1> QED BY <1>1, <1>2 DEF Turned

LEMMA BusyTurns ==
    ASSUME NEW h, NEW g, NEW from, NEW to, Turned(g, h, from, to)
    PROVE  /\ \A S : Busy(S) <=> process[g].stage \in S \/ from \in S
           /\ \A S : Busy(S)' <=> process[g].stage \in S \/ to \in S
           /\ \A S : Once(S) <=> ~(process[g].stage \in S /\ from \in S)
           /\ \A S : Once(S)' <=> ~(process[g].stage \in S /\ to \in S)
  BY DEF Busy, Once, Turned

LEMMA RowsOf ==
    ASSUME TypeOK
    PROVE  /\ Rows(Absent) = {}
           /\ \A t \in Tables(clock) : Rows(t) = DOMAIN t.rows
           /\ \A columns \in {"payload", "columns"}, rows \in RowSets(clock) :
                 /\ Table(columns, rows) # Absent /\ Rows(Table(columns, rows)) = DOMAIN rows
                 /\ Table(columns, rows).columns = columns /\ Table(columns, rows).rows = rows
           /\ DOMAIN NoRows = {} /\ NoRows \in RowSets(clock)
<1>1. Rows(Absent) = {} /\ \A t \in Tables(clock) : Rows(t) = DOMAIN t.rows
  BY FileHas DEF Rows
<1>2. ASSUME NEW columns \in {"payload", "columns"}, NEW rows \in RowSets(clock)
      PROVE  /\ Table(columns, rows) # Absent /\ Rows(Table(columns, rows)) = DOMAIN rows
             /\ Table(columns, rows).columns = columns /\ Table(columns, rows).rows = rows
  BY FileHas, TablesAreThere DEF Rows
<1> QED BY <1>1, <1>2, FileHas, NoRowsIs

LEMMA RowsCreate ==
    ASSUME TypeOK, RowsInv, NEW h \in Processes, CreateTables(h)
    PROVE  RowsInv' /\ Kept(file)' = Kept(file)
<1> DEFINE table == Table("payload", NoRows)
<1>1. /\ Opened(h, "create", "version")
      /\ FilePut(IF file.tickets = Absent THEN table ELSE file.tickets, file.legacy, file.version)
  BY CreateDoes
<1>2. PICK g \in Processes : Turned(g, h, "create", "version")
  BY <1>1, OpenedTurns
<1>3. table # Absent /\ table.columns = "payload" /\ Rows(table) = {} /\ Rows(Absent) = {}
  BY RowsOf
<1> HIDE DEF table
<1>4. /\ file'.tickets = IF file.tickets = Absent THEN table ELSE file.tickets
      /\ file'.legacy = file.legacy /\ file'.version = file.version
  BY <1>1 DEF FilePut
<1>5. Rows(file'.tickets) = Rows(file.tickets) /\ Rows(file'.legacy) = Rows(file.legacy)
  BY <1>3, <1>4
<1>6. Kept(file)' = Kept(file)
  BY <1>5 DEF Kept, Rows
<1> DEFINE s == process[g].stage
<1>7. /\ \A S : Busy(S) <=> s \in S \/ "create" \in S
      /\ \A S : Busy(S)' <=> s \in S \/ "version" \in S
      /\ \A S : Once(S) <=> ~(s \in S /\ "create" \in S)
      /\ \A S : Once(S)' <=> ~(s \in S /\ "version" \in S)
  BY <1>2, BusyTurns
<1> HIDE DEF s
<1>8. NotPast /\ RowsLast /\ RowsSecond /\ RowsFirst
  BY DEF RowsInv
<1>9. NotPast'
  BY <1>4, <1>7, <1>8 DEF NotPast
<1>10. RowsLast'
  BY <1>3, <1>4, <1>5, <1>7, <1>8 DEF RowsLast, LastVersion
<1>11. RowsSecond'
  BY <1>4, <1>7, <1>8 DEF RowsSecond, SecondVersion
<1>12. /\ InOldTable => InOldTable'
       /\ Moved => Moved'
       /\ Copied => Copied'
       /\ InNewTable => InNewTable'
       /\ MovedAgain => MovedAgain'
  BY <1>3, <1>4, <1>5, <1>7 DEF InOldTable, Moved, Copied, InNewTable, MovedAgain
<1>13. RowsFirst'
  BY <1>4, <1>6, <1>8, <1>12 DEF RowsFirst
<1> QED BY <1>6, <1>9, <1>10, <1>11, <1>13 DEF RowsInv
LEMMA RowsRename ==
    ASSUME TypeOK, RowsInv, NEW h \in Processes, RenameTable(h)
    PROVE  RowsInv' /\ Kept(file)' = Kept(file)
<1>a. CASE GivesUp(h, "rename")
  <2>1. Turns(h, "memory") /\ file' = file
    BY <1>a DEF GivesUp, Opened, Moves, Turns
  <2> QED BY <2>1, RowsApart DEF Kept, Rows
<1>b. CASE /\ file.legacy = Absent /\ file.tickets # Absent
           /\ Opened(h, "rename", "new") /\ FilePut(Absent, file.tickets, file.version)
  <2>1. PICK g \in Processes : Turned(g, h, "rename", "new")
    BY <1>b, OpenedTurns
  <2>2. /\ file.legacy = Absent /\ file.tickets # Absent /\ file'.tickets = Absent
        /\ file'.legacy = file.tickets /\ file'.version = file.version /\ Rows(Absent) = {}
    BY <1>b, RowsOf DEF FilePut
  <2>3. Kept(file)' = Kept(file)
    BY <2>2 DEF Kept, Rows
  <2> DEFINE s == process[g].stage
  <2>4. /\ \A S : Busy(S) <=> s \in S \/ "rename" \in S
        /\ \A S : Busy(S)' <=> s \in S \/ "new" \in S
        /\ \A S : Once(S) <=> ~(s \in S /\ "rename" \in S)
        /\ \A S : Once(S)' <=> ~(s \in S /\ "new" \in S)
    BY <2>1, BusyTurns
  <2> HIDE DEF s
  <2>5. NotPast /\ RowsLast /\ RowsSecond /\ RowsFirst
    BY DEF RowsInv
  <2>6. NotPast'
    BY <2>2, <2>4, <2>5 DEF NotPast
  <2>7. RowsLast'
    BY <2>2, <2>4, <2>5 DEF RowsLast, LastVersion
  <2>8. file.version # 2
    BY <2>4, <2>5 DEF RowsSecond, SecondVersion
  <2>9. /\ InOldTable => Moved'
        /\ InNewTable => MovedAgain'
        /\ ~Moved /\ ~Copied /\ ~MovedAgain
    BY <2>2, <2>4 DEF InOldTable, Moved, Copied, InNewTable, MovedAgain
  <2>10. RowsFirst'
    BY <2>2, <2>3, <2>5, <2>9 DEF RowsFirst
  <2> QED BY <2>2, <2>3, <2>6, <2>7, <2>8, <2>10 DEF RowsInv, RowsSecond
<1> QED BY <1>a, <1>b, RenameDoes

LEMMA RowsNew ==
    ASSUME TypeOK, RowsInv, NEW h \in Processes, NewTable(h)
    PROVE  RowsInv' /\ Kept(file)' = Kept(file)
<1> DEFINE table == Table("columns", NoRows)
<1>a. CASE GivesUp(h, "new")
  <2>1. Turns(h, "memory") /\ file' = file
    BY <1>a DEF GivesUp, Opened, Moves, Turns
  <2> QED BY <2>1, RowsApart DEF Kept, Rows
<1>b. CASE /\ file.tickets = Absent
           /\ Opened(h, "new", "copy") /\ FilePut(table, file.legacy, file.version)
  <2>1. PICK g \in Processes : Turned(g, h, "new", "copy")
    BY <1>b, OpenedTurns
  <2>2. /\ file.tickets = Absent /\ file'.tickets = table /\ table # Absent
        /\ table.columns = "columns" /\ Rows(table) = {} /\ Rows(Absent) = {}
        /\ file'.legacy = file.legacy /\ file'.version = file.version
    BY <1>b, RowsOf DEF FilePut
  <2> HIDE DEF table
  <2>3. Kept(file)' = Kept(file)
    <3>1. Rows(file'.tickets) = Rows(file.tickets) /\ Rows(file'.legacy) = Rows(file.legacy)
      BY <2>2
    <3> QED BY <3>1 DEF Kept, Rows
  <2> DEFINE s == process[g].stage
  <2>4. /\ \A S : Busy(S) <=> s \in S \/ "new" \in S
        /\ \A S : Busy(S)' <=> s \in S \/ "copy" \in S
        /\ \A S : Once(S) <=> ~(s \in S /\ "new" \in S)
        /\ \A S : Once(S)' <=> ~(s \in S /\ "copy" \in S)
    BY <2>1, BusyTurns
  <2> HIDE DEF s
  <2>5. NotPast /\ RowsLast /\ RowsSecond /\ RowsFirst
    BY DEF RowsInv
  <2>6. NotPast'
    BY <2>2, <2>4, <2>5 DEF NotPast
  <2>7. RowsLast'
    BY <2>2, <2>4, <2>5 DEF RowsLast, LastVersion
  <2>8. file.version # 2
    BY <2>4, <2>5 DEF RowsSecond, SecondVersion
  <2>9. /\ ~InOldTable /\ ~Copied /\ ~InNewTable
        /\ Moved => Moved'
        /\ MovedAgain => MovedAgain'
    BY <2>2, <2>4 DEF InOldTable, Moved, Copied, InNewTable, MovedAgain
  <2>10. RowsFirst'
    BY <2>2, <2>3, <2>5, <2>9 DEF RowsFirst
  <2> QED BY <2>2, <2>3, <2>6, <2>7, <2>8, <2>10 DEF RowsInv, RowsSecond
<1> QED BY <1>a, <1>b, NewDoes

LEMMA RowsCopy ==
    ASSUME TypeOK, RowsInv, NEW h \in Processes, CopyRows(h)
    PROVE  RowsInv' /\ Kept(file) \subseteq Kept(file)'
<1> DEFINE rows == Over(file.legacy.rows, file.tickets.rows)
           table == Table(file.tickets.columns, rows)
<1>a. CASE GivesUp(h, "copy")
  <2>1. Turns(h, "memory") /\ file' = file
    BY <1>a DEF GivesUp, Opened, Moves, Turns
  <2> QED BY <2>1, RowsApart DEF Kept, Rows
<1>b. CASE /\ file.legacy # Absent /\ file.legacy.columns = "payload"
           /\ file.tickets # Absent /\ Rows(file.legacy) \cap Rows(file.tickets) = {}
           /\ Opened(h, "copy", "drop") /\ FilePut(table, file.legacy, file.version)
  <2>1. PICK g \in Processes : Turned(g, h, "copy", "drop")
    BY <1>b, OpenedTurns
  <2>2. /\ file.tickets \in Tables(clock) /\ file.legacy \in Tables(clock)
        /\ file.tickets.rows \in RowSets(clock) /\ file.legacy.rows \in RowSets(clock)
        /\ file.tickets.columns \in {"payload", "columns"}
    BY <1>b, FileHas
  <2>3. rows \in RowSets(clock) /\ DOMAIN rows = Rows(file.legacy) \cup Rows(file.tickets)
    <3>1. rows \in RowSets(clock)
          /\ DOMAIN rows = DOMAIN file.legacy.rows \cup DOMAIN file.tickets.rows
      <4> DEFINE a == file.legacy.rows
                 b == file.tickets.rows
      <4>1. a \in RowSets(clock) /\ b \in RowSets(clock)
        BY <2>2
      <4>2. clock \in Nat
        BY FileHas
      <4> HIDE DEF a, b
      <4>3. Over(a, b) \in RowSets(clock) /\ DOMAIN Over(a, b) = DOMAIN a \cup DOMAIN b
        BY <4>1, <4>2, OverHas
      <4> QED BY <4>3 DEF a, b
    <3>2. Rows(file.legacy) = DOMAIN file.legacy.rows /\ Rows(file.tickets) = DOMAIN file.tickets.rows
      BY <1>b DEF Rows
    <3> HIDE DEF rows
    <3> QED BY <3>1, <3>2
  <2> HIDE DEF rows
  <2>4. /\ file.tickets # Absent /\ file.legacy # Absent /\ file.legacy.columns = "payload"
        /\ file'.tickets = table /\ table # Absent
        /\ table.columns = file.tickets.columns
        /\ Rows(table) = Rows(file.legacy) \cup Rows(file.tickets)
        /\ file'.legacy = file.legacy /\ file'.version = file.version
    BY <1>b, <2>2, <2>3, RowsOf DEF FilePut
  <2> HIDE DEF table
  <2>5. Kept(file)' = Kept(file)
    <3>1. Rows(file'.tickets) \cup Rows(file'.legacy) = Rows(file.tickets) \cup Rows(file.legacy)
      BY <2>4
    <3> QED BY <3>1 DEF Kept, Rows
  <2> DEFINE s == process[g].stage
  <2>6. /\ \A S : Busy(S) <=> s \in S \/ "copy" \in S
        /\ \A S : Busy(S)' <=> s \in S \/ "drop" \in S
        /\ \A S : Once(S) <=> ~(s \in S /\ "copy" \in S)
        /\ \A S : Once(S)' <=> ~(s \in S /\ "drop" \in S)
    BY <2>1, BusyTurns
  <2> HIDE DEF s
  <2>7. NotPast /\ RowsLast /\ RowsSecond /\ RowsFirst
    BY DEF RowsInv
  <2>8. NotPast'
    BY <2>4, <2>6, <2>7 DEF NotPast
  <2>9. RowsLast'
    BY <2>4, <2>6, <2>7 DEF RowsLast, LastVersion
  <2>10. file.version # 2
    BY <2>6, <2>7 DEF RowsSecond, SecondVersion
  <2>11. /\ ~InOldTable /\ ~Copied /\ ~InNewTable /\ ~MovedAgain
         /\ Moved => Copied'
    BY <2>4, <2>6 DEF InOldTable, Moved, Copied, InNewTable, MovedAgain
  <2>12. RowsFirst'
    BY <2>4, <2>5, <2>7, <2>11 DEF RowsFirst
  <2> QED BY <2>4, <2>5, <2>8, <2>9, <2>10, <2>12 DEF RowsInv, RowsSecond
<1> QED BY <1>a, <1>b, CopyDoes

LEMMA RowsCopyFails ==
    ASSUME TypeOK, RowsInv, NEW h \in Processes, CopyFails(h)
    PROVE  RowsInv' /\ Kept(file) \subseteq Kept(file)'
<1>1. Turns(h, "memory") /\ file' = file
  BY CopyFailsDoes DEF Moves, Turns
<1> QED BY <1>1, RowsApart DEF Kept, Rows

LEMMA RowsDrop ==
    ASSUME TypeOK, RowsInv, NEW h \in Processes, DropTable(h)
    PROVE  RowsInv' /\ Kept(file) \subseteq Kept(file)'
<1>a. CASE GivesUp(h, "drop")
  <2>1. Turns(h, "memory") /\ file' = file
    BY <1>a DEF GivesUp, Opened, Moves, Turns
  <2> QED BY <2>1, RowsApart DEF Kept, Rows
<1>b. CASE /\ file.legacy # Absent
           /\ Opened(h, "drop", "stamp") /\ FilePut(file.tickets, Absent, file.version)
  <2>1. PICK g \in Processes : Turned(g, h, "drop", "stamp")
    BY <1>b, OpenedTurns
  <2>2. /\ file.legacy # Absent /\ file'.legacy = Absent /\ Rows(Absent) = {}
        /\ file'.tickets = file.tickets /\ file'.version = file.version
    BY <1>b, RowsOf DEF FilePut
  <2> DEFINE s == process[g].stage
  <2>3. /\ \A S : Busy(S) <=> s \in S \/ "drop" \in S
        /\ \A S : Busy(S)' <=> s \in S \/ "stamp" \in S
        /\ \A S : Once(S) <=> ~(s \in S /\ "drop" \in S)
        /\ \A S : Once(S)' <=> ~(s \in S /\ "stamp" \in S)
    BY <2>1, BusyTurns
  <2> HIDE DEF s
  <2>4. NotPast /\ RowsLast /\ RowsSecond /\ RowsFirst
    BY DEF RowsInv
  <2>5. file.version # 2
    BY <2>3, <2>4 DEF RowsSecond, SecondVersion
  <2>6. /\ ~InOldTable /\ ~Moved /\ ~InNewTable /\ ~MovedAgain
        /\ Copied => InNewTable'
    BY <2>2, <2>3 DEF InOldTable, Moved, Copied, InNewTable, MovedAgain
  <2>7. Rows(file.legacy) \subseteq Rows(file.tickets)
    <3>1. CASE file.version = 3
      BY <2>3, <2>4, <3>1 DEF RowsLast, LastVersion
    <3>2. CASE file.version # 3 /\ Kept(file) # {}
      BY <2>4, <2>6, <3>2 DEF RowsFirst, Copied
    <3>3. CASE Kept(file) = {}
      BY <3>3 DEF Kept
    <3> QED BY <3>1, <3>2, <3>3
  <2>8. Kept(file)' = Kept(file)
    <3>1. Rows(file'.tickets) \cup Rows(file'.legacy) = Rows(file.tickets) \cup Rows(file.legacy)
      BY <2>2, <2>7
    <3> QED BY <3>1 DEF Kept, Rows
  <2>9. NotPast'
    BY <2>2, <2>3, <2>4 DEF NotPast
  <2>10. RowsLast'
    BY <2>2, <2>3, <2>4 DEF RowsLast, LastVersion
  <2>11. RowsFirst'
    BY <2>2, <2>4, <2>6, <2>8 DEF RowsFirst
  <2> QED BY <2>2, <2>5, <2>8, <2>9, <2>10, <2>11 DEF RowsInv, RowsSecond
<1> QED BY <1>a, <1>b, DropDoes

LEMMA RowsStamp ==
    ASSUME TypeOK, RowsInv, NEW h \in Processes, StampVersion(h)
    PROVE  RowsInv' /\ Kept(file)' = Kept(file)
<1>1. Opened(h, "stamp", "load") /\ FilePut(file.tickets, file.legacy, 3)
  BY StampDoes
<1>2. PICK g \in Processes : Turned(g, h, "stamp", "load")
  BY <1>1, OpenedTurns
<1>3. file'.legacy = file.legacy /\ file'.tickets = file.tickets /\ file'.version = 3
      /\ Rows(Absent) = {}
  BY <1>1, RowsOf DEF FilePut
<1>4. Kept(file)' = Kept(file)
  BY <1>3 DEF Kept, Rows
<1> DEFINE s == process[g].stage
<1>5. /\ \A S : Busy(S) <=> s \in S \/ "stamp" \in S
      /\ \A S : Busy(S)' <=> s \in S \/ "load" \in S
      /\ \A S : Once(S) <=> ~(s \in S /\ "stamp" \in S)
      /\ \A S : Once(S)' <=> ~(s \in S /\ "load" \in S)
  BY <1>2, BusyTurns
<1> HIDE DEF s
<1>6. NotPast /\ RowsLast /\ RowsSecond /\ RowsFirst
  BY DEF RowsInv
<1>7. Once({"rename", "new", "copy", "drop", "stamp"})'
  BY <1>5
<1>8. /\ file.tickets # Absent /\ file.tickets.columns = "payload" => Rows(file.tickets) = {}
      /\ file.legacy # Absent /\ file.legacy.columns = "payload" => Rows(file.legacy) = {}
      /\ Busy({"drop"})' => Rows(file.legacy) = {}
  <2>1. CASE file.version = 3
    <3>1. LastVersion
      BY <1>6, <2>1 DEF RowsLast
    <3> QED BY <1>5, <3>1 DEF LastVersion
  <2>2. CASE file.version # 3 /\ Kept(file) # {}
    <3>1. InNewTable \/ MovedAgain
      BY <1>5, <1>6, <2>2 DEF RowsFirst, InOldTable, Moved, Copied
    <3> QED BY <1>3, <1>5, <3>1 DEF InNewTable, MovedAgain
  <2>3. CASE Kept(file) = {}
    BY <2>3 DEF Kept
  <2> QED BY <2>1, <2>2, <2>3
<1>9. LastVersion'
  BY <1>3, <1>7, <1>8 DEF LastVersion, Rows
<1> QED BY <1>3, <1>4, <1>9 DEF RowsInv, NotPast, RowsLast, RowsSecond, RowsFirst

(* Reading the version from the second on.                                 *)
LEMMA RowsRead ==
    ASSUME TypeOK, RowsInv, NEW h \in Processes, ReadVersion(h)
    PROVE  RowsInv' /\ Kept(file)' = Kept(file)
<1>1. /\ file' = file
      /\ \/ file.version = 3 /\ Opened(h, "version", "load")
         \/ file.version = 2 /\ Opened(h, "version", "stamp")
         \/ file.version = 0 /\ Opened(h, "version", "rename")
  BY ReadDoes
<1>2. Kept(file)' = Kept(file)
  BY <1>1 DEF Kept, Rows
<1>3. CASE file.version = 2 /\ Opened(h, "version", "stamp")
  <2>1. PICK g \in Processes : Turned(g, h, "version", "stamp")
    BY <1>3, OpenedTurns
  <2> DEFINE s == process[g].stage
  <2>2. /\ \A S : Busy(S) <=> s \in S \/ "version" \in S
        /\ \A S : Busy(S)' <=> s \in S \/ "stamp" \in S
    BY <2>1, BusyTurns
  <2> HIDE DEF s
  <2>3. NotPast /\ SecondVersion
    BY <1>3 DEF RowsInv, RowsSecond
  <2>4. NotPast'
    BY <1>1, <2>2, <2>3 DEF NotPast
  <2>5. SecondVersion' /\ InNewTable'
    BY <1>1, <2>2, <2>3 DEF SecondVersion, InNewTable
  <2> QED BY <1>1, <1>2, <1>3, <2>4, <2>5 DEF RowsInv, RowsLast, RowsSecond, RowsFirst
<1>4. CASE file.version = 3 /\ Opened(h, "version", "load")
  <2>1. Turns(h, "load")
    BY <1>4 DEF Opened, Moves, Turns
  <2> QED BY <1>1, <1>2, <1>4, <2>1, RowsApart
<1>5. CASE file.version = 0 /\ Opened(h, "version", "rename")
  <2>1. Turns(h, "rename")
    BY <1>5 DEF Opened, Moves, Turns
  <2> QED BY <1>1, <1>2, <1>5, <2>1, RowsApart
<1> QED BY <1>1, <1>3, <1>4, <1>5

(* A file of the last version is written.                                  *)
LEMMA RowsWrite ==
    ASSUME TypeOK, RowsInv, NEW h \in Processes, NEW stage, process[h].stage \in {"replace", "sqlite"},
           Turns(h, stage), stage = "sqlite", NEW table, table = Absent \/ table \in Tables(clock),
           table = file.tickets \/ (table # Absent /\ table.columns = "columns"),
           file'.tickets = table, file'.legacy = file.legacy, file'.version = file.version
    PROVE  RowsInv'
<1>1. PICK g \in Processes : g # h /\ Processes = {g, h}
  BY TheOther
<1>2. Turned(g, h, process[h].stage, "sqlite")
  BY <1>1 DEF Turns, Turned
<1> DEFINE s == process[g].stage
           from == process[h].stage
<1>3. /\ \A S : Busy(S) <=> s \in S \/ from \in S
      /\ \A S : Busy(S)' <=> s \in S \/ "sqlite" \in S
      /\ \A S : Once(S) <=> ~(s \in S /\ from \in S)
      /\ \A S : Once(S)' <=> ~(s \in S /\ "sqlite" \in S)
  BY <1>2, BusyTurns
<1>4. from \in {"replace", "sqlite"}
  OBVIOUS
<1> HIDE DEF s, from
<1>5. NotPast /\ RowsLast
  BY DEF RowsInv
<1>6. file.version = 3
  BY <1>3, <1>4, <1>5 DEF NotPast
<1>7. LastVersion
  BY <1>5, <1>6 DEF RowsLast
<1>8. LastVersion'
  <2>1. Once({"rename", "new", "copy", "drop", "stamp"})'
    BY <1>3
  <2>2. Busy({"drop"})' => Busy({"drop"})
    BY <1>3
  <2>3. table # Absent /\ table.columns = "payload" => table = file.tickets
    OBVIOUS
  <2>4. Rows(file'.legacy) = Rows(file.legacy)
    OBVIOUS
  <2>5. table # Absent /\ table.columns = "payload" => Rows(table) = {}
    BY <1>7, <2>3 DEF LastVersion
  <2> QED BY <1>7, <2>1, <2>2, <2>4, <2>5 DEF LastVersion
<1> QED BY <1>6, <1>8 DEF RowsInv, NotPast, RowsLast, RowsSecond, RowsFirst

LEMMA RowsLoad ==
    ASSUME TypeOK, RowsInv, NEW h \in Processes, Load(h) \/ LoadFails(h) \/ ReplaceFails(h)
    PROVE  RowsInv' /\ Kept(file)' = Kept(file)
<1>1. file' = file /\ process[h].stage \in {"load", "replace"}
  BY DEF Load, Loaded, LoadFails, ReplaceFails, At
<1>2. \E stage \in {"replace", "sqlite"} : Turns(h, stage)
  <2>1. CASE Load(h)
    BY <2>1, LoadDoes DEF HasLoaded, Turns
  <2>2. CASE LoadFails(h)
    BY <2>2, LoadFailsDoes DEF Moves, Turns
  <2>3. CASE ReplaceFails(h)
    BY <2>3, ReplaceFailsDoes DEF Moves, Turns
  <2> QED BY <2>1, <2>2, <2>3
<1>3. file.version = 3
  BY <1>1 DEF RowsInv, NotPast, Busy
<1>4. Kept(file)' = Kept(file)
  BY <1>1 DEF Kept, Rows
<1> QED BY <1>1, <1>2, <1>3, <1>4, RowsApart

LEMMA RowsReplace ==
    ASSUME TypeOK, RowsInv, NEW h \in Processes, Replace(h)
    PROVE  /\ RowsInv' /\ At(h, "replace")
           /\ \A t \in Kept(file) \ Kept(file)' : t \notin DOMAIN process[h].rows
<1> DEFINE rows == process[h].rows
           table == Table(file.tickets.columns, rows)
<1>1. /\ At(h, "replace") /\ Readable /\ Moves(process', process, h, "sqlite")
      /\ Wrote(file', file, rows, process[h].logs)
  BY ReplaceDoes
<1>2. Turns(h, "sqlite") /\ process[h].stage \in {"replace", "sqlite"}
  BY <1>1 DEF Moves, Turns, At
<1>3. rows \in RowSets(clock) /\ clock \in 0..MaxClock
  <2>1. process[h] \in Loads(clock)
    BY DEF TypeOK
  <2> QED BY <2>1, FileHas DEF Loads
<1> HIDE DEF rows
<1>4. /\ table # Absent /\ table.columns = "columns" /\ table \in Tables(clock)
      /\ Rows(table) = DOMAIN rows
  BY <1>1, <1>3, RowsOf, TablesAreThere DEF Readable
<1>5. file'.tickets = table /\ file'.legacy = file.legacy /\ file'.version = file.version
  BY <1>1 DEF Wrote
<1> HIDE DEF table
<1>6. RowsInv'
  BY <1>2, <1>4, <1>5, RowsWrite
<1>7. DOMAIN rows \subseteq Kept(file)'
  <2>1. Rows(file'.tickets) = DOMAIN rows
    BY <1>4, <1>5
  <2> QED BY <2>1 DEF Kept, Rows
<1> QED BY <1>1, <1>6, <1>7 DEF rows

LEMMA RowsStop ==
    ASSUME TypeOK, RowsInv, NEW h \in Processes, Start(h) \/ Stop(h)
    PROVE  RowsInv' /\ Kept(file)' = Kept(file)
<1>1. file' = file /\ \E stage \in {"off", "create"} : Turns(h, stage)
  <2>1. CASE Start(h)
    BY <2>1, StartDoes DEF Start, Moves, Turns
  <2>2. CASE Stop(h)
    <3>1. file' = file
      BY <2>2 DEF Stop
    <3>2. process'[h] = Off /\ \A g \in Processes \ {h} : process'[g] = process[g]
      BY <2>2, StopDoes
    <3>3. Off.stage = "off"
      BY DEF Off
    <3> QED BY <3>1, <3>2, <3>3 DEF Turns
  <2> QED BY <2>1, <2>2
<1>2. Kept(file)' = Kept(file)
  BY <1>1 DEF Kept, Rows
<1> QED BY <1>1, <1>2, RowsApart

LEMMA RowsCommit ==
    ASSUME TypeOK, RowsInv, NEW w \in Workers, Commit(w)
    PROVE  /\ RowsInv'
           /\ \A t \in Kept(file) \ Kept(file)' : t \in unit[w].deletes
<1> DEFINE rows == RowsWith(unit[w], file.tickets.rows)
           table == IF unit[w].upsert = None THEN file.tickets
                    ELSE Table(file.tickets.columns, rows)
<1>1. Commits(w)
  BY CommitDoes
<1>2. /\ Owner \in Processes /\ process[Owner].stage = "sqlite" /\ Turns(Owner, "sqlite")
      /\ file'.tickets = table /\ file'.legacy = file.legacy /\ file'.version = file.version
  BY <1>1 DEF Commits, Processes, Turns, At
<1>3. CASE unit[w].upsert = None
  <2>1. table = file.tickets /\ (table = Absent \/ table \in Tables(clock))
    BY <1>3, FileHas
  <2> HIDE DEF table
  <2>2. RowsInv'
    BY <1>2, <2>1, RowsWrite
  <2>3. Kept(file)' = Kept(file)
    BY <1>2, <2>1 DEF Kept, Rows
  <2> QED BY <2>2, <2>3
<1>4. CASE unit[w].upsert # None
  <2>1. /\ file.tickets # Absent /\ file.tickets.columns = "columns"
        /\ table = Table(file.tickets.columns, rows)
    BY <1>1, <1>4 DEF Commits, Readable
  <2>2. unit[w] \in Units(clock) /\ clock \in Nat /\ file.tickets.rows \in RowSets(clock)
        /\ clock \in 0..MaxClock
    BY <2>1, FileHas DEF TypeOK
  <2>3. /\ rows \in RowSets(clock)
        /\ DOMAIN rows = (DOMAIN file.tickets.rows \cup {unit[w].upsert}) \ unit[w].deletes
    BY <1>4, <2>2, RowsWithHas
  <2> HIDE DEF rows
  <2>4. /\ table # Absent /\ table.columns = "columns" /\ table \in Tables(clock)
        /\ Rows(table) = DOMAIN rows
    BY <2>1, <2>2, <2>3, RowsOf, TablesAreThere
  <2> HIDE DEF table
  <2>5. RowsInv'
    BY <1>2, <2>4, RowsWrite
  <2>6. Rows(file.tickets) = DOMAIN file.tickets.rows
    BY <2>1 DEF Rows
  <2>7. \A t \in Rows(file.tickets) : t \in DOMAIN rows \/ t \in unit[w].deletes
    BY <2>3, <2>6
  <2>8. DOMAIN rows \subseteq Kept(file)' /\ Rows(file.legacy) \subseteq Kept(file)'
    <3>1. Rows(file'.tickets) = DOMAIN rows /\ Rows(file'.legacy) = Rows(file.legacy)
      BY <1>2, <2>4
    <3> QED BY <3>1 DEF Kept, Rows
  <2>9. \A t \in Kept(file) : t \in Rows(file.tickets) \/ t \in Rows(file.legacy)
    BY DEF Kept
  <2> QED BY <2>5, <2>7, <2>8, <2>9
<1> QED BY <1>3, <1>4

LEMMA RowsIdle ==
    ASSUME RowsInv, UNCHANGED <<file, process>> PROVE RowsInv' /\ Kept(file)' = Kept(file)
<1>1. \A S : (Busy(S)' <=> Busy(S)) /\ (Once(S)' <=> Once(S))
  BY DEF Busy, Once
<1>2. Kept(file)' = Kept(file)
  BY DEF Kept, Rows
<1>3. /\ InOldTable => InOldTable'
      /\ Moved => Moved'
      /\ Copied => Copied'
      /\ InNewTable => InNewTable'
      /\ MovedAgain => MovedAgain'
  BY <1>1 DEF InOldTable, Moved, Copied, InNewTable, MovedAgain
<1>4. /\ LastVersion => LastVersion'
      /\ SecondVersion => SecondVersion'
      /\ NotPast => NotPast'
  BY <1>1 DEF LastVersion, SecondVersion, NotPast
<1> QED BY <1>2, <1>3, <1>4 DEF RowsInv, RowsLast, RowsSecond, RowsFirst

(* Why a row may leave.                                                    *)
Dropped ==
    \A t \in Kept(file) \ Kept(file)' :
        \/ \E w \in Workers : t \in unit[w].deletes
        \/ \E h \in Processes : At(h, "replace") /\ t \notin DOMAIN process[h].rows

LEMMA RowsNext ==
    ASSUME TypeOK, RowsInv, [Next]_vars
    PROVE  RowsInv' /\ Dropped
<1>1. CASE UNCHANGED vars
  <2>1. RowsInv' /\ Kept(file)' = Kept(file)
    BY <1>1, RowsIdle DEF vars
  <2> QED BY <2>1 DEF Dropped
<1>2. ASSUME NEW h \in Processes, Start(h) \/ Stop(h) PROVE RowsInv' /\ Dropped
  <2>1. RowsInv' /\ Kept(file)' = Kept(file)
    BY <1>2, RowsStop
  <2> QED BY <2>1 DEF Dropped
<1>3. ASSUME NEW h \in Processes, OpenStep(h) PROVE RowsInv' /\ Dropped
  <2>1. CASE CreateTables(h) \/ ReadVersion(h) \/ RenameTable(h) \/ NewTable(h)
    <3>1. RowsInv' /\ Kept(file) \subseteq Kept(file)'
      BY <2>1, RowsCreate, RowsRead, RowsRename, RowsNew
    <3> QED BY <3>1 DEF Dropped
  <2>2. CASE CopyRows(h) \/ CopyFails(h) \/ DropTable(h) \/ StampVersion(h)
    <3>1. RowsInv' /\ Kept(file) \subseteq Kept(file)'
      BY <2>2, RowsCopy, RowsCopyFails, RowsDrop, RowsStamp
    <3> QED BY <3>1 DEF Dropped
  <2>3. CASE Load(h) \/ LoadFails(h) \/ ReplaceFails(h)
    <3>1. RowsInv' /\ Kept(file)' = Kept(file)
      BY <2>3, RowsLoad
    <3> QED BY <3>1 DEF Dropped
  <2>4. CASE Replace(h)
    BY <2>4, RowsReplace DEF Dropped
  <2> QED BY <1>3, <2>1, <2>2, <2>3, <2>4 DEF OpenStep
<1>4. ASSUME NEW w \in Workers, UnitStep(w) PROVE RowsInv' /\ Dropped
  <2>1. CASE UNCHANGED <<file, process>>
    <3>1. RowsInv' /\ Kept(file)' = Kept(file)
      BY <2>1, RowsIdle
    <3> QED BY <3>1 DEF Dropped
  <2>2. CASE Commit(w)
    BY <2>2, RowsCommit DEF Dropped
  <2>3. CASE Acquire(w) \/ StampOnly(w) \/ ClearLogs(w) \/ \E t \in DOMAIN memory.tickets : Touch(w, t)
    BY <2>1, <2>3 DEF Acquire, StampOnly, ClearLogs, Touch, Begin
  <2>4. CASE StampEntry(w) \/ PushEntry(w) \/ CommitFails(w) \/ GiveUp(w)
    BY <2>1, <2>4 DEF StampEntry, PushEntry, CommitFails, GiveUp
  <2> QED BY <1>4, <2>2, <2>3, <2>4 DEF UnitStep
<1> QED BY <1>1, <1>2, <1>3, <1>4 DEF Next

LEMMA RowsInit == Init => RowsInv
<1> SUFFICES ASSUME Init PROVE RowsInv
  OBVIOUS
<1>1. Whole(file) /\ file \in Files(MaxClock) /\ \A h \in Processes : process[h].stage = "off"
  BY DatabasesAssumption DEF Init, Off
<1>2. \A S : "off" \notin S => ~Busy(S) /\ Once(S)
  BY <1>1 DEF Busy, Once
<1>3. NotPast
  BY <1>2 DEF NotPast
<1>4. RowsLast /\ RowsSecond
  BY <1>1, <1>2 DEF RowsLast, RowsSecond, LastVersion, SecondVersion, Whole, Rows
<1>5. RowsFirst
  <2>1. CASE file.tickets # Absent
    BY <1>1, <1>2, <2>1 DEF RowsFirst, Whole, InOldTable, InNewTable
  <2>2. CASE file.tickets = Absent
    BY <1>1, <2>2 DEF RowsFirst, Whole, Kept, Rows
  <2> QED BY <2>1, <2>2
<1> QED BY <1>3, <1>4, <1>5 DEF RowsInv

(* No migration loses a ticket.                                            *)
THEOREM RowsStay == Spec => RowsLeaveOnlyDropped
<1>1. Init => TypeOK /\ RowsInv
  BY InitTypes, RowsInit
<1>2. TypeOK /\ RowsInv /\ [Next]_vars => TypeOK' /\ RowsInv'
  BY NextTypes, RowsNext
<1>3. TypeOK /\ RowsInv /\ [Next]_vars => [Dropped]_vars
  BY RowsNext
<1>4. Spec => [][Dropped]_vars
  BY <1>1, <1>2, <1>3, PTL DEF Spec
<1> QED BY <1>4, PTL DEF RowsLeaveOnlyDropped, Dropped

-----------------------------------------------------------------------------
(* The memory of the owner, its units and the file.                        *)
Serving == process[Owner].stage \in {"replace", "sqlite"}

RestOpening == process[Owner].stage \notin {"sqlite", "memory"} => AtRest /\ dropped = {}
UnitsFit ==
    \A w \in Workers :
        /\ unit[w].stage = "none" => unit[w] = NoUnit
        /\ unit[w].stage = "open" => unit[w].logs = {} /\ unit[w].clear = FALSE
        /\ unit[w].stamp # None => unit[w].stage = "open"
        /\ unit[w].deletes \cap DOMAIN memory.tickets = {}
LoadKept ==
    At(Owner, "replace") =>
        process[Owner].rows = memory.tickets /\ process[Owner].logs = ToSet(memory.logs)
Written ==
    ~failed /\ ~cut /\ Serving =>
        \A t \in DOMAIN memory.tickets :
            t \in Rows(file.tickets) \/ \E w \in Workers : unit[w].upsert = t /\ Acquired(unit[w])

MemoryInv == RestOpening /\ UnitsFit /\ LoadKept /\ Written

LEMMA NoneHas ==
    /\ NoUnit.stage = "none" /\ NoUnit.upsert = None /\ NoUnit.row = None /\ NoUnit.deletes = {}
    /\ NoUnit.logs = {} /\ NoUnit.clear = FALSE /\ NoUnit.stamp = None
  BY DEF NoUnit

(* A step of another process: it leaves the file to the owner, or has      *)
(* written it over.                                                        *)
Apart ==
    /\ process'[Owner] = process[Owner]
    /\ UNCHANGED <<memory, unit, clock, crossed, dropped>>
    /\ (failed => failed') /\ (cut => cut')
    /\ ~failed' /\ ~cut' /\ Serving => file'.tickets = file.tickets /\ file'.logs = file.logs

(* A step of the owner that does not take it to its service.               *)
Opens ==
    /\ process'[Owner].stage \notin {"replace", "sqlite"}
    /\ process[Owner].stage \notin {"sqlite", "memory"}
    /\ UNCHANGED <<memory, unit, clock, crossed, dropped>>

(* While the owner serves, another process finds the last version.         *)
LEMMA OpensServed ==
    ASSUME TypeOK, OpenInv, NEW h \in Processes, h # Owner, Serving, ~cut
    PROVE  /\ file.version = 3 /\ file.tickets # Absent
           /\ \A stage \in {"rename", "new", "copy", "drop", "stamp"} : ~At(h, stage)
<1>1. StageFits(Owner) /\ StageFits(h) /\ Owner \in Processes
  BY DEF OpenInv, Processes
<1>2. file.version = 3
  BY <1>1 DEF StageFits, Serving, Past
<1>3. \A stage \in {"rename", "new", "copy", "drop", "stamp"} : ~At(h, stage)
  BY <1>1, <1>2 DEF StageFits
<1>4. ~Rebuilding(h) /\ ~Rebuilding(Owner)
  BY <1>3 DEF Rebuilding, At, Serving
<1>5. \A g \in Processes : ~Rebuilding(g)
  BY <1>4, TheOther DEF Processes
<1>6. Whole(file)
  BY <1>5 DEF OpenInv
<1> QED BY <1>2, <1>3, <1>6 DEF Whole

LEMMA OtherSteps ==
    ASSUME TypeOK, OpenInv, NEW h \in Processes, h # Owner, Start(h) \/ OpenStep(h) \/ Stop(h)
    PROVE  Apart
<1>1. Owner \in Processes
  BY DEF Processes
<1>2. ASSUME NEW from, NEW to, Opened(h, from, to)
      PROVE  /\ process'[Owner] = process[Owner] /\ UNCHANGED <<memory, unit, clock, crossed, failed, dropped, cut>>
             /\ At(h, from)
  BY <1>1, <1>2 DEF Opened, Moves, Quiet
<1>3. CASE Start(h)
  <2>1. process'[Owner] = process[Owner]
    BY <1>1, <1>3, StartDoes DEF Moves
  <2> QED BY <1>3, <2>1 DEF Start, Apart
<1>4. CASE Stop(h)
  <2>1. process'[Owner] = process[Owner]
    BY <1>1, <1>4, StopDoes
  <2> QED BY <1>4, <2>1 DEF Stop, Apart
<1>5. CASE CreateTables(h)
  <2>1. /\ Opened(h, "create", "version")
        /\ file.tickets # Absent => file' = file
    BY <1>5, CreateDoes DEF CreateTables
  <2>2. Serving /\ ~cut => file.tickets # Absent
    BY OpensServed
  <2> QED BY <1>2, <2>1, <2>2 DEF Apart
<1>6. CASE ReadVersion(h)
  <2>1. file' = file /\ \E to : Opened(h, "version", to)
    BY <1>6, ReadDoes
  <2> QED BY <1>2, <2>1 DEF Apart
<1>7. CASE RenameTable(h) \/ NewTable(h) \/ CopyRows(h) \/ DropTable(h) \/ StampVersion(h)
  <2>1. \E from \in {"rename", "new", "copy", "drop", "stamp"} : \E to : Opened(h, from, to)
    BY <1>7, RenameDoes, NewDoes, CopyDoes, DropDoes, StampDoes DEF GivesUp
  <2> QED BY <1>2, <2>1, OpensServed DEF Apart
<1>12. CASE CopyFails(h)
  <2>1. process'[Owner] = process[Owner]
    BY <1>1, <1>12, CopyFailsDoes DEF Moves
  <2> QED BY <1>12, <2>1, CopyFailsDoes DEF Apart, Quiet
<1>8. CASE Load(h)
  <2>1. process'[Owner] = process[Owner]
    BY <1>1, <1>8, LoadDoes DEF HasLoaded
  <2>2. UNCHANGED <<file, memory, unit, clock, crossed, failed, dropped, cut>>
    BY <1>8, LoadDoes
  <2> QED BY <2>1, <2>2 DEF Apart
<1>9. CASE LoadFails(h)
  <2>1. process'[Owner] = process[Owner]
    BY <1>1, <1>9, LoadFailsDoes DEF Moves
  <2> QED BY <1>9, <2>1 DEF Apart, LoadFails
<1>10. CASE Replace(h)
  <2>1. process'[Owner] = process[Owner]
    BY <1>1, <1>10, ReplaceDoes DEF Moves
  <2>2. failed' /\ UNCHANGED <<memory, unit, clock, crossed, dropped, cut>>
    BY <1>10 DEF Replace, Processes
  <2> QED BY <2>1, <2>2 DEF Apart
<1>11. CASE ReplaceFails(h)
  <2>1. process'[Owner] = process[Owner]
    BY <1>1, <1>11, ReplaceFailsDoes DEF Moves
  <2> QED BY <1>11, <2>1 DEF Apart, ReplaceFails
<1> QED BY <1>3, <1>4, <1>5, <1>6, <1>7, <1>8, <1>9, <1>10, <1>11, <1>12 DEF OpenStep

LEMMA OwnerOpens ==
    ASSUME TypeOK, NEW h \in Processes, h = Owner,
           \/ Start(h) \/ CreateTables(h) \/ ReadVersion(h) \/ RenameTable(h) \/ NewTable(h)
           \/ CopyRows(h) \/ CopyFails(h) \/ DropTable(h) \/ StampVersion(h)
    PROVE  Opens
<1>1. ASSUME NEW from, NEW to, Opened(h, from, to), to \notin {"replace", "sqlite"},
             from \notin {"sqlite", "memory"}
      PROVE  Opens
  BY <1>1 DEF Opened, Moves, Quiet, At, Opens
<1>2. CASE Start(h)
  BY <1>2, StartDoes DEF Moves, At, Start, Opens
<1>3. CASE CreateTables(h) \/ ReadVersion(h)
  BY <1>1, <1>3, CreateDoes, ReadDoes
<1>4. CASE RenameTable(h) \/ NewTable(h)
  BY <1>1, <1>4, RenameDoes, NewDoes DEF GivesUp
<1>5. CASE CopyRows(h) \/ DropTable(h)
  BY <1>1, <1>5, CopyDoes, DropDoes DEF GivesUp
<1>6. CASE StampVersion(h)
  BY <1>1, <1>6, StampDoes
<1>7. CASE CopyFails(h)
  BY <1>7, CopyFailsDoes DEF Moves, At, Quiet, Opens
<1> QED BY <1>2, <1>3, <1>4, <1>5, <1>6, <1>7

LEMMA MemoryApart == ASSUME MemoryInv, Apart PROVE MemoryInv'
<1>1. RestOpening' /\ UnitsFit' /\ LoadKept'
  BY DEF MemoryInv, Apart, RestOpening, AtRest, UnitsFit, LoadKept, At
<1>2. Written'
  <2> SUFFICES ASSUME ~failed', ~cut', Serving', NEW t \in DOMAIN memory'.tickets
               PROVE  \/ t \in Rows(file'.tickets)
                      \/ \E w \in Workers : unit'[w].upsert = t /\ Acquired(unit'[w])
    BY DEF Written, Rows, Acquired
  <2>1. Serving /\ ~failed /\ ~cut /\ memory' = memory /\ unit' = unit
    BY DEF Apart, Serving
  <2>2. file'.tickets = file.tickets
    BY <2>1 DEF Apart
  <2>3. t \in Rows(file.tickets) \/ \E w \in Workers : unit[w].upsert = t /\ Acquired(unit[w])
    BY <2>1 DEF MemoryInv, Written
  <2> QED BY <2>1, <2>2, <2>3
<1> QED BY <1>1, <1>2 DEF MemoryInv

LEMMA MemoryOpens == ASSUME MemoryInv, Opens PROVE MemoryInv'
  BY DEF MemoryInv, Opens, RestOpening, AtRest, UnitsFit, LoadKept, Written, Serving, At

(* The owner has loaded.                                                   *)
LEMMA MemoryLoad ==
    ASSUME TypeOK, MemoryInv, NEW h \in Processes, h = Owner, Load(h)
    PROVE  MemoryInv'
<1> DEFINE rows == file.tickets.rows
<1>1. /\ process[Owner].stage = "load" /\ file.tickets # Absent
      /\ process'[Owner].rows = Normalized(rows) /\ process'[Owner].logs = LastLogs(file.logs)
      /\ memory'.tickets = Normalized(rows)
      /\ memory'.logs = Ascending(LastLogs(file.logs))
      /\ UNCHANGED <<file, unit, dropped>>
  BY LoadDoes DEF HasLoaded, At, Readable
<1>2. rows \in RowSets(clock) /\ file.logs \in SUBSET (0..clock) /\ clock \in Nat
  BY <1>1, FileHas
<1>3. dropped = {} /\ \A w \in Workers : unit[w] = NoUnit /\ unit[w].stage = "none"
  BY <1>1, NoneHas DEF MemoryInv, RestOpening, AtRest, UnitsFit
<1>4. DOMAIN memory'.tickets \subseteq Rows(file.tickets)
  <2>1. DOMAIN Normalized(rows) = KeptIds(rows) /\ KeptIds(rows) \subseteq DOMAIN rows
    BY <1>2, NormalizedHas DEF KeptIds
  <2> QED BY <1>1, <2>1 DEF Rows
<1>5. ToSet(memory'.logs) = LastLogs(file.logs)
  BY <1>1, <1>2, RingIsLoaded
<1> HIDE DEF rows
<1>6. RestOpening' /\ LoadKept'
  BY <1>1, <1>3, <1>5 DEF RestOpening, AtRest, LoadKept, At
<1>7. UnitsFit'
  <2>1. \A w \in Workers : unit'[w] = NoUnit
    BY <1>1, <1>3
  <2> QED BY <2>1, NoneHas DEF UnitsFit
<1>8. Written'
  BY <1>1, <1>4 DEF Written
<1> QED BY <1>6, <1>7, <1>8 DEF MemoryInv

(* The owner has not read the file, has not written it, or has: it serves. *)
LEMMA MemoryServes ==
    ASSUME TypeOK, MemoryInv, NEW h \in Processes, h = Owner,
           LoadFails(h) \/ Replace(h) \/ ReplaceFails(h)
    PROVE  MemoryInv'
<1>1. /\ process'[Owner].stage = "sqlite" /\ process[Owner].stage \in {"load", "replace"}
      /\ UNCHANGED <<memory, unit>>
  <2>1. CASE LoadFails(h)
    BY <2>1, LoadFailsDoes DEF Moves, At, LoadFails
  <2>2. CASE Replace(h)
    BY <2>2, ReplaceDoes DEF Moves, At, Replace
  <2>3. CASE ReplaceFails(h)
    BY <2>3, ReplaceFailsDoes DEF Moves, At, ReplaceFails
  <2> QED BY <2>1, <2>2, <2>3
<1>2. RestOpening' /\ UnitsFit' /\ LoadKept'
  BY <1>1 DEF MemoryInv, RestOpening, UnitsFit, LoadKept, At
<1>3. Written'
  <2>1. CASE LoadFails(h) \/ ReplaceFails(h)
    <3>1. failed'
      BY <2>1 DEF LoadFails, ReplaceFails
    <3> QED BY <3>1 DEF Written
  <2>2. CASE Replace(h)
    <3>1. At(Owner, "replace") /\ Readable /\ Wrote(file', file, process[Owner].rows, process[Owner].logs)
      BY <2>2, ReplaceDoes
    <3>2. process[Owner].rows = memory.tickets /\ memory.tickets \in RowSets(clock) /\ clock \in Nat
          /\ file.tickets.columns \in {"payload", "columns"}
      BY <3>1, MemoryHas, FileHas DEF MemoryInv, LoadKept, Readable
    <3>3. Rows(file'.tickets) = DOMAIN memory.tickets
      BY <3>1, <3>2, RowsOf DEF Wrote
    <3> QED BY <1>1, <3>3 DEF Written
  <2> QED BY <2>1, <2>2
<1> QED BY <1>2, <1>3 DEF MemoryInv

LEMMA MemoryStops ==
    ASSUME TypeOK, MemoryInv, NEW h \in Processes, h = Owner, Stop(h)
    PROVE  MemoryInv'
<1>1. /\ process'[Owner].stage = "off" /\ memory'.tickets = NoRows
      /\ unit' = [w \in Workers |-> NoUnit] /\ dropped' = {}
  BY StopDoes DEF Off
<1>2. \A w \in Workers : unit'[w] = NoUnit
  BY <1>1
<1>3. RestOpening' /\ UnitsFit'
  BY <1>1, <1>2, NoneHas DEF RestOpening, AtRest, UnitsFit
<1>4. LoadKept' /\ Written'
  BY <1>1 DEF LoadKept, Written, Serving, At
<1> QED BY <1>3, <1>4 DEF MemoryInv

LEMMA TicketsAre ==
    ASSUME TypeOK
    PROVE  /\ DOMAIN memory.tickets \subseteq 0..clock /\ None \notin 0..clock
           /\ memory.tickets \in RowSets(clock) /\ clock \in Nat
           /\ \A w \in Workers : /\ unit[w] \in Units(clock) /\ unit[w].deletes \subseteq 0..clock
                                 /\ unit[w].upsert \in {None} \cup 0..clock
<1>1. clock \in Nat /\ MaxClock \in Nat /\ clock <= MaxClock /\ memory.tickets \in RowSets(clock)
  BY FileHas, MemoryHas
<1>2. DOMAIN memory.tickets \subseteq 0..clock
  BY <1>1, RowSetHas
<1>3. \A w \in Workers : unit[w] \in Units(clock)
  BY DEF TypeOK
<1>4. \A w \in Workers : unit[w].deletes \subseteq 0..clock /\ unit[w].upsert \in {None} \cup 0..clock
  BY <1>1, <1>3, UnitIs
<1>5. None \notin 0..clock
  BY <1>1, TablesAssumption
<1> QED BY <1>1, <1>2, <1>3, <1>4, <1>5

(* A unit begins, or goes on: the tickets in memory are those that were,   *)
(* but for the one that it writes and those that it deletes.               *)
UnitGoesOn(w, stage) ==
    /\ UNCHANGED <<file, process, cut, failed>>
    /\ \A v \in Workers : v # w => unit'[v] = unit[v]
    /\ unit'[w].stage = stage /\ stage \in {"open", "ready"}
    /\ stage = "open" => unit'[w].logs = {} /\ unit'[w].clear = FALSE
    /\ unit'[w].stamp # None => stage = "open"

LEMMA MemoryWorks ==
    ASSUME TypeOK, MemoryInv, NEW w \in Workers, NEW stage, UnitGoesOn(w, stage),
           process[Owner].stage \in {"sqlite", "memory"},
           unit'[w].deletes \cap DOMAIN memory'.tickets = {},
           \A t \in DOMAIN memory'.tickets :
               \/ /\ t \in DOMAIN memory.tickets
                  /\ unit[w].upsert = t /\ Acquired(unit[w]) => unit'[w].upsert = t /\ Acquired(unit'[w])
               \/ clock < t /\ unit'[w].upsert = t /\ Acquired(unit'[w])
    PROVE  MemoryInv'
<1>1. RestOpening' /\ LoadKept'
  BY DEF RestOpening, LoadKept, At, UnitGoesOn
<1>2. \A t \in DOMAIN memory'.tickets, v \in Workers : v # w => t \notin unit'[v].deletes
  <2> SUFFICES ASSUME NEW t \in DOMAIN memory'.tickets, NEW v \in Workers, v # w
               PROVE  t \notin unit'[v].deletes
    OBVIOUS
  <2>1. unit'[v].deletes = unit[v].deletes
    BY DEF UnitGoesOn
  <2>2. unit[v].deletes \cap DOMAIN memory.tickets = {}
    BY DEF MemoryInv, UnitsFit
  <2>3. unit[v].deletes \subseteq 0..clock /\ clock \in Nat
    BY TicketsAre
  <2>4. CASE clock < t
    BY <2>1, <2>3, <2>4
  <2> QED BY <2>1, <2>2, <2>4
<1>3. UnitsFit'
  <2> SUFFICES ASSUME NEW v \in Workers
               PROVE  /\ unit'[v].stage = "none" => unit'[v] = NoUnit
                      /\ unit'[v].stage = "open" => unit'[v].logs = {} /\ unit'[v].clear = FALSE
                      /\ unit'[v].stamp # None => unit'[v].stage = "open"
                      /\ unit'[v].deletes \cap DOMAIN memory'.tickets = {}
    BY DEF UnitsFit
  <2>1. CASE v = w
    BY <2>1 DEF UnitGoesOn
  <2>2. CASE v # w
    BY <1>2, <2>2 DEF UnitGoesOn, MemoryInv, UnitsFit
  <2> QED BY <2>1, <2>2
<1>4. Written'
  <2> SUFFICES ASSUME ~failed', ~cut', Serving', NEW t \in DOMAIN memory'.tickets,
                      t \notin Rows(file'.tickets)
               PROVE  \E v \in Workers : unit'[v].upsert = t /\ Acquired(unit'[v])
    BY DEF Written, Rows, Acquired
  <2>1. CASE unit'[w].upsert = t /\ Acquired(unit'[w])
    BY <2>1
  <2>2. CASE ~(unit'[w].upsert = t /\ Acquired(unit'[w]))
    <3>1. t \in DOMAIN memory.tickets /\ ~(unit[w].upsert = t /\ Acquired(unit[w]))
      BY <2>2
    <3>2. ~failed /\ ~cut /\ Serving /\ t \notin Rows(file.tickets)
      BY DEF UnitGoesOn, Serving, Rows
    <3>3. PICK v \in Workers : unit[v].upsert = t /\ Acquired(unit[v])
      BY <3>1, <3>2 DEF MemoryInv, Written
    <3>4. unit'[v] = unit[v]
      BY <3>1, <3>3 DEF UnitGoesOn
    <3> QED BY <3>3, <3>4
  <2> QED BY <2>1, <2>2
<1> QED BY <1>1, <1>3, <1>4 DEF MemoryInv

LEMMA MemoryAcquire ==
    ASSUME TypeOK, MemoryInv, NEW w \in Workers, Acquire(w)
    PROVE  MemoryInv'
<1>1. PICK d \in 0..MaxClock : \E r \in RowsAt(d) : Acquires(w, d, r)
  BY AcquireDoes
<1>2. PICK r \in RowsAt(d) : Acquires(w, d, r)
  BY <1>1
<1> DEFINE rows == With(memory.tickets, d, r)
<1>3. /\ clock < d /\ memory'.tickets = Newest(rows) /\ Begins(w, unit'[w])
      /\ UnitHas(unit'[w], "open", d, r, Overflow(rows), {}, FALSE, None)
  BY <1>2 DEF Acquires
<1>4. d \in Nat /\ r \in Row(d) /\ d \in 0..d /\ memory.tickets \in RowSets(d)
  <2>1. d \in Nat /\ clock <= d
    BY <1>3, FileHas
  <2> QED BY <2>1, MemoryHas DEF RowsAt
<1>5. IsWith(rows, d, memory.tickets, d, r)
  BY <1>4, WithHas
<1>6. rows \in RowSets(d) /\ DOMAIN rows = DOMAIN memory.tickets \cup {d}
  BY <1>5 DEF IsWith
<1> HIDE DEF rows
<1>7. DOMAIN memory'.tickets = DOMAIN rows \ Overflow(rows)
  BY <1>3, <1>4, <1>6, NewestHas DEF KeptIds
<1>8. UnitGoesOn(w, "open") /\ process[Owner].stage \in {"sqlite", "memory"} /\ unit[w].stage = "none"
      /\ unit'[w].deletes = Overflow(rows) /\ unit'[w].upsert = d /\ Acquired(unit'[w])
  <2>1. unit'[w].row.updated = d /\ d # None
    BY <1>3, TablesAssumption DEF UnitHas, RowsAt
  <2> QED BY <1>3, <2>1 DEF Begins, UnitHas, UnitGoesOn, Working, Acquired
<1>9. unit[w].upsert = None /\ None \notin DOMAIN memory.tickets
  BY <1>8, NoneHas, TicketsAre DEF MemoryInv, UnitsFit
<1> QED BY <1>3, <1>6, <1>7, <1>8, <1>9, MemoryWorks

LEMMA MemoryTouch ==
    ASSUME TypeOK, MemoryInv, NEW w \in Workers, NEW t \in DOMAIN memory.tickets, Touch(w, t)
    PROVE  MemoryInv'
<1>1. PICK d \in 0..MaxClock : \E r \in RowsAt(d) : Touches(w, t, d, r)
  BY TouchDoes
<1>2. PICK r \in RowsAt(d) : Touches(w, t, d, r)
  BY <1>1
<1>3. /\ memory'.tickets = [memory.tickets EXCEPT ![t] = r] /\ Begins(w, unit'[w])
      /\ UnitHas(unit'[w], "open", t, r, {}, {}, FALSE, None)
  BY <1>2 DEF Touches
<1>4. DOMAIN memory'.tickets = DOMAIN memory.tickets
  BY <1>3
<1>5. UnitGoesOn(w, "open") /\ process[Owner].stage \in {"sqlite", "memory"} /\ unit[w].stage = "none"
      /\ unit'[w].deletes = {}
  BY <1>3 DEF Begins, UnitHas, UnitGoesOn, Working
<1>6. unit[w].upsert = None /\ None \notin DOMAIN memory.tickets
  BY <1>5, NoneHas, TicketsAre DEF MemoryInv, UnitsFit
<1> QED BY <1>4, <1>5, <1>6, MemoryWorks

LEMMA MemoryBegins ==
    ASSUME TypeOK, MemoryInv, NEW w \in Workers, StampOnly(w) \/ ClearLogs(w)
    PROVE  MemoryInv'
<1>1. /\ Begins(w, unit'[w]) /\ DOMAIN memory'.tickets = DOMAIN memory.tickets
      /\ \/ \E d : UnitHas(unit'[w], "open", None, None, {}, {}, FALSE, d)
         \/ UnitHas(unit'[w], "ready", None, None, {}, {}, TRUE, None)
  <2>1. CASE StampOnly(w)
    BY <2>1, StampOnlyDoes DEF StampsOnly
  <2>2. CASE ClearLogs(w)
    BY <2>2, ClearDoes DEF Clears
  <2> QED BY <2>1, <2>2
<1>2. /\ \E stage : UnitGoesOn(w, stage)
      /\ process[Owner].stage \in {"sqlite", "memory"} /\ unit[w].stage = "none"
      /\ unit'[w].deletes = {}
  BY <1>1 DEF Begins, UnitHas, UnitGoesOn, Working
<1>3. unit[w].upsert = None /\ None \notin DOMAIN memory.tickets
  BY <1>2, NoneHas, TicketsAre DEF MemoryInv, UnitsFit
<1> QED BY <1>1, <1>2, <1>3, MemoryWorks

LEMMA MemoryGoesOn ==
    ASSUME TypeOK, MemoryInv, NEW w \in Workers, StampEntry(w) \/ PushEntry(w)
    PROVE  MemoryInv'
<1>1. /\ UNCHANGED <<file, process, cut, failed>> /\ unit[w].stage = "open"
      /\ \A v \in Workers : v # w => unit'[v] = unit[v]
      /\ DOMAIN memory'.tickets = DOMAIN memory.tickets
      /\ \/ \E d : UnitHas(unit'[w], "open", unit[w].upsert, unit[w].row, unit[w].deletes, {}, unit[w].clear, d)
         \/ \E s : UnitHas(unit'[w], "ready", unit[w].upsert, unit[w].row, unit[w].deletes, s, unit[w].clear, None)
  <2>1. CASE StampEntry(w)
    BY <2>1, StampDoesEntry DEF Stamps
  <2>2. CASE PushEntry(w)
    BY <2>2, PushDoes DEF Pushes, MemoryInv, UnitsFit
  <2> QED BY <2>1, <2>2
<1>2. unit[w].clear = FALSE /\ unit[w].deletes \cap DOMAIN memory.tickets = {}
  BY <1>1 DEF MemoryInv, UnitsFit
<1>3. process[Owner].stage \in {"sqlite", "memory"}
  BY <1>1 DEF MemoryInv, RestOpening, AtRest
<1>4. /\ \E stage : UnitGoesOn(w, stage)
      /\ unit'[w].deletes = unit[w].deletes /\ unit'[w].upsert = unit[w].upsert
      /\ unit'[w].row = unit[w].row
  BY <1>1, <1>2 DEF UnitHas, UnitGoesOn
<1>5. Acquired(unit'[w]) <=> Acquired(unit[w])
  BY <1>4 DEF Acquired
<1> QED BY <1>1, <1>2, <1>3, <1>4, <1>5, MemoryWorks

(* A unit of work ends.                                                    *)
LEMMA MemoryEnds ==
    ASSUME TypeOK, MemoryInv, NEW w \in Workers, Commit(w) \/ CommitFails(w) \/ GiveUp(w)
    PROVE  MemoryInv'
<1>1. /\ unit'[w] = NoUnit /\ \A v \in Workers : v # w => unit'[v] = unit[v]
      /\ UNCHANGED <<process, memory, cut>> /\ unit[w].stage = "ready"
  <2>1. CASE Commit(w)
    BY <2>1, CommitDoes DEF Commits
  <2>2. CASE CommitFails(w)
    BY <2>2, CommitFailsDoes DEF CommitFails
  <2>3. CASE GiveUp(w)
    BY <2>3, GiveUpDoes
  <2> QED BY <2>1, <2>2, <2>3
<1>2. RestOpening' /\ LoadKept'
  BY <1>1, NoneHas DEF MemoryInv, RestOpening, AtRest, LoadKept, At
<1>3. UnitsFit'
  BY <1>1, NoneHas DEF MemoryInv, UnitsFit
<1>4. Written'
  <2>1. CASE CommitFails(w)
    BY <2>1 DEF Written, CommitFails
  <2>2. CASE Commit(w)
    <3> SUFFICES ASSUME ~failed', ~cut', Serving', NEW t \in DOMAIN memory'.tickets
                 PROVE  \/ t \in Rows(file'.tickets)
                        \/ \E v \in Workers : unit'[v].upsert = t /\ Acquired(unit'[v])
      BY DEF Written, Rows, Acquired
    <3>1. Commits(w)
      BY <2>2, CommitDoes
    <3>2. ~failed /\ ~cut /\ Serving /\ t \in DOMAIN memory.tickets
      BY <1>1, <3>1 DEF Serving, Commits
    <3>3. \/ t \in Rows(file.tickets) \/ unit[w].upsert = t
          \/ \E v \in Workers : v # w /\ unit[v].upsert = t /\ Acquired(unit[v])
      BY <3>2 DEF MemoryInv, Written
    <3>4. t \in Rows(file.tickets) \/ unit[w].upsert = t => t \in Rows(file'.tickets)
      <4>1. CASE unit[w].upsert = None
        <5>1. file'.tickets = file.tickets
          BY <3>1, <4>1 DEF Commits
        <5>2. t # None
          BY <3>2, TicketsAre
        <5> QED BY <4>1, <5>1, <5>2
      <4>2. CASE unit[w].upsert # None
        <5> DEFINE rows == RowsWith(unit[w], file.tickets.rows)
        <5>1. file.tickets # Absent /\ file'.tickets = Table(file.tickets.columns, rows)
          BY <3>1, <4>2 DEF Commits, Readable
        <5>2. file.tickets.rows \in RowSets(clock) /\ unit[w] \in Units(clock) /\ clock \in Nat
              /\ file.tickets.columns \in {"payload", "columns"}
          BY <5>1, FileHas, TicketsAre
        <5>3. /\ rows \in RowSets(clock)
              /\ DOMAIN rows = (DOMAIN file.tickets.rows \cup {unit[w].upsert}) \ unit[w].deletes
          BY <4>2, <5>2, RowsWithHas
        <5> HIDE DEF rows
        <5>4. Rows(file'.tickets) = DOMAIN rows
          BY <5>1, <5>2, <5>3, RowsOf
        <5>5. Rows(file.tickets) = DOMAIN file.tickets.rows
          BY <5>1 DEF Rows
        <5>6. t \notin unit[w].deletes
          BY <3>2 DEF MemoryInv, UnitsFit
        <5> QED BY <5>3, <5>4, <5>5, <5>6
      <4> QED BY <4>1, <4>2
    <3> QED BY <1>1, <3>3, <3>4
  <2>3. CASE GiveUp(w)
    <3> SUFFICES ASSUME ~failed', ~cut', Serving', NEW t \in DOMAIN memory'.tickets
                 PROVE  \/ t \in Rows(file'.tickets)
                        \/ \E v \in Workers : unit'[v].upsert = t /\ Acquired(unit'[v])
      BY DEF Written, Rows, Acquired
    <3>1. ~Acquired(unit[w]) /\ UNCHANGED <<file, process, memory, cut, failed>>
      BY <2>3, GiveUpDoes
    <3>2. ~failed /\ ~cut /\ Serving /\ t \in DOMAIN memory.tickets
      BY <3>1 DEF Serving
    <3>3. \/ t \in Rows(file.tickets)
          \/ \E v \in Workers : v # w /\ unit[v].upsert = t /\ Acquired(unit[v])
      BY <3>1, <3>2 DEF MemoryInv, Written
    <3> QED BY <1>1, <3>1, <3>3
  <2> QED BY <2>1, <2>2, <2>3
<1> QED BY <1>2, <1>3, <1>4 DEF MemoryInv

LEMMA MemoryNext == TypeOK /\ OpenInv /\ MemoryInv /\ [Next]_vars => MemoryInv'
<1> SUFFICES ASSUME TypeOK, OpenInv, MemoryInv, [Next]_vars PROVE MemoryInv'
  OBVIOUS
<1>1. CASE UNCHANGED vars
  <2>1. Apart
    BY <1>1 DEF vars, Apart
  <2> QED BY <2>1, MemoryApart
<1>2. ASSUME NEW h \in Processes, h # Owner, Start(h) \/ OpenStep(h) \/ Stop(h) PROVE MemoryInv'
  BY <1>2, OtherSteps, MemoryApart
<1>3. ASSUME NEW h \in Processes, h = Owner, Start(h) \/ OpenStep(h) \/ Stop(h) PROVE MemoryInv'
  <2>1. CASE Load(h)
    BY <1>3, <2>1, MemoryLoad
  <2>2. CASE LoadFails(h) \/ Replace(h) \/ ReplaceFails(h)
    BY <1>3, <2>2, MemoryServes
  <2>3. CASE Stop(h)
    BY <1>3, <2>3, MemoryStops
  <2> QED BY <1>3, <2>1, <2>2, <2>3, OwnerOpens, MemoryOpens DEF OpenStep
<1>4. ASSUME NEW w \in Workers, UnitStep(w) PROVE MemoryInv'
  BY <1>4, MemoryAcquire, MemoryTouch, MemoryBegins, MemoryGoesOn, MemoryEnds DEF UnitStep
<1> QED BY <1>1, <1>2, <1>3, <1>4 DEF Next

LEMMA MemoryInit == Init => MemoryInv
<1> SUFFICES ASSUME Init PROVE MemoryInv
  OBVIOUS
<1>1. process[Owner].stage = "off" /\ \A w \in Workers : unit[w] = NoUnit
  BY DEF Init, Off, Processes
<1>2. dropped = {}
  BY DEF Init
<1> QED BY <1>1, <1>2, NoneHas DEF MemoryInv, RestOpening, AtRest, UnitsFit, LoadKept, Written, Serving, At

(* What the service shows outlives it.                                     *)
THEOREM MemoryOutlives == Spec => []MemoryIsOnDisk
<1>1. Init => TypeOK /\ OpenInv /\ MemoryInv
  BY InitTypes, OpensInit, MemoryInit
<1>2. TypeOK /\ OpenInv /\ MemoryInv /\ [Next]_vars => TypeOK' /\ OpenInv' /\ MemoryInv'
  BY NextTypes, OpensNext, MemoryNext
<1>3. TypeOK /\ MemoryInv => MemoryIsOnDisk
  <2> SUFFICES ASSUME TypeOK, MemoryInv, AtRest, At(Owner, "sqlite"), ~failed, ~cut,
                      NEW t \in DOMAIN memory.tickets
               PROVE  t \in Rows(file.tickets)
    BY DEF MemoryIsOnDisk
  <2>1. \A w \in Workers : unit[w].upsert = None
    BY NoneHas DEF MemoryInv, UnitsFit, AtRest
  <2>2. t # None
    BY TicketsAre
  <2> QED BY <2>1, <2>2 DEF MemoryInv, Written, Serving, At
<1> QED BY <1>1, <1>2, <1>3, PTL DEF Spec

-----------------------------------------------------------------------------
(* What a start would load, were a unit written.                           *)
After(u, rows) == IF u.upsert = None THEN rows ELSE RowsWith(u, rows)
Matches(u) ==
    /\ Recovers(Normalized(After(u, file.tickets.rows)), memory.tickets, dropped)
    /\ LogRecovers(LastLogs(Applied(u, file.logs)), memory.logs, dropped)

(* And were it given up.                                                   *)
Unwritten(u) ==
    ~Acquired(u) /\ ~u.clear =>
        /\ Recovers(Normalized(file.tickets.rows), memory.tickets, dropped \cup ChangedAt(u))
        /\ LogRecovers(LastLogs(file.logs), memory.logs, dropped \cup ChangedAt(u))

SerialUnits ==
    \A w \in Workers : unit[w].stage # "none" =>
        /\ Matches(unit[w]) /\ Unwritten(unit[w])
        /\ \A v \in Workers : v # w => unit[v].stage = "none"
        /\ unit[w].stamp # None => \A l \in file.logs \cup ToSet(memory.logs) : l < unit[w].stamp
SerialHolds ==
    RingOf(memory.logs, clock) /\ (AtRest => Matches(NoUnit)) /\ SerialUnits

SerialInv == ~failed /\ ~cut /\ ~crossed /\ Serving => SerialHolds

LEMMA NothingToWrite ==
    ASSUME TypeOK
    PROVE  /\ After(NoUnit, file.tickets.rows) = file.tickets.rows
           /\ LastLogs(Applied(NoUnit, file.logs)) = LastLogs(file.logs)
<1>1. Applied(NoUnit, file.logs) = LastLogs(file.logs)
  <2>1. Applied(NoUnit, file.logs) = LastLogs(file.logs \cup {})
    BY NoneHas DEF Applied
  <2>2. file.logs \cup {} = file.logs
    OBVIOUS
  <2> QED BY <2>1, <2>2
<1>2. LastLogs(LastLogs(file.logs)) = LastLogs(file.logs)
  BY FileHas, LastLogsAgain
<1> QED BY <1>1, <1>2, NoneHas DEF After

LEMMA MatchesAtRest ==
    ASSUME TypeOK
    PROVE  Matches(NoUnit) <=> /\ Recovers(Normalized(file.tickets.rows), memory.tickets, dropped)
                               /\ LogRecovers(LastLogs(file.logs), memory.logs, dropped)
  BY NothingToWrite DEF Matches

(* The tickets are there while the owner serves.                           *)
LEMMA ServedIsReadable ==
    ASSUME TypeOK, OpenInv, ~cut, Serving
    PROVE  /\ file.tickets # Absent /\ file.tickets.columns = "columns"
           /\ file.tickets.rows \in RowSets(clock) /\ file.logs \in SUBSET (0..clock) /\ clock \in Nat
<1>1. PICK g \in Processes : g # Owner
  BY TablesAssumption DEF Processes
<1>2. StageFits(Owner) /\ Owner \in Processes
  BY DEF OpenInv, Processes
<1>3. file.version = 3
  BY <1>2 DEF StageFits, Past, Serving
<1>4. \A h \in Processes : ~Rebuilding(h)
  <2> SUFFICES ASSUME NEW h \in Processes PROVE ~Rebuilding(h)
    OBVIOUS
  <2>1. StageFits(h)
    BY DEF OpenInv
  <2> QED BY <1>3, <2>1 DEF StageFits, Rebuilding, At
<1>5. Whole(file)
  BY <1>4 DEF OpenInv
<1>6. file.tickets # Absent /\ file.tickets.columns = "columns"
  BY <1>3, <1>5 DEF Whole
<1> QED BY <1>6, FileHas

LEMMA SerialApart == ASSUME SerialInv, Apart PROVE SerialInv'
<1> SUFFICES ASSUME ~failed', ~cut', ~crossed', Serving' PROVE SerialHolds'
  BY DEF SerialInv
<1>1. /\ UNCHANGED <<memory, unit, clock, dropped>> /\ Serving /\ ~failed /\ ~cut /\ ~crossed
      /\ file'.tickets = file.tickets /\ file'.logs = file.logs
  BY DEF Apart, Serving
<1>2. SerialHolds
  BY <1>1 DEF SerialInv
<1>3. Matches(NoUnit)' <=> Matches(NoUnit)
  BY <1>1 DEF Matches
<1>4. ASSUME NEW w \in Workers
      PROVE  (Matches(unit[w])' <=> Matches(unit[w])) /\ (Unwritten(unit[w])' <=> Unwritten(unit[w]))
  BY <1>1 DEF Matches, Unwritten
<1>5. RingOf(memory'.logs, clock') /\ (AtRest' <=> AtRest)
  BY <1>1, <1>2 DEF SerialHolds, AtRest
<1>6. SerialUnits'
  BY <1>1, <1>2, <1>4 DEF SerialHolds, SerialUnits
<1> QED BY <1>2, <1>3, <1>5, <1>6 DEF SerialHolds

(* The owner loads, and writes what it has loaded.                         *)
LEMMA SerialLoad ==
    ASSUME TypeOK, TypeOK', MemoryInv, NEW h \in Processes, h = Owner, Load(h)
    PROVE  SerialInv'
<1> DEFINE rows == file.tickets.rows
<1>1. /\ process[Owner].stage = "load" /\ file.tickets # Absent
      /\ memory'.tickets = Normalized(rows)
      /\ memory'.logs = Ascending(LastLogs(file.logs))
      /\ UNCHANGED <<file, unit, clock>>
  BY LoadDoes DEF HasLoaded, At, Readable
<1>2. file.logs \in SUBSET (0..clock) /\ clock \in Nat
  BY FileHas
<1>3. \A w \in Workers : unit'[w].stage = "none"
  BY <1>1 DEF MemoryInv, RestOpening, AtRest
<1>4. RingOf(memory'.logs, clock') /\ ToSet(memory'.logs) = LastLogs(file'.logs)
  BY <1>1, <1>2, RingIsLoaded
<1>5. Matches(NoUnit)'
  <2>1. /\ Normalized(file'.tickets.rows) = memory'.tickets
        /\ LastLogs(file'.logs) = ToSet(memory'.logs)
    BY <1>1, <1>4
  <2>2. /\ Recovers(Normalized(file'.tickets.rows), memory'.tickets, dropped')
        /\ LogRecovers(LastLogs(file'.logs), memory'.logs, dropped')
    BY <2>1 DEF Recovers, LogRecovers
  <2>3. (Matches(NoUnit) <=> /\ Recovers(Normalized(file.tickets.rows), memory.tickets, dropped)
                             /\ LogRecovers(LastLogs(file.logs), memory.logs, dropped))'
    BY MatchesAtRest, PTL
  <2> QED BY <2>2, <2>3
<1> QED BY <1>3, <1>4, <1>5 DEF SerialInv, SerialHolds, SerialUnits

LEMMA RingLater ==
    ASSUME NEW c \in Nat, NEW d \in Nat, c <= d, NEW m, RingOf(m, c)
    PROVE  RingOf(m, d) /\ ToSet(m) \subseteq 0..c
<1>1. m \in Seq(0..c) /\ Increases(m) /\ Len(m) <= LogBuffer
  BY DEF RingOf
<1>2. 0..c \subseteq 0..d
  OBVIOUS
<1>3. m \in Seq(0..d)
  BY <1>1, <1>2
<1>4. ToSet(m) \subseteq 0..c
  BY <1>1, IncreasesIsDistinct
<1> QED BY <1>1, <1>3, <1>4 DEF RingOf

(* One unit is under way, alone.                                           *)
Alone(w) == \A v \in Workers : v # w => unit[v].stage = "none"

LEMMA SerialWorks ==
    ASSUME NEW w \in Workers, unit'[w].stage # "none", Alone(w)',
           Matches(unit[w])', Unwritten(unit[w])', RingOf(memory'.logs, clock'),
           unit'[w].stamp # None => \A l \in file'.logs \cup ToSet(memory'.logs) : l < unit'[w].stamp
    PROVE  SerialHolds'
<1>1. ~AtRest'
  BY DEF AtRest
<1>2. SerialUnits'
  <2> SUFFICES ASSUME NEW v \in Workers, unit'[v].stage # "none"
               PROVE  /\ Matches(unit[v])' /\ Unwritten(unit[v])'
                      /\ \A x \in Workers : x # v => unit'[x].stage = "none"
                      /\ unit'[v].stamp # None => \A l \in file'.logs \cup ToSet(memory'.logs) : l < unit'[v].stamp
    BY DEF SerialUnits
  <2>1. v = w
    BY DEF Alone
  <2> QED BY <2>1 DEF Alone
<1> QED BY <1>1, <1>2 DEF SerialHolds

(* A unit begins, and no other is under way.                               *)
LEMMA SerialBegins ==
    ASSUME TypeOK, OpenInv, SerialInv, NEW w \in Workers, Begins(w, unit'[w]),
           ~failed', ~cut', ~crossed', Serving', unit'[w].stage # "none"
    PROVE  /\ Alone(w)' /\ RingOf(memory.logs, clock)
           /\ ToSet(memory.logs) \subseteq 0..clock /\ file.logs \subseteq 0..clock /\ clock \in Nat
           /\ Recovers(Normalized(file.tickets.rows), memory.tickets, dropped)
           /\ LogRecovers(LastLogs(file.logs), memory.logs, dropped)
           /\ file.tickets.rows \in RowSets(clock) /\ file' = file /\ dropped' = dropped
           /\ unit[w].stage = "none"
<1>1. /\ ~failed /\ ~cut /\ ~crossed /\ Serving /\ ~Others(w) /\ unit[w].stage = "none"
      /\ \A v \in Workers : v # w => unit'[v] = unit[v]
      /\ file' = file /\ dropped' = dropped
  BY DEF Begins, Serving
<1>2. AtRest /\ Alone(w)'
  BY <1>1 DEF Others, AtRest, Alone
<1>3. RingOf(memory.logs, clock) /\ Matches(NoUnit)
  BY <1>1, <1>2 DEF SerialInv, SerialHolds
<1>4. /\ clock \in Nat /\ clock <= clock /\ file.logs \in SUBSET (0..clock)
      /\ file.tickets.rows \in RowSets(clock)
  BY <1>1, ServedIsReadable
<1>5. ToSet(memory.logs) \subseteq 0..clock
  BY <1>3, <1>4, RingLater
<1> QED BY <1>1, <1>2, <1>3, <1>4, <1>5, MatchesAtRest

(* What a unit with a ticket and no entry writes.                          *)
LEMMA AppliesNothing ==
    ASSUME TypeOK, NEW u, u.logs = {}, u.clear = FALSE
    PROVE  LastLogs(Applied(u, file.logs)) = LastLogs(file.logs)
<1>1. Applied(u, file.logs) = LastLogs(file.logs)
  <2>1. Applied(u, file.logs) = LastLogs(file.logs \cup {})
    BY DEF Applied
  <2>2. file.logs \cup {} = file.logs
    OBVIOUS
  <2> QED BY <2>1, <2>2
<1> QED BY <1>1, FileHas, LastLogsAgain

LEMMA SerialAcquire ==
    ASSUME TypeOK, OpenInv, SerialInv, NEW w \in Workers, Acquire(w)
    PROVE  SerialInv'
<1> SUFFICES ASSUME ~failed', ~cut', ~crossed', Serving' PROVE SerialHolds'
  BY DEF SerialInv
<1>1. PICK d \in 0..MaxClock : \E r \in RowsAt(d) : Acquires(w, d, r)
  BY AcquireDoes
<1>2. PICK r \in RowsAt(d) : Acquires(w, d, r)
  BY <1>1
<1> DEFINE M == memory.tickets
           F == file.tickets.rows
           Y == With(M, d, r)
           G == With(F, d, r)
           u == unit'[w]
<1>3. /\ clock < d /\ clock' = d /\ memory'.tickets = Newest(Y) /\ memory'.logs = memory.logs
      /\ Begins(w, u) /\ UnitHas(u, "open", d, r, Overflow(Y), {}, FALSE, None)
  BY <1>2 DEF Acquires
<1>4. /\ u.stage = "open" /\ u.upsert = d /\ u.row = r /\ u.deletes = Overflow(Y) /\ u.logs = {}
      /\ u.clear = FALSE /\ u.stamp = None
  BY <1>3 DEF UnitHas
<1>5. /\ Alone(w)' /\ RingOf(memory.logs, clock) /\ clock \in Nat
      /\ Recovers(Normalized(F), M, dropped) /\ LogRecovers(LastLogs(file.logs), memory.logs, dropped)
      /\ F \in RowSets(clock) /\ file' = file /\ dropped' = dropped
  BY <1>3, <1>4, SerialBegins
<1>6. d \in Nat /\ clock <= d /\ M \in RowSets(clock) /\ d # None
  <2>1. d \in Nat /\ clock <= d
    BY <1>3, <1>5
  <2>2. d # None
    BY TablesAssumption
  <2> QED BY <2>1, <2>2, TicketsAre
<1>7. RingOf(memory'.logs, clock')
  BY <1>3, <1>5, <1>6, RingLater
<1>8. Recovers(Normalized(Restrict(G, DOMAIN G \ Overflow(Y))), Newest(Y), dropped)
  <2> HIDE DEF M, F
  <2> QED BY <1>3, <1>5, <1>6, AcquireAgrees
<1>9. After(u, F) = Restrict(G, DOMAIN G \ Overflow(Y))
  <2> HIDE DEF F, M, Y, u
  <2> QED BY <1>4, <1>6 DEF After, RowsWith
<1>10. LastLogs(Applied(u, file.logs)) = LastLogs(file.logs)
  <2> HIDE DEF u
  <2> QED BY <1>4, AppliesNothing
<1>11. Matches(unit[w])'
  <2>1. Recovers(Normalized(After(u, F)), memory'.tickets, dropped)
    <3> HIDE DEF Y, u, G, F
    <3> QED BY <1>3, <1>8, <1>9
  <2>2. LogRecovers(LastLogs(Applied(u, file.logs)), memory'.logs, dropped)
    <3> HIDE DEF u
    <3> QED BY <1>3, <1>5, <1>10
  <2> QED BY <1>5, <2>1, <2>2 DEF Matches
<1>12. Unwritten(unit[w])'
  <2>1. Acquired(u)
    BY <1>4, <1>6 DEF Acquired, RowsAt
  <2> QED BY <2>1 DEF Unwritten
<1> HIDE DEF Y, G
<1> QED BY <1>4, <1>5, <1>7, <1>11, <1>12, SerialWorks

LEMMA SerialTouch ==
    ASSUME TypeOK, OpenInv, SerialInv, NEW w \in Workers, NEW t \in DOMAIN memory.tickets, Touch(w, t)
    PROVE  SerialInv'
<1> SUFFICES ASSUME ~failed', ~cut', ~crossed', Serving' PROVE SerialHolds'
  BY DEF SerialInv
<1>1. PICK d \in 0..MaxClock : \E r \in RowsAt(d) : Touches(w, t, d, r)
  BY TouchDoes
<1>2. PICK r \in RowsAt(d) : Touches(w, t, d, r)
  BY <1>1
<1> DEFINE M == memory.tickets
           F == file.tickets.rows
           G == With(F, t, r)
           u == unit'[w]
<1>3. /\ clock < d /\ clock' = d /\ memory'.tickets = [M EXCEPT ![t] = r] /\ memory'.logs = memory.logs
      /\ Begins(w, u) /\ UnitHas(u, "open", t, r, {}, {}, FALSE, None)
  BY <1>2 DEF Touches
<1>4. /\ u.stage = "open" /\ u.upsert = t /\ u.row = r /\ u.deletes = {} /\ u.logs = {}
      /\ u.clear = FALSE /\ u.stamp = None
  BY <1>3 DEF UnitHas
<1>5. /\ Alone(w)' /\ RingOf(memory.logs, clock) /\ clock \in Nat
      /\ Recovers(Normalized(F), M, dropped) /\ LogRecovers(LastLogs(file.logs), memory.logs, dropped)
      /\ F \in RowSets(clock) /\ file' = file /\ dropped' = dropped
  BY <1>3, <1>4, SerialBegins
<1>6. d \in Nat /\ clock <= d /\ M \in RowSets(clock) /\ t \in DOMAIN M /\ t \in 0..clock /\ t # None
  <2>1. d \in Nat /\ clock <= d
    BY <1>3, <1>5
  <2> QED BY <2>1, TicketsAre
<1>7. RingOf(memory'.logs, clock')
  BY <1>3, <1>5, <1>6, RingLater
<1>8. /\ Recovers(Normalized(G), [M EXCEPT ![t] = r], dropped)
      /\ Recovers(Normalized(F), [M EXCEPT ![t] = r], dropped \cup {d})
  <2> HIDE DEF M, F
  <2> QED BY <1>3, <1>5, <1>6, TouchAgrees
<1>9. After(u, F) = G
  <2> HIDE DEF F, M, u
  <2>1. After(u, F) = Restrict(G, DOMAIN G \ {})
    BY <1>4, <1>6 DEF After, RowsWith
  <2>2. IsWith(G, d, F, t, r)
    <3>1. F \in RowSets(d)
      BY <1>5, <1>6, RowSetsGrow
    <3>2. t \in 0..d /\ r \in Row(d)
      BY <1>5, <1>6 DEF RowsAt
    <3> QED BY <1>6, <3>1, <3>2, WithHas
  <2> HIDE DEF G
  <2>3. G \in RowSets(d) /\ DOMAIN G \ {} = DOMAIN G
    BY <2>2 DEF IsWith
  <2>4. G = [x \in DOMAIN G |-> G[x]]
    BY <1>6, <2>3, RowSetHas
  <2> QED BY <2>1, <2>3, <2>4 DEF Restrict
<1>10. LastLogs(Applied(u, file.logs)) = LastLogs(file.logs)
  <2> HIDE DEF u
  <2> QED BY <1>4, AppliesNothing
<1>11. Matches(unit[w])'
  <2>1. Recovers(Normalized(After(u, F)), memory'.tickets, dropped)
    <3> HIDE DEF u, G, F, M
    <3> QED BY <1>3, <1>8, <1>9
  <2>2. LogRecovers(LastLogs(Applied(u, file.logs)), memory'.logs, dropped)
    <3> HIDE DEF u
    <3> QED BY <1>3, <1>5, <1>10
  <2> QED BY <1>5, <2>1, <2>2 DEF Matches
<1>12. Unwritten(unit[w])'
  <2>1. ChangedAt(u) = {d}
    BY <1>4, <1>6 DEF ChangedAt, RowsAt
  <2>2. Recovers(Normalized(file'.tickets.rows), memory'.tickets, dropped' \cup {d})
    <3> HIDE DEF u, G
    <3> QED BY <1>3, <1>5, <1>8
  <2>3. LogRecovers(LastLogs(file'.logs), memory'.logs, dropped' \cup {d})
    <3>1. LogRecovers(LastLogs(file.logs), memory.logs, dropped \cup {d})
      BY <1>5, RecoversMore
    <3> QED BY <1>3, <1>5, <3>1
  <2> QED BY <2>1, <2>2, <2>3 DEF Unwritten
<1> HIDE DEF G
<1> QED BY <1>4, <1>5, <1>7, <1>11, <1>12, SerialWorks

LEMMA SerialStampOnly ==
    ASSUME TypeOK, OpenInv, SerialInv, NEW w \in Workers, StampOnly(w)
    PROVE  SerialInv'
<1> SUFFICES ASSUME ~failed', ~cut', ~crossed', Serving' PROVE SerialHolds'
  BY DEF SerialInv
<1>1. PICK d \in 0..MaxClock : StampsOnly(w, d)
  BY StampOnlyDoes
<1> DEFINE u == unit'[w]
<1>2. /\ clock < d /\ clock' = d /\ memory' = memory /\ Begins(w, u)
      /\ u.stage = "open" /\ u.upsert = None /\ u.logs = {} /\ u.clear = FALSE /\ u.stamp = d
  BY <1>1 DEF StampsOnly, UnitHas
<1>3. /\ Alone(w)' /\ RingOf(memory.logs, clock) /\ clock \in Nat
      /\ ToSet(memory.logs) \subseteq 0..clock /\ file.logs \subseteq 0..clock
      /\ Recovers(Normalized(file.tickets.rows), memory.tickets, dropped)
      /\ LogRecovers(LastLogs(file.logs), memory.logs, dropped) /\ file' = file /\ dropped' = dropped
  BY <1>2, SerialBegins
<1>4. d \in Nat /\ clock <= d
  BY <1>2, <1>3
<1>5. RingOf(memory'.logs, clock')
  BY <1>2, <1>3, <1>4, RingLater
<1>6. \A l \in file'.logs \cup ToSet(memory'.logs) : l < u.stamp
  <2>1. \A l \in 0..clock : l < d
    BY <1>2, <1>3, <1>4
  <2> QED BY <1>2, <1>3, <2>1
<1>7. Matches(unit[w])'
  <2>1. After(u, file.tickets.rows) = file.tickets.rows
    BY <1>2 DEF After
  <2>2. LastLogs(Applied(u, file.logs)) = LastLogs(file.logs)
    BY <1>2, AppliesNothing
  <2> QED BY <1>2, <1>3, <2>1, <2>2 DEF Matches
<1>8. Unwritten(unit[w])'
  <2>1. dropped' \cup ChangedAt(u) = dropped
    BY <1>2, <1>3 DEF ChangedAt
  <2> QED BY <1>2, <1>3, <2>1 DEF Unwritten
<1> QED BY <1>2, <1>3, <1>5, <1>6, <1>7, <1>8, SerialWorks

LEMMA SerialClear ==
    ASSUME TypeOK, OpenInv, SerialInv, NEW w \in Workers, ClearLogs(w)
    PROVE  SerialInv'
<1> SUFFICES ASSUME ~failed', ~cut', ~crossed', Serving' PROVE SerialHolds'
  BY DEF SerialInv
<1> DEFINE u == unit'[w]
<1>1. /\ clock' = clock /\ memory'.tickets = memory.tickets /\ memory'.logs = <<>> /\ Begins(w, u)
      /\ u.stage = "ready" /\ u.upsert = None /\ u.logs = {} /\ u.clear = TRUE /\ u.stamp = None
  BY ClearDoes DEF Clears, UnitHas
<1>2. /\ Alone(w)' /\ clock \in Nat
      /\ Recovers(Normalized(file.tickets.rows), memory.tickets, dropped)
      /\ file' = file /\ dropped' = dropped
  BY <1>1, SerialBegins
<1>3. RingOf(memory'.logs, clock') /\ ToSet(memory'.logs) = {}
  <2>1. <<>> \in Seq(0..clock) /\ Len(<<>>) = 0 /\ DOMAIN <<>> = {}
    OBVIOUS
  <2>2. RingOf(<<>>, clock)
    BY <2>1, TablesAssumption DEF RingOf, Increases
  <2>3. ToSet(<<>>) = {}
    BY <2>1 DEF ToSet
  <2> QED BY <1>1, <2>2, <2>3
<1>4. Matches(unit[w])'
  <2>1. After(u, file.tickets.rows) = file.tickets.rows
    BY <1>1 DEF After
  <2>2. Applied(u, file.logs) = LastLogs({})
    <3>1. Applied(u, file.logs) = LastLogs({} \cup {})
      BY <1>1 DEF Applied
    <3>2. {} \cup {} = {}
      OBVIOUS
    <3> QED BY <3>1, <3>2
  <2>3. LastLogs(LastLogs({})) = {}
    <3>1. LastLogs({}) = {}
      BY DEF LastLogs
    <3> QED BY <3>1
  <2>4. LogRecovers({}, memory'.logs, dropped')
    BY <1>3 DEF LogRecovers
  <2> QED BY <1>1, <1>2, <2>1, <2>2, <2>3, <2>4 DEF Matches
<1>5. Unwritten(unit[w])'
  BY <1>1 DEF Unwritten
<1> QED BY <1>1, <1>2, <1>3, <1>4, <1>5, SerialWorks

(* A unit that is under way goes on, and it is alone.                      *)
LEMMA SerialStampEntry ==
    ASSUME TypeOK, OpenInv, MemoryInv, SerialInv, NEW w \in Workers, StampEntry(w)
    PROVE  SerialInv'
<1> SUFFICES ASSUME ~failed', ~cut', ~crossed', Serving' PROVE SerialHolds'
  BY DEF SerialInv
<1>1. PICK d \in 0..MaxClock : Stamps(w, d)
  BY StampDoesEntry
<1> DEFINE u == unit'[w]
<1>2. /\ clock < d /\ clock' = d /\ unit[w].stage = "open" /\ unit[w].logs = {}
      /\ UNCHANGED <<file, process, memory, cut, crossed, failed, dropped>>
      /\ \A v \in Workers : v # w => unit'[v] = unit[v]
      /\ u.stage = "open" /\ u.upsert = unit[w].upsert /\ u.row = unit[w].row
      /\ u.deletes = unit[w].deletes /\ u.logs = {} /\ u.clear = unit[w].clear /\ u.stamp = d
  BY <1>1 DEF Stamps, UnitHas
<1>3. ~failed /\ ~cut /\ ~crossed /\ Serving
  BY <1>2 DEF Serving
<1>4. RingOf(memory.logs, clock) /\ Matches(unit[w]) /\ Unwritten(unit[w]) /\ Alone(w)
  BY <1>2, <1>3 DEF SerialInv, SerialHolds, SerialUnits, Alone
<1>5. clock \in Nat /\ file.logs \in SUBSET (0..clock) /\ d \in Nat /\ clock <= d
  BY <1>2, <1>3, ServedIsReadable
<1>6. RingOf(memory'.logs, clock') /\ ToSet(memory.logs) \subseteq 0..clock
  BY <1>2, <1>4, <1>5, RingLater
<1>7. \A l \in file'.logs \cup ToSet(memory'.logs) : l < u.stamp
  <2>1. \A l \in 0..clock : l < d
    BY <1>2, <1>5
  <2> QED BY <1>2, <1>5, <1>6, <2>1
<1>8. Matches(unit[w])'
  <2>1. After(u, file.tickets.rows) = After(unit[w], file.tickets.rows)
    BY <1>2 DEF After, RowsWith
  <2>2. Applied(u, file.logs) = Applied(unit[w], file.logs)
    BY <1>2 DEF Applied
  <2> HIDE DEF u
  <2>3. Recovers(Normalized(After(u, file.tickets.rows)), memory.tickets, dropped)
        /\ LogRecovers(LastLogs(Applied(u, file.logs)), memory.logs, dropped)
    BY <1>4, <2>1, <2>2 DEF Matches
  <2> QED BY <1>2, <2>3 DEF Matches, u
<1>9. Alone(w)'
  BY <1>2, <1>4 DEF Alone
<1>10. Unwritten(unit[w])'
  <2>1. ChangedAt(u) = ChangedAt(unit[w]) /\ (Acquired(u) <=> Acquired(unit[w])) /\ u.clear = unit[w].clear
    BY <1>2 DEF ChangedAt, Acquired
  <2> HIDE DEF u
  <2>2. ~Acquired(u) /\ ~u.clear =>
            /\ Recovers(Normalized(file.tickets.rows), memory.tickets, dropped \cup ChangedAt(u))
            /\ LogRecovers(LastLogs(file.logs), memory.logs, dropped \cup ChangedAt(u))
    BY <1>4, <2>1 DEF Unwritten
  <2> QED BY <1>2, <2>2 DEF Unwritten, u
<1> QED BY <1>2, <1>6, <1>7, <1>8, <1>9, <1>10, SerialWorks

LEMMA SerialPush ==
    ASSUME TypeOK, OpenInv, MemoryInv, SerialInv, NEW w \in Workers, PushEntry(w)
    PROVE  SerialInv'
<1> SUFFICES ASSUME ~failed', ~cut', ~crossed', Serving' PROVE SerialHolds'
  BY DEF SerialInv
<1> DEFINE u == unit'[w]
           s == unit[w].stamp
           m == memory.logs
           F == file.logs
<1>1. /\ s # None /\ memory'.tickets = memory.tickets /\ memory'.logs = Ring(Append(m, s))
      /\ UNCHANGED <<file, process, clock, cut, crossed, failed, dropped>>
      /\ \A v \in Workers : v # w => unit'[v] = unit[v]
      /\ u.stage = "ready" /\ u.upsert = unit[w].upsert /\ u.row = unit[w].row
      /\ u.deletes = unit[w].deletes /\ u.logs = {s} /\ u.clear = unit[w].clear /\ u.stamp = None
  BY PushDoes DEF Pushes, UnitHas
<1>2. unit[w].stage = "open" /\ unit[w].logs = {} /\ unit[w].clear = FALSE
  BY <1>1 DEF MemoryInv, UnitsFit
<1>3. ~failed /\ ~cut /\ ~crossed /\ Serving
  BY <1>1 DEF Serving
<1>4. /\ RingOf(m, clock) /\ Matches(unit[w]) /\ Unwritten(unit[w]) /\ Alone(w)
      /\ \A l \in F \cup ToSet(m) : l < s
  BY <1>1, <1>2, <1>3 DEF SerialInv, SerialHolds, SerialUnits, Alone
<1>5. clock \in Nat /\ F \in SUBSET (0..clock)
  BY <1>3, ServedIsReadable
<1>6. s \in 0..clock
  BY <1>1, <1>5, UnitIs DEF TypeOK
<1>7. LogRecovers(LastLogs(F), m, dropped)
  BY <1>2, <1>4, AppliesNothing DEF Matches
<1>8. /\ RingOf(Ring(Append(m, s)), clock)
      /\ LogRecovers(LastLogs(F \cup {s}), Ring(Append(m, s)), dropped)
      /\ LogRecovers(LastLogs(F), Ring(Append(m, s)), dropped \cup {s})
  <2> HIDE DEF m, F, s
  <2> QED BY <1>4, <1>5, <1>6, <1>7, PushAgrees
<1>9. Matches(unit[w])'
  <2>1. After(u, file.tickets.rows) = After(unit[w], file.tickets.rows)
    BY <1>1 DEF After, RowsWith
  <2>2. Applied(u, F) = LastLogs(F \cup {s})
    BY <1>1, <1>2 DEF Applied
  <2>3. F \cup {s} \in SUBSET (0..clock)
    BY <1>5, <1>6
  <2>4. LastLogs(LastLogs(F \cup {s})) = LastLogs(F \cup {s})
    <3> HIDE DEF F, s
    <3> QED BY <1>5, <2>3, LastLogsAgain
  <2>5. Recovers(Normalized(After(unit[w], file.tickets.rows)), memory.tickets, dropped)
    BY <1>4 DEF Matches
  <2> HIDE DEF u, s, m, F
  <2>6. Recovers(Normalized(After(u, file.tickets.rows)), memory'.tickets, dropped)
    BY <1>1, <2>1, <2>5
  <2>7. LogRecovers(LastLogs(Applied(u, F)), memory'.logs, dropped)
    BY <1>1, <1>8, <2>2, <2>4
  <2> QED BY <1>1, <2>6, <2>7 DEF Matches, u, F
<1>10. Alone(w)'
  BY <1>1, <1>4 DEF Alone
<1>11. RingOf(memory'.logs, clock')
  BY <1>1, <1>8
<1>12. Unwritten(unit[w])'
  <2>1. /\ dropped \cup ChangedAt(u) = (dropped \cup ChangedAt(unit[w])) \cup {s}
        /\ (Acquired(u) <=> Acquired(unit[w])) /\ u.clear = unit[w].clear
    BY <1>1, <1>2 DEF ChangedAt, Acquired
  <2> DEFINE E == dropped \cup ChangedAt(unit[w])
  <2> HIDE DEF u, E, s, m, F
  <2>2. ~Acquired(u) /\ ~u.clear =>
            Recovers(Normalized(file.tickets.rows), memory.tickets, E)
    BY <1>4, <2>1 DEF Unwritten, E
  <2>3. E \subseteq E \cup {s} /\ dropped \cup {s} \subseteq E \cup {s}
    BY DEF E
  <2>4. ~Acquired(u) /\ ~u.clear =>
            Recovers(Normalized(file.tickets.rows), memory.tickets, E \cup {s})
    BY <2>2, <2>3, RecoversMore
  <2>5. LogRecovers(LastLogs(F), Ring(Append(m, s)), E \cup {s})
    BY <1>8, <2>3, RecoversMore
  <2>6. dropped' \cup ChangedAt(u) = E \cup {s} /\ memory'.tickets = memory.tickets
        /\ memory'.logs = Ring(Append(m, s)) /\ file' = file
    BY <1>1, <2>1 DEF E
  <2> QED BY <2>4, <2>5, <2>6 DEF Unwritten, u, F
<1> QED BY <1>1, <1>9, <1>10, <1>11, <1>12, SerialWorks

(* It is written, or given up.                                             *)
LEMMA SerialEnds ==
    ASSUME TypeOK', NEW w \in Workers, unit'[w] = NoUnit, Alone(w),
           \A v \in Workers : v # w => unit'[v] = unit[v],
           RingOf(memory'.logs, clock'),
           Recovers(Normalized(file'.tickets.rows), memory'.tickets, dropped'),
           LogRecovers(LastLogs(file'.logs), memory'.logs, dropped')
    PROVE  SerialHolds'
<1>1. \A v \in Workers : unit'[v].stage = "none"
  BY NoneHas DEF Alone
<1>2. (Matches(NoUnit) <=> /\ Recovers(Normalized(file.tickets.rows), memory.tickets, dropped)
                           /\ LogRecovers(LastLogs(file.logs), memory.logs, dropped))'
  BY MatchesAtRest, PTL
<1> QED BY <1>1, <1>2 DEF SerialHolds, SerialUnits

LEMMA SerialCommit ==
    ASSUME TypeOK, TypeOK', OpenInv, MemoryInv, SerialInv, NEW w \in Workers, Commit(w) \/ CommitFails(w)
    PROVE  SerialInv'
<1> SUFFICES ASSUME ~failed', ~cut', ~crossed', Serving' PROVE SerialHolds'
  BY DEF SerialInv
<1>1. Commits(w)
  BY CommitDoes DEF CommitFails
<1> DEFINE u == unit[w]
<1>2. /\ u.stage = "ready" /\ (u.upsert = None \/ Readable) /\ unit'[w] = NoUnit
      /\ \A v \in Workers : v # w => unit'[v] = unit[v]
      /\ UNCHANGED <<process, memory, clock, cut, crossed, failed, dropped>>
      /\ file'.logs = Applied(u, file.logs)
      /\ file'.tickets = IF u.upsert = None THEN file.tickets
                         ELSE Table(file.tickets.columns, RowsWith(u, file.tickets.rows))
  BY <1>1 DEF Commits
<1>3. ~failed /\ ~cut /\ ~crossed /\ Serving
  BY <1>2 DEF Serving
<1>4. RingOf(memory.logs, clock) /\ Matches(u) /\ Alone(w)
  BY <1>2, <1>3 DEF SerialInv, SerialHolds, SerialUnits, Alone
<1>5. file'.tickets.rows = After(u, file.tickets.rows)
  BY <1>2 DEF After, Table
<1>6. /\ Recovers(Normalized(file'.tickets.rows), memory'.tickets, dropped')
      /\ LogRecovers(LastLogs(file'.logs), memory'.logs, dropped')
  <2>1. /\ Recovers(Normalized(After(u, file.tickets.rows)), memory.tickets, dropped)
        /\ LogRecovers(LastLogs(Applied(u, file.logs)), memory.logs, dropped)
    BY <1>4 DEF Matches
  <2> QED BY <1>2, <1>5, <2>1
<1>7. RingOf(memory'.logs, clock')
  BY <1>2, <1>4
<1> QED BY <1>2, <1>4, <1>6, <1>7, SerialEnds

LEMMA SerialGiveUp ==
    ASSUME TypeOK, TypeOK', SerialInv, NEW w \in Workers, GiveUp(w)
    PROVE  SerialInv'
<1> SUFFICES ASSUME ~failed', ~cut', ~crossed', Serving' PROVE SerialHolds'
  BY DEF SerialInv
<1>1. /\ unit'[w] = NoUnit /\ \A v \in Workers : v # w => unit'[v] = unit[v]
      /\ unit[w].stage = "ready" /\ ~Acquired(unit[w]) /\ ~unit[w].clear
      /\ dropped' = dropped \cup ChangedAt(unit[w])
      /\ UNCHANGED <<file, process, memory, clock, starts, cut, crossed, failed>>
  BY GiveUpDoes
<1>2. ~failed /\ ~cut /\ ~crossed /\ Serving
  BY <1>1 DEF Serving
<1>3. RingOf(memory.logs, clock) /\ Unwritten(unit[w]) /\ Alone(w)
  BY <1>1, <1>2 DEF SerialInv, SerialHolds, SerialUnits, Alone
<1>4. /\ Recovers(Normalized(file'.tickets.rows), memory'.tickets, dropped')
      /\ LogRecovers(LastLogs(file'.logs), memory'.logs, dropped')
  BY <1>1, <1>3 DEF Unwritten
<1>5. RingOf(memory'.logs, clock')
  BY <1>1, <1>3
<1> QED BY <1>1, <1>3, <1>4, <1>5, SerialEnds

(* The owner replaces all tables by what it has loaded, or could not.      *)
LEMMA SerialReplace ==
    ASSUME TypeOK, TypeOK', OpenInv, MemoryInv, SerialInv, NEW h \in Processes, h = Owner,
           LoadFails(h) \/ Replace(h) \/ ReplaceFails(h)
    PROVE  SerialInv'
<1> SUFFICES ASSUME ~failed', ~cut', ~crossed', Serving' PROVE SerialHolds'
  BY DEF SerialInv
<1>1. Replace(h)
  BY DEF LoadFails, ReplaceFails
<1>2. /\ At(Owner, "replace") /\ Readable /\ Wrote(file', file, process[Owner].rows, process[Owner].logs)
      /\ UNCHANGED <<memory, unit, clock, cut, crossed, dropped>> /\ ~failed
  BY <1>1, ReplaceDoes DEF Replace
<1>3. ~failed /\ ~cut /\ ~crossed /\ Serving
  BY <1>2 DEF Serving, At
<1>4. AtRest /\ dropped = {} /\ process[Owner].rows = memory.tickets /\ process[Owner].logs = ToSet(memory.logs)
  BY <1>2 DEF MemoryInv, RestOpening, LoadKept, At
<1>5. RingOf(memory.logs, clock) /\ Matches(NoUnit)
  BY <1>3, <1>4 DEF SerialInv, SerialHolds
<1>6. /\ Recovers(Normalized(file.tickets.rows), memory.tickets, {})
      /\ file.tickets.rows \in RowSets(clock) /\ file.logs \in SUBSET (0..clock) /\ clock \in Nat
  BY <1>3, <1>4, <1>5, MatchesAtRest, ServedIsReadable
<1>7. file'.tickets.rows = memory.tickets /\ file'.logs = ToSet(memory.logs)
  BY <1>2, <1>4 DEF Wrote, Table
<1>8. Normalized(file'.tickets.rows) = memory'.tickets
  <2>1. Normalized(file.tickets.rows) \in RowSets(clock) /\ memory.tickets \in RowSets(clock)
    BY <1>6, NormalizedHas, TicketsAre
  <2>2. Normalized(file.tickets.rows) = memory.tickets
    BY <1>6, <2>1, RecoversAll
  <2>3. Normalized(Normalized(file.tickets.rows)) = Normalized(file.tickets.rows)
    BY <1>6, NormalizedAgain
  <2> QED BY <1>2, <1>7, <2>2, <2>3
<1>9. LastLogs(file'.logs) = ToSet(memory'.logs)
  <2> DEFINE M == ToSet(memory.logs)
  <2>1. /\ M \in SUBSET (0..clock) /\ Cardinality(M) <= LogBuffer
    BY <1>5, <1>6, IncreasesIsDistinct DEF RingOf
  <2> HIDE DEF M
  <2>2. LastLogs(M) = M
    BY <1>6, <2>1, LastLogsAre
  <2> QED BY <1>2, <1>7, <2>2 DEF M
<1>10. Matches(NoUnit)'
  <2>1. (Matches(NoUnit) <=> /\ Recovers(Normalized(file.tickets.rows), memory.tickets, dropped)
                             /\ LogRecovers(LastLogs(file.logs), memory.logs, dropped))'
    BY MatchesAtRest, PTL
  <2>2. /\ Recovers(Normalized(file'.tickets.rows), memory'.tickets, dropped')
        /\ LogRecovers(LastLogs(file'.logs), memory'.logs, dropped')
    BY <1>8, <1>9 DEF Recovers, LogRecovers
  <2> QED BY <2>1, <2>2
<1>11. \A w \in Workers : unit'[w].stage = "none"
  BY <1>2, <1>4 DEF AtRest
<1>12. RingOf(memory'.logs, clock')
  BY <1>2, <1>5
<1> QED BY <1>10, <1>11, <1>12 DEF SerialHolds, SerialUnits

LEMMA SerialNext ==
    ASSUME TypeOK, TypeOK', OpenInv, MemoryInv, SerialInv, [Next]_vars PROVE SerialInv'
<1>1. CASE UNCHANGED vars
  <2>1. Apart
    BY <1>1 DEF vars, Apart
  <2> QED BY <2>1, SerialApart
<1>2. ASSUME NEW h \in Processes, h # Owner, Start(h) \/ OpenStep(h) \/ Stop(h) PROVE SerialInv'
  BY <1>2, OtherSteps, SerialApart
<1>3. ASSUME NEW h \in Processes, h = Owner, Start(h) \/ OpenStep(h) \/ Stop(h) PROVE SerialInv'
  <2>1. CASE Load(h)
    BY <1>3, <2>1, SerialLoad
  <2>2. CASE LoadFails(h) \/ Replace(h) \/ ReplaceFails(h)
    BY <1>3, <2>2, SerialReplace
  <2>3. CASE Stop(h)
    BY <1>3, <2>3, StopDoes DEF Off, SerialInv, Serving
  <2>4. CASE Opens
    BY <2>4 DEF Opens, SerialInv, Serving
  <2> QED BY <1>3, <2>1, <2>2, <2>3, <2>4, OwnerOpens DEF OpenStep
<1>4. ASSUME NEW w \in Workers, UnitStep(w) PROVE SerialInv'
  BY <1>4, SerialAcquire, SerialTouch, SerialStampOnly, SerialClear, SerialStampEntry, SerialPush,
     SerialCommit, SerialGiveUp DEF UnitStep
<1> QED BY <1>1, <1>2, <1>3, <1>4 DEF Next

(* A restart brings back the same tickets and the same log, but for what   *)
(* was given up (SerialRestartLosesOnlyDropped).                           *)
THEOREM RestartsLoseOnlyDropped == Spec => []SerialRestartLosesOnlyDropped
<1> DEFINE Inv == TypeOK /\ OpenInv /\ MemoryInv /\ SerialInv
<1>1. Init => Inv
  <2>1. Init => SerialInv
    BY DEF Init, Off, Processes, SerialInv, Serving
  <2> QED BY <2>1, InitTypes, OpensInit, MemoryInit
<1>2. Inv /\ [Next]_vars => Inv'
  <2> SUFFICES ASSUME Inv, [Next]_vars PROVE Inv'
    OBVIOUS
  <2>1. TypeOK' /\ OpenInv' /\ MemoryInv'
    BY NextTypes, OpensNext, MemoryNext
  <2> QED BY <2>1, SerialNext
<1>3. Inv => SerialRestartLosesOnlyDropped
  <2> SUFFICES ASSUME Inv, AtRest, At(Owner, "sqlite"), ~failed, ~cut, ~crossed
               PROVE  LET ring == ToSet(memory.logs)
                          last == LastLogs(file.logs)
                      IN  /\ Recovers(Normalized(file.tickets.rows), memory.tickets, dropped)
                          /\ ring \ dropped \subseteq last
                          /\ \A l \in last \ ring : ring \cap dropped # {} /\ \A m \in ring : l < m
    BY DEF SerialRestartLosesOnlyDropped
  <2> DEFINE ring == ToSet(memory.logs)
             last == LastLogs(file.logs)
  <2>1. RingOf(memory.logs, clock) /\ Matches(NoUnit)
    BY DEF SerialInv, SerialHolds, Serving, At
  <2>2. /\ Recovers(Normalized(file.tickets.rows), memory.tickets, dropped)
        /\ LogRecovers(last, memory.logs, dropped)
    BY <2>1, MatchesAtRest
  <2>3. clock \in Nat /\ file.logs \in SUBSET (0..clock)
    BY FileHas
  <2>4. last \ ring # {} => ring \cap dropped # {}
    BY <2>1, <2>2, <2>3, OlderForDropped
  <2> HIDE DEF ring, last
  <2>5. ring \ dropped \subseteq last /\ \A l \in last \ ring, m \in ring : l < m
    BY <2>2 DEF LogRecovers, ring
  <2>6. \A l \in last \ ring : ring \cap dropped # {} /\ \A m \in ring : l < m
    BY <2>4, <2>5
  <2> QED BY <2>2, <2>5, <2>6 DEF ring, last
<1> HIDE DEF Inv
<1> QED BY <1>1, <1>2, <1>3, PTL DEF Spec
=============================================================================
