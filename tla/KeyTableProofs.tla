--------------------------- MODULE KeyTableProofs ---------------------------
(***************************************************************************)
(* What the operators of KeyTable compute, for every table: each statement *)
(* that writes priorities leaves them numbered 1..n, a set of keys has a   *)
(* first one, and what each statement does to the listing.                 *)
(***************************************************************************)
EXTENDS KeyTable, FiniteSetTheorems, WellFoundedInduction, TLAPS

IsTable(t) ==
    /\ IsFiniteSet(DOMAIN t)
    /\ DOMAIN t \subseteq Nat
    /\ t \in [DOMAIN t -> Row]

(* What the order of a table rests on.                                     *)
Numbered(t) ==
    /\ IsFiniteSet(DOMAIN t)
    /\ DOMAIN t \subseteq Nat
    /\ \A i \in DOMAIN t : t[i].priority \in Nat

(* The rows' priorities are 1..n without gaps; then none is repeated.      *)
Dense(t) == Priorities(t) = 1..Cardinality(DOMAIN t)

LEMMA TablesAreNumbered ==
    ASSUME NEW t, IsTable(t)
    PROVE  Numbered(t)
BY DEF IsTable, Numbered, Row

-----------------------------------------------------------------------------
(* A non-empty set of naturals has a least element. *)
LEMMA LeastNatural ==
    ASSUME NEW S \in SUBSET Nat, S # {}
    PROVE  \E m \in S : \A n \in S : m =< n
<1> DEFINE R == OpToRel(<, Nat)
<1>1. \E x \in S : \A y \in S : ~ (<<y, x>> \in R)
    <2>1. IsWellFoundedOn(R, Nat)
        BY NatLessThanWellFounded
    <2> HIDE DEF R
    <2> QED BY <2>1, WFMin
<1>2. PICK m \in S : \A y \in S : ~ (<<y, m>> \in R)
    BY <1>1
<1>3. ASSUME NEW n \in S PROVE m =< n
    <2>1. ~ (<<n, m>> \in R) BY <1>2
    <2>2. ~ (n < m) BY <2>1 DEF OpToRel
    <2> QED BY <2>2
<1> QED BY <1>3

(* Any non-empty set of rows has a first one, and First is it: the row     *)
(* that a SELECT ... ORDER BY priority, id returns before all others.      *)
LEMMA FirstIsFirst ==
    ASSUME NEW t, Numbered(t), NEW S \in SUBSET DOMAIN t, S # {}
    PROVE  /\ First(t, S) \in S
           /\ \A j \in S \ {First(t, S)} : Before(t, First(t, S), j)
<1>1. \A i \in S : t[i].priority \in Nat /\ i \in Nat
    BY DEF Numbered
<1> DEFINE P == {t[i].priority : i \in S}
<1>2. PICK p \in P : \A q \in P : p =< q
    <2>1. P \in SUBSET Nat /\ P # {} BY <1>1
    <2> HIDE DEF P
    <2> QED BY <2>1, LeastNatural
<1> DEFINE L == {i \in S : t[i].priority = p}
<1>3. PICK m \in L : \A n \in L : m =< n
    <2>1. L \in SUBSET Nat /\ L # {} BY <1>1, <1>2
    <2> HIDE DEF L
    <2> QED BY <2>1, LeastNatural
<1>4. \A j \in S \ {m} : Before(t, m, j)
    <2> SUFFICES ASSUME NEW j \in S \ {m} PROVE Before(t, m, j)
        OBVIOUS
    <2>1. CASE j \in L
        BY <1>1, <1>3, <2>1 DEF Before
    <2>2. CASE j \notin L
        BY <1>1, <1>2, <1>3, <2>2 DEF Before
    <2> QED BY <2>1, <2>2
<1> QED BY <1>3, <1>4 DEF First

(* The listing order is total and strict. *)
LEMMA BeforeIsStrictOrder ==
    ASSUME NEW t, Numbered(t)
    PROVE  /\ \A i, j \in DOMAIN t : i # j => Before(t, i, j) \/ Before(t, j, i)
           /\ \A i \in DOMAIN t : ~ Before(t, i, i)
           /\ \A i, j, k \in DOMAIN t :
                  Before(t, i, j) /\ Before(t, j, k) => Before(t, i, k)
<1>1. \A i \in DOMAIN t : t[i].priority \in Nat /\ i \in Nat
    BY DEF Numbered
<1> QED BY <1>1 DEF Before

-----------------------------------------------------------------------------
(* Setting the priority of a row changes that column. *)
LEMMA RenumberedRow ==
    ASSUME NEW row \in Row, NEW p \in Nat
    PROVE  /\ [row EXCEPT !.priority = p] \in Row
           /\ [row EXCEPT !.priority = p].priority = p
BY DEF Row

(* Ranks are 1..n, one for each row. *)
LEMMA RanksAreDense ==
    ASSUME NEW t, Numbered(t)
    PROVE  /\ {Rank(t, i) : i \in DOMAIN t} = 1..Cardinality(DOMAIN t)
           /\ \A i, j \in DOMAIN t : Rank(t, i) = Rank(t, j) => i = j
<1> DEFINE D == DOMAIN t
           n == Cardinality(D)
           Ahead(i) == {j \in D : Before(t, j, i)}
           rank == [i \in D |-> Rank(t, i)]
<1>1. IsFiniteSet(D) /\ n \in Nat
    BY FS_CardinalityType DEF Numbered
<1>2. ASSUME NEW i \in D
      PROVE  /\ IsFiniteSet(Ahead(i)) /\ Cardinality(Ahead(i)) \in Nat
             /\ Cardinality(Ahead(i)) < n
    <2>1. i \notin Ahead(i) BY BeforeIsStrictOrder
    <2>2. Ahead(i) \in SUBSET D /\ Ahead(i) # D BY <2>1
    <2>3. IsFiniteSet(Ahead(i)) /\ Cardinality(Ahead(i)) =< n
          /\ (n = Cardinality(Ahead(i)) => D = Ahead(i))
        BY <1>1, <2>2, FS_Subset
    <2>4. Cardinality(Ahead(i)) \in Nat BY <2>3, FS_CardinalityType
    <2> QED BY <1>1, <2>2, <2>3, <2>4
<1>3. ASSUME NEW i \in D, NEW j \in D, Before(t, i, j)
      PROVE  Cardinality(Ahead(i)) < Cardinality(Ahead(j))
    <2>1. Ahead(i) \in SUBSET Ahead(j) BY <1>3, BeforeIsStrictOrder
    <2>2. i \in Ahead(j) /\ i \notin Ahead(i) BY <1>3, BeforeIsStrictOrder
    <2>3. IsFiniteSet(Ahead(j)) BY <1>2
    <2>4. Cardinality(Ahead(i)) =< Cardinality(Ahead(j))
          /\ (Cardinality(Ahead(j)) = Cardinality(Ahead(i)) => Ahead(j) = Ahead(i))
        BY <2>1, <2>3, FS_Subset
    <2>5. Cardinality(Ahead(i)) \in Nat /\ Cardinality(Ahead(j)) \in Nat
        BY <1>2
    <2> QED BY <2>2, <2>4, <2>5
<1>4. \A i \in D : rank[i] = Cardinality(Ahead(i)) + 1
    BY DEF Rank
<1>5. rank \in [D -> 1..n]
    <2>1. \A i \in D : Rank(t, i) = Cardinality(Ahead(i)) + 1 BY DEF Rank
    <2>2. \A i \in D : Rank(t, i) \in 1..n
        <3> HIDE DEF Ahead, n
        <3> QED BY <1>1, <1>2, <2>1
    <2> QED BY <2>2
<1>6. \A i, j \in D : i # j => rank[i] # rank[j]
    <2> SUFFICES ASSUME NEW i \in D, NEW j \in D, i # j PROVE rank[i] # rank[j]
        OBVIOUS
    <2> HIDE DEF Ahead, rank
    <2>1. Before(t, i, j) \/ Before(t, j, i) BY BeforeIsStrictOrder
    <2>2. Cardinality(Ahead(i)) # Cardinality(Ahead(j)) BY <1>2, <1>3, <2>1
    <2> QED BY <1>2, <1>4, <2>2
<1>7. rank \in Injection(D, 1..n)
    <2> HIDE DEF rank, n
    <2> QED BY <1>5, <1>6 DEF Injection, IsInjective
<1>8. IsFiniteSet(1..n) /\ Cardinality(1..n) = n
    BY <1>1, FS_Interval
<1>9. rank \in Surjection(D, 1..n)
    <2> HIDE DEF rank
    <2> QED BY <1>7, <1>8, FS_Injection
<1>10. \A r \in 1..n : \E i \in D : rank[i] = r
    <2> HIDE DEF rank, n
    <2> QED BY <1>9 DEF Surjection
<1>11. \A i \in D : rank[i] = Rank(t, i)
    OBVIOUS
<1>12. {rank[i] : i \in D} = 1..n
    <2> HIDE DEF rank, n
    <2> QED BY <1>5, <1>10
<1> QED
    <2> HIDE DEF rank
    <2> QED BY <1>6, <1>11, <1>12

(* Renumbering after a delete leaves 1..n (normalizePrioritiesTx). *)
LEMMA DeletedIsDense ==
    ASSUME NEW t, IsTable(t), NEW id \in DOMAIN t
    PROVE  IsTable(Deleted(t, id)) /\ Dense(Deleted(t, id))
<1> DEFINE w == Without(t, id)
<1>1. DOMAIN w = DOMAIN t \ {id} /\ \A i \in DOMAIN w : w[i] = t[i]
    BY DEF Without
<1>2. IsTable(w)
    <2>1. IsFiniteSet(DOMAIN w) BY <1>1, FS_RemoveElement DEF IsTable
    <2>2. w \in [DOMAIN w -> Row] BY <1>1 DEF IsTable, Without
    <2> HIDE DEF w
    <2> QED BY <1>1, <2>1, <2>2 DEF IsTable
<1> DEFINE d == Deleted(t, id)
<1>3. DOMAIN d = DOMAIN w
      /\ \A i \in DOMAIN w : d[i] = [w[i] EXCEPT !.priority = Rank(w, i)]
    BY DEF Deleted, Normalized, WithPriorities
<1>4. {Rank(w, i) : i \in DOMAIN w} = 1..Cardinality(DOMAIN w)
    <2> HIDE DEF w
    <2> QED BY <1>2, TablesAreNumbered, RanksAreDense
<1>5. Cardinality(DOMAIN w) \in Nat
    <2> HIDE DEF w
    <2> QED BY <1>2, FS_CardinalityType DEF IsTable
<1> HIDE DEF w
<1>6. \A i \in DOMAIN w : Rank(w, i) \in Nat
    BY <1>4, <1>5
<1>7. d = [i \in DOMAIN w |-> [w[i] EXCEPT !.priority = Rank(w, i)]]
    BY DEF d, Deleted, Normalized, WithPriorities, w
<1> HIDE DEF d
<1>8. \A i \in DOMAIN w : w[i] \in Row
    BY <1>2 DEF IsTable
<1>9. \A i \in DOMAIN w : d[i] \in Row /\ d[i].priority = Rank(w, i)
    BY <1>3, <1>6, <1>8 DEF Row
<1>10. IsTable(d)
    BY <1>2, <1>3, <1>7, <1>9 DEF IsTable
<1>11. Dense(d)
    <2>1. Priorities(d) = {Rank(w, i) : i \in DOMAIN w}
        BY <1>3, <1>9 DEF Priorities
    <2> QED BY <1>3, <1>4, <2>1 DEF Dense
<1> QED BY <1>10, <1>11 DEF d

(* MAX(priority) + 1 is the next number of a numbering without gaps.       *)
LEMMA NextAfterDense ==
    ASSUME NEW t, Numbered(t), Dense(t)
    PROVE  NextPriority(t) = Cardinality(DOMAIN t) + 1
<1> DEFINE n == Cardinality(DOMAIN t)
<1>1. n \in Nat /\ IsFiniteSet(DOMAIN t)
    BY FS_CardinalityType DEF Numbered
<1>2. CASE DOMAIN t = {}
    BY <1>2, FS_EmptySet DEF NextPriority
<1>3. CASE DOMAIN t # {}
    <2>1. n # 0 BY <1>1, <1>3, FS_EmptySet
    <2>2. Priorities(t) = 1..n BY DEF Dense
    <2> HIDE DEF n
    <2>3. n \in 1..n /\ \A q \in 1..n : q =< n BY <1>1, <2>1
    <2> DEFINE max == CHOOSE p \in 1..n : \A q \in 1..n : q =< p
    <2>4. max = n BY <1>1, <2>3
    <2>5. NextPriority(t) = 1 + max
        BY <1>3, <2>2, Zenon DEF NextPriority
    <2> HIDE DEF max
    <2> QED BY <1>1, <2>4, <2>5 DEF n
<1> QED BY <1>2, <1>3

(* MAX(priority) + 1 continues the numbering (CreateUpstreamKey). *)
LEMMA InsertedIsDense ==
    ASSUME NEW t, IsTable(t), Dense(t), NEW id \in Nat, id \notin DOMAIN t,
           NEW enabled \in BOOLEAN
    PROVE  IsTable(Inserted(t, id, enabled)) /\ Dense(Inserted(t, id, enabled))
<1> DEFINE n == Cardinality(DOMAIN t)
           d == Inserted(t, id, enabled)
<1>1. n \in Nat /\ IsFiniteSet(DOMAIN t)
    BY FS_CardinalityType DEF IsTable
<1>2. NextPriority(t) = n + 1
    BY TablesAreNumbered, NextAfterDense
<1>3. DOMAIN d = DOMAIN t \cup {id}
    BY DEF Inserted
<1>4. d[id] = FreshRow(enabled, n + 1) /\ \A i \in DOMAIN t : d[i] = t[i]
    BY <1>2 DEF Inserted
<1>5. IsFiniteSet(DOMAIN d) /\ Cardinality(DOMAIN d) = n + 1
    <2> HIDE DEF d
    <2> QED BY <1>1, <1>3, FS_AddElement
<1>6. d \in [DOMAIN d -> Row]
    <2>1. FreshRow(enabled, n + 1) \in Row
        <3> HIDE DEF n
        <3> QED BY <1>1 DEF FreshRow, Row
    <2>2. \A i \in DOMAIN t : t[i] \in Row BY DEF IsTable
    <2>3. d = [i \in DOMAIN d |-> d[i]] BY DEF Inserted
    <2> HIDE DEF d, n
    <2> QED BY <1>3, <1>4, <2>1, <2>2, <2>3
<1>7. Priorities(d) = Priorities(t) \cup {n + 1}
    <2>1. d[id].priority = n + 1 BY <1>4 DEF FreshRow
    <2> HIDE DEF d, n
    <2> QED BY <1>3, <1>4, <2>1 DEF Priorities
<1>8. 1..(n + 1) = (1..n) \cup {n + 1}
    <2> HIDE DEF n
    <2> QED BY <1>1
<1>9. Dense(d)
    <2> HIDE DEF d
    <2> QED BY <1>5, <1>7, <1>8 DEF Dense
<1>10. IsTable(d)
    <2> HIDE DEF d
    <2> QED BY <1>3, <1>5, <1>6 DEF IsTable
<1> QED BY <1>9, <1>10

(* A payload as long as the table that names every row of it names each    *)
(* exactly once, though the code does not look for repeated ids.           *)
LEMMA AcceptedPayloadIsPermutation ==
    ASSUME NEW t, Numbered(t), NEW ids \in Seq(Nat), ReorderAccepted(t, ids)
    PROVE  /\ Range(ids) = DOMAIN t
           /\ \A m, n \in 1..Len(ids) : ids[m] = ids[n] => m = n
<1> DEFINE n == Len(ids)
           R == Range(ids)
<1>1. n \in Nat /\ DOMAIN ids = 1..n
    OBVIOUS
<1>2. IsFiniteSet(1..n) /\ Cardinality(1..n) = n
    <2> HIDE DEF n, R
    <2>1. n \in Nat BY <1>1
    <2>2. IF 1 > n THEN Cardinality(1..n) = 0 ELSE Cardinality(1..n) = n - 1 + 1
        BY <2>1, FS_Interval
    <2>3. IsFiniteSet(1..n)
        BY <2>1, FS_Interval
    <2> QED BY <2>1, <2>2, <2>3
<1>3. ids \in Surjection(1..n, R)
    BY <1>1 DEF Surjection, Range
<1>4. /\ IsFiniteSet(R) /\ Cardinality(R) =< n
      /\ Cardinality(R) = n <=> ids \in Injection(1..n, R)
    <2> HIDE DEF n, R
    <2> QED BY <1>2, <1>3, FS_Surjection
<1>5. Cardinality(DOMAIN t) = n /\ DOMAIN t \in SUBSET R
    BY DEF ReorderAccepted
<1>6. /\ Cardinality(DOMAIN t) =< Cardinality(R)
      /\ Cardinality(R) = Cardinality(DOMAIN t) => R = DOMAIN t
    <2> HIDE DEF n, R
    <2> QED BY <1>4, <1>5, FS_Subset
<1>7. Cardinality(R) \in Nat
    BY <1>4, FS_CardinalityType
<1>8. Cardinality(R) = n
    <2> HIDE DEF n, R
    <2> QED BY <1>1, <1>4, <1>5, <1>6, <1>7
<1>9. ids \in Injection(1..n, R)
    BY <1>4, <1>8
<1> QED BY <1>5, <1>6, <1>8, <1>9 DEF Injection, IsInjective

(* So the last UPDATE for a row is the only one.                           *)
LEMMA PayloadPositions ==
    ASSUME NEW t, Numbered(t), NEW ids \in Seq(Nat), ReorderAccepted(t, ids)
    PROVE  /\ \A n \in 1..Len(ids) : ids[n] \in DOMAIN t /\ LastPosition(ids, ids[n]) = n
           /\ \A i \in DOMAIN t : \E n \in 1..Len(ids) : ids[n] = i
<1> DEFINE len == Len(ids)
<1>1. Range(ids) = DOMAIN t /\ \A m, n \in 1..len : ids[m] = ids[n] => m = n
    BY AcceptedPayloadIsPermutation
<1>2. len \in Nat /\ DOMAIN ids = 1..len
    OBVIOUS
<1>3. ASSUME NEW n \in 1..len PROVE LastPosition(ids, ids[n]) = n
    <2>1. \A m \in (n+1)..len : ids[m] # ids[n] BY <1>1, <1>2
    <2>2. \A k \in 1..len : ids[k] = ids[n] => k = n BY <1>1
    <2> QED BY <2>1, <2>2 DEF LastPosition
<1> QED BY <1>1, <1>2, <1>3 DEF Range

(* An accepted reorder gives the row named at place n the priority n       *)
(* (ReorderUpstreamKeys).                                                  *)
LEMMA ReorderedIsDense ==
    ASSUME NEW t, IsTable(t), NEW ids \in Seq(Nat), ReorderAccepted(t, ids)
    PROVE  /\ IsTable(Reordered(t, ids)) /\ Dense(Reordered(t, ids))
           /\ \A n \in 1..Len(ids) : Reordered(t, ids)[ids[n]].priority = n
<1> DEFINE r == Reordered(t, ids)
           len == Len(ids)
<1>1. Range(ids) = DOMAIN t /\ \A m, n \in 1..len : ids[m] = ids[n] => m = n
    BY TablesAreNumbered, AcceptedPayloadIsPermutation
<1>2. len \in Nat /\ DOMAIN ids = 1..len /\ Cardinality(DOMAIN t) = len
    BY DEF ReorderAccepted
<1>3. \A n \in 1..len : LastPosition(ids, ids[n]) = n
    BY TablesAreNumbered, PayloadPositions
<1>4. \A i \in DOMAIN t : \E n \in 1..len : ids[n] = i
    BY TablesAreNumbered, PayloadPositions
<1>5. DOMAIN r = DOMAIN t
      /\ \A i \in DOMAIN t : r[i] = [t[i] EXCEPT !.priority = LastPosition(ids, i)]
    BY <1>1 DEF Reordered, WithPriorities
<1>6. \A i \in DOMAIN t : LastPosition(ids, i) \in 1..len
    BY <1>3, <1>4
<1>7. \A i \in DOMAIN t : t[i] \in Row
    BY DEF IsTable
<1>8. \A i \in DOMAIN t : r[i] \in Row /\ r[i].priority = LastPosition(ids, i)
    <2> HIDE DEF r, len
    <2> SUFFICES ASSUME NEW i \in DOMAIN t
                 PROVE  r[i] \in Row /\ r[i].priority = LastPosition(ids, i)
        OBVIOUS
    <2> DEFINE p == LastPosition(ids, i)
               row == t[i]
    <2>1. p \in Nat BY <1>2, <1>6
    <2>2. row \in Row BY <1>7
    <2>3. r[i] = [row EXCEPT !.priority = p] BY <1>5
    <2> HIDE DEF p, row
    <2>4. r[i] \in Row /\ r[i].priority = p BY <2>1, <2>2, <2>3, RenumberedRow
    <2> QED BY <2>4 DEF p
<1>9. \A n \in 1..len : ids[n] \in DOMAIN t
    BY <1>1, <1>2 DEF Range
<1>10. \A n \in 1..len : r[ids[n]].priority = n
    <2> HIDE DEF r, len
    <2> QED BY <1>3, <1>8, <1>9
<1>11. Priorities(r) = 1..len
    <2> HIDE DEF r, len
    <2> QED BY <1>5, <1>6, <1>8, <1>9, <1>10 DEF Priorities
<1>12. IsTable(r)
    <2>1. r = [i \in DOMAIN r |-> r[i]] BY DEF Reordered, WithPriorities
    <2> HIDE DEF r
    <2> QED BY <1>5, <1>8, <2>1 DEF IsTable
<1> QED BY <1>2, <1>5, <1>10, <1>11, <1>12 DEF Dense

-----------------------------------------------------------------------------
(***************************************************************************)
(* The listing: what the SELECTs return, of a table that is numbered 1..n. *)
(***************************************************************************)

(* Each number of a numbering without gaps belongs to one row.             *)
LEMMA NumbersAreUnique ==
    ASSUME NEW t, Numbered(t), Dense(t)
    PROVE  /\ \A i \in DOMAIN t : t[i].priority \in 1..Cardinality(DOMAIN t)
           /\ \A m \in 1..Cardinality(DOMAIN t) : \E i \in DOMAIN t : t[i].priority = m
           /\ \A i, j \in DOMAIN t : t[i].priority = t[j].priority => i = j
<1> DEFINE n == Cardinality(DOMAIN t)
           f == [i \in DOMAIN t |-> t[i].priority]
<1>1. Priorities(t) = 1..n BY DEF Dense
<1>2. n \in Nat /\ IsFiniteSet(DOMAIN t) BY FS_CardinalityType DEF Numbered
<1>3. /\ \A i \in DOMAIN t : t[i].priority \in 1..n
      /\ \A m \in 1..n : \E i \in DOMAIN t : t[i].priority = m
    <2> HIDE DEF n
    <2> QED BY <1>1 DEF Priorities
<1>4. f \in Surjection(DOMAIN t, 1..n)
    <2>1. f \in [DOMAIN t -> 1..n] BY <1>3
    <2>2. \A m \in 1..n : \E i \in DOMAIN t : f[i] = m BY <1>3
    <2> HIDE DEF f, n
    <2> QED BY <2>1, <2>2 DEF Surjection
<1>5. Cardinality(1..n) = Cardinality(DOMAIN t)
    <2>1. Cardinality(1..n) = IF 1 > n THEN 0 ELSE n - 1 + 1
        <3> HIDE DEF n
        <3> QED BY <1>2, FS_Interval
    <2>2. Cardinality(1..n) = n
        <3> HIDE DEF n
        <3> QED BY <1>2, <2>1
    <2> QED BY <2>2
<1>6. f \in Injection(DOMAIN t, 1..n)
    <2> HIDE DEF f, n
    <2> QED BY <1>2, <1>4, <1>5, FS_Surjection
<1>7. \A i, j \in DOMAIN t : f[i] = f[j] => i = j
    <2> HIDE DEF f, n
    <2> QED BY <1>6 DEF Injection, IsInjective
<1> QED BY <1>3, <1>7

(* The row numbered m is the m-th.                                         *)
LEMMA DenseRank ==
    ASSUME NEW t, Numbered(t), Dense(t), NEW i \in DOMAIN t
    PROVE  Rank(t, i) = t[i].priority
<1> DEFINE n == Cardinality(DOMAIN t)
           p == t[i].priority
           A == {j \in DOMAIN t : Before(t, j, i)}
           f == [j \in A |-> t[j].priority]
<1>1. n \in Nat /\ IsFiniteSet(DOMAIN t) BY FS_CardinalityType DEF Numbered
<1>2. /\ p \in 1..n
      /\ \A j \in DOMAIN t : t[j].priority \in 1..n
      /\ \A m \in 1..n : \E j \in DOMAIN t : t[j].priority = m
      /\ \A j, k \in DOMAIN t : t[j].priority = t[k].priority => j = k
    BY NumbersAreUnique
<1>3. p \in Nat /\ p > 0 /\ p =< n
    <2> HIDE DEF n, p
    <2> QED BY <1>1, <1>2
<1>4. \A j \in DOMAIN t : j \in A <=> t[j].priority \in 1..(p - 1)
    <2> SUFFICES ASSUME NEW j \in DOMAIN t
                 PROVE  Before(t, j, i) <=> t[j].priority \in 1..(p - 1)
        OBVIOUS
    <2>1. t[j].priority \in Nat /\ t[j].priority > 0
        <3> HIDE DEF n
        <3> QED BY <1>1, <1>2
    <2>2. j \in Nat /\ i \in Nat BY DEF Numbered
    <2>3. t[j].priority = p => j = i BY <1>2
    <2>4. Before(t, j, i) <=> t[j].priority < p BY <2>2, <2>3 DEF Before
    <2> HIDE DEF p
    <2> QED BY <1>3, <2>1, <2>4
<1>5. f \in Bijection(A, 1..(p - 1))
    <2>1. f \in [A -> 1..(p - 1)] BY <1>4
    <2>2. \A m \in 1..(p - 1) : \E j \in A : f[j] = m
        <3> SUFFICES ASSUME NEW m \in 1..(p - 1) PROVE \E j \in A : t[j].priority = m
            OBVIOUS
        <3>1. m \in 1..n
            <4> HIDE DEF n, p
            <4> QED BY <1>1, <1>3
        <3>2. PICK j \in DOMAIN t : t[j].priority = m BY <1>2, <3>1
        <3> QED BY <1>4, <3>2
    <2>3. \A j, k \in A : f[j] = f[k] => j = k BY <1>2
    <2> HIDE DEF f, A, p
    <2> QED BY <2>1, <2>2, <2>3 DEF Bijection, Injection, IsInjective, Surjection
<1>6. IsFiniteSet(A)
    <2>1. A \in SUBSET DOMAIN t OBVIOUS
    <2> HIDE DEF A
    <2> QED BY <1>1, <2>1, FS_Subset
<1>7. Cardinality(A) = Cardinality(1..(p - 1))
    <2>1. ExistsBijection(A, 1..(p - 1))
        <3> HIDE DEF f, A, p
        <3> QED BY <1>5 DEF ExistsBijection
    <2> HIDE DEF A, p
    <2> QED BY <1>6, <2>1, FS_Bijection
<1>8. Cardinality(1..(p - 1)) = p - 1
    <2> HIDE DEF p
    <2>1. 1 \in Int /\ p - 1 \in Int BY <1>3
    <2>2. Cardinality(1..(p - 1)) = IF 1 > p - 1 THEN 0 ELSE p - 1 - 1 + 1
        BY <2>1, FS_Interval
    <2> QED BY <1>3, <2>2
<1>9. Rank(t, i) = Cardinality(A) + 1 BY DEF Rank
<1>10. Rank(t, i) = p
    <2> HIDE DEF A, p
    <2> QED BY <1>3, <1>7, <1>8, <1>9
<1> QED BY <1>10

(* The listing of any table has every row in the place of its rank.        *)
LEMMA ListingByRank ==
    ASSUME NEW t, Numbered(t)
    PROVE  /\ Cardinality(DOMAIN t) \in Nat
           /\ Listing(t) \in [1..Cardinality(DOMAIN t) -> DOMAIN t]
           /\ \A m \in 1..Cardinality(DOMAIN t) : Rank(t, Listing(t)[m]) = m
           /\ \A i \in DOMAIN t : /\ Rank(t, i) \in 1..Cardinality(DOMAIN t)
                                  /\ Listing(t)[Rank(t, i)] = i
<1> DEFINE n == Cardinality(DOMAIN t)
<1>1. n \in Nat BY FS_CardinalityType DEF Numbered
<1>2. /\ {Rank(t, i) : i \in DOMAIN t} = 1..n
      /\ \A i, j \in DOMAIN t : Rank(t, i) = Rank(t, j) => i = j
    BY RanksAreDense
<1>3. \A m \in 1..n : Listing(t)[m] = CHOOSE i \in DOMAIN t : Rank(t, i) = m
    BY DEF Listing
<1>4. Listing(t) = [m \in 1..n |-> Listing(t)[m]] BY DEF Listing
<1> HIDE DEF n
<1>5. ASSUME NEW m \in 1..n
      PROVE  Listing(t)[m] \in DOMAIN t /\ Rank(t, Listing(t)[m]) = m
    <2>1. PICK i \in DOMAIN t : Rank(t, i) = m BY <1>2
    <2> QED BY <1>3, <2>1
<1>6. Listing(t) \in [1..n -> DOMAIN t] BY <1>4, <1>5
<1>7. \A i \in DOMAIN t : Rank(t, i) \in 1..n BY <1>2
<1>8. \A i \in DOMAIN t : Listing(t)[Rank(t, i)] = i BY <1>2, <1>5, <1>7
<1> QED BY <1>1, <1>5, <1>6, <1>7, <1>8 DEF n

(* The listing of a table that is numbered: place and number are the same. *)
LEMMA ListingOfDense ==
    ASSUME NEW t, Numbered(t), Dense(t)
    PROVE  /\ Cardinality(DOMAIN t) \in Nat
           /\ Listing(t) \in [1..Cardinality(DOMAIN t) -> DOMAIN t]
           /\ \A m \in 1..Cardinality(DOMAIN t) : t[Listing(t)[m]].priority = m
           /\ \A i \in DOMAIN t : /\ t[i].priority \in 1..Cardinality(DOMAIN t)
                                  /\ Listing(t)[t[i].priority] = i
BY ListingByRank, DenseRank

LEMMA EmptyListing == Listing(<< >>) = << >>
<1>1. DOMAIN << >> = {} OBVIOUS
<1>2. 1..Cardinality({}) = {} BY FS_EmptySet
<1> QED BY <1>1, <1>2 DEF Listing

-----------------------------------------------------------------------------
(***************************************************************************)
(* What the writes do to the listing.                                      *)
(***************************************************************************)
LEMMA ListingIsSequence ==
    ASSUME NEW t, Numbered(t), Dense(t)
    PROVE  /\ Listing(t) \in Seq(DOMAIN t) /\ Len(Listing(t)) = Cardinality(DOMAIN t)
           /\ DOMAIN Listing(t) = 1..Cardinality(DOMAIN t)
           /\ Range(Listing(t)) = DOMAIN t
<1> DEFINE n == Cardinality(DOMAIN t)
           s == Listing(t)
<1>1. /\ n \in Nat /\ s \in [1..n -> DOMAIN t]
      /\ \A i \in DOMAIN t : t[i].priority \in 1..n /\ s[t[i].priority] = i
    BY ListingOfDense
<1> HIDE DEF n, s
<1>2. s \in Seq(DOMAIN t) /\ Len(s) = n /\ DOMAIN s = 1..n BY <1>1
<1>3. Range(s) = DOMAIN t BY <1>1, <1>2 DEF Range
<1> QED BY <1>2, <1>3 DEF n, s

(* Writing other columns leaves the listing as it is.                      *)
LEMMA ListingStays ==
    ASSUME NEW t, NEW u, DOMAIN u = DOMAIN t,
           \A i \in DOMAIN t : u[i].priority = t[i].priority
    PROVE  Listing(u) = Listing(t)
<1>1. \A i, j \in DOMAIN t : Before(u, i, j) <=> Before(t, i, j) BY DEF Before
<1>2. \A i \in DOMAIN t : Rank(u, i) = Rank(t, i)
    <2> TAKE i \in DOMAIN t
    <2>1. {j \in DOMAIN u : Before(u, j, i)} = {j \in DOMAIN t : Before(t, j, i)}
        BY <1>1
    <2> QED BY <2>1 DEF Rank
<1>3. \A n : (CHOOSE i \in DOMAIN u : Rank(u, i) = n)
             = (CHOOSE i \in DOMAIN t : Rank(t, i) = n)
    <2> TAKE n
    <2>1. \A i : (i \in DOMAIN u /\ Rank(u, i) = n) <=> (i \in DOMAIN t /\ Rank(t, i) = n)
        BY <1>2
    <2> QED BY <2>1
<1> QED BY <1>3 DEF Listing

(* A new row is listed last (CreateUpstreamKey).                           *)
LEMMA ListingGrows ==
    ASSUME NEW t, Numbered(t), Dense(t), NEW u, Numbered(u), Dense(u),
           NEW id, id \notin DOMAIN t, DOMAIN u = DOMAIN t \cup {id},
           \A i \in DOMAIN t : u[i].priority = t[i].priority
    PROVE  Listing(u) = Append(Listing(t), id)
<1> DEFINE n == Cardinality(DOMAIN t)
           s == Listing(t)
           r == Listing(u)
<1>1. n \in Nat /\ Cardinality(DOMAIN u) = n + 1
    BY FS_CardinalityType, FS_AddElement DEF Numbered
<1>2. /\ s \in [1..n -> DOMAIN t]
      /\ \A m \in 1..n : t[s[m]].priority = m
      /\ s \in Seq(DOMAIN t) /\ Len(s) = n
    BY ListingOfDense, ListingIsSequence
<1>3. /\ r \in [1..(n + 1) -> DOMAIN u]
      /\ \A i \in DOMAIN u : u[i].priority \in 1..(n + 1) /\ r[u[i].priority] = i
    BY <1>1, ListingOfDense
<1> HIDE DEF n, s, r
<1>4. \A m \in 1..n : r[m] = s[m]
    <2> TAKE m \in 1..n
    <2>1. s[m] \in DOMAIN t /\ u[s[m]].priority = m BY <1>2
    <2> QED BY <1>3, <2>1
<1>5. r[n + 1] = id
    <2>1. u[id].priority \notin 1..n
        <3> SUFFICES ASSUME NEW m \in 1..n, u[id].priority = m PROVE FALSE
            OBVIOUS
        <3>1. r[m] = id BY <1>3
        <3>2. s[m] = id /\ s[m] \in DOMAIN t BY <1>2, <1>4, <3>1
        <3> QED BY <3>2
    <2>2. u[id].priority = n + 1 BY <1>1, <1>3, <2>1
    <2> QED BY <1>3, <2>2
<1>6. PICK a : a = Append(s, id) OBVIOUS
<1>7. /\ DOMAIN a = 1..(n + 1) /\ a = [m \in 1..(n + 1) |-> a[m]]
      /\ (\A m \in 1..n : a[m] = s[m]) /\ a[n + 1] = id
    <2>1. s \in Seq(DOMAIN u) /\ id \in DOMAIN u BY <1>1, <1>2
    <2>2. a \in Seq(DOMAIN u) /\ Len(a) = n + 1 BY <1>1, <1>2, <1>6, <2>1
    <2>3. \A m \in 1..n : a[m] = s[m] BY <1>1, <1>2, <1>6, <2>1
    <2>4. a[n + 1] = id BY <1>1, <1>2, <1>6, <2>1
    <2> QED BY <1>1, <2>2, <2>3, <2>4
<1>8. r = [m \in 1..(n + 1) |-> r[m]] BY <1>3
<1>9. \A m \in 1..(n + 1) : r[m] = a[m]
    <2> TAKE m \in 1..(n + 1)
    <2>1. m \in 1..n \/ m = n + 1 BY <1>1
    <2> QED BY <1>4, <1>5, <1>7, <2>1
<1>10. r = a BY <1>7, <1>8, <1>9
<1> QED BY <1>6, <1>10 DEF r, s

(* Without a row, those behind it move up by one.                          *)
LEMMA RankWithout ==
    ASSUME NEW t, Numbered(t), Dense(t), NEW id \in DOMAIN t, NEW i \in DOMAIN t \ {id}
    PROVE  Rank(Without(t, id), i) =
               IF t[i].priority < t[id].priority THEN t[i].priority ELSE t[i].priority - 1
<1> DEFINE w == Without(t, id)
           A == {j \in DOMAIN t : Before(t, j, i)}
<1>1. DOMAIN w = DOMAIN t \ {id} /\ \A j \in DOMAIN w : w[j] = t[j]
    BY DEF Without
<1>2. {j \in DOMAIN w : Before(w, j, i)} = A \ {id}
    <2> HIDE DEF w
    <2> QED BY <1>1 DEF Before
<1>3. IsFiniteSet(A)
    <2>1. A \in SUBSET DOMAIN t OBVIOUS
    <2> HIDE DEF A
    <2> QED BY <2>1, FS_Subset DEF Numbered
<1>4. Cardinality(A) \in Nat BY <1>3, FS_CardinalityType
<1>5. Cardinality(A \ {id}) = IF id \in A THEN Cardinality(A) - 1 ELSE Cardinality(A)
    <2> HIDE DEF A
    <2> QED BY <1>3, FS_RemoveElement
<1>6. Cardinality(A) + 1 = t[i].priority BY DenseRank DEF Rank
<1>7. id \in A <=> ~ (t[i].priority < t[id].priority)
    <2>1. t[i].priority \in Nat /\ t[id].priority \in Nat /\ t[i].priority # t[id].priority
        BY NumbersAreUnique DEF Numbered
    <2> QED BY <2>1 DEF Before
<1>8. Rank(w, i) = Cardinality(A \ {id}) + 1 BY <1>2 DEF Rank
<1> HIDE DEF A
<1> QED BY <1>4, <1>5, <1>6, <1>7, <1>8

(* A deleted row leaves the others in their order (normalizePrioritiesTx). *)
LEMMA ListingShrinks ==
    ASSUME NEW t, Numbered(t), Dense(t), NEW u, Numbered(u), Dense(u),
           NEW id \in DOMAIN t, DOMAIN u = DOMAIN t \ {id},
           \A i \in DOMAIN u : u[i].priority = Rank(Without(t, id), i)
    PROVE  \E n \in DOMAIN Listing(t) :
              /\ Listing(t)[n] = id
              /\ Listing(u) = [m \in 1..(Len(Listing(t)) - 1) |->
                                   Listing(t)[IF m < n THEN m ELSE m + 1]]
<1> DEFINE n == Cardinality(DOMAIN t)
           p == t[id].priority
           s == Listing(t)
           r == Listing(u)
<1>1. n \in Nat /\ Cardinality(DOMAIN u) = n - 1 /\ n - 1 \in Nat
    <2>1. IsFiniteSet(DOMAIN t) /\ IsFiniteSet(DOMAIN u) BY DEF Numbered
    <2>2. Cardinality(DOMAIN u) = n - 1 BY <2>1, FS_RemoveElement
    <2>3. Cardinality(DOMAIN u) \in Nat /\ n \in Nat BY <2>1, FS_CardinalityType
    <2> QED BY <2>2, <2>3
<1>2. /\ s \in [1..n -> DOMAIN t] /\ Len(s) = n /\ DOMAIN s = 1..n
      /\ \A m \in 1..n : t[s[m]].priority = m
      /\ p \in 1..n /\ s[p] = id
    BY ListingOfDense, ListingIsSequence
<1>3. /\ r \in [1..(n - 1) -> DOMAIN u]
      /\ \A i \in DOMAIN u : u[i].priority \in 1..(n - 1) /\ r[u[i].priority] = i
    BY <1>1, ListingOfDense
<1>4. \A i \in DOMAIN u :
          u[i].priority = IF t[i].priority < p THEN t[i].priority ELSE t[i].priority - 1
    BY RankWithout
<1> HIDE DEF n, p, s, r
<1>5. ASSUME NEW m \in 1..(n - 1)
      PROVE  r[m] = s[IF m < p THEN m ELSE m + 1]
    <2>1. PICK k : k = IF m < p THEN m ELSE m + 1 OBVIOUS
    <2>2. k \in 1..n /\ k # p /\ (IF k < p THEN k ELSE k - 1) = m
        BY <1>1, <1>2, <2>1
    <2>3. s[k] \in DOMAIN t /\ t[s[k]].priority = k BY <1>2, <2>2
    <2>4. s[k] # id BY <2>2, <2>3 DEF p
    <2>5. u[s[k]].priority = m BY <1>4, <2>2, <2>3, <2>4
    <2> QED BY <1>3, <2>1, <2>3, <2>4, <2>5
<1>6. r = [m \in 1..(Len(s) - 1) |-> s[IF m < p THEN m ELSE m + 1]]
    BY <1>2, <1>3, <1>5
<1> QED BY <1>2, <1>6 DEF r, s

(* The same rows numbered otherwise are listed in another order, if any.   *)
LEMMA ListingPermutes ==
    ASSUME NEW t, Numbered(t), Dense(t), NEW u, Numbered(u), Dense(u), DOMAIN u = DOMAIN t
    PROVE  /\ Listing(u) \in [DOMAIN Listing(t) -> Range(Listing(t))]
           /\ Range(Listing(u)) = Range(Listing(t))
BY ListingOfDense, ListingIsSequence
=============================================================================
