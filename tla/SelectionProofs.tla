--------------------------- MODULE SelectionProofs ---------------------------
(***************************************************************************)
(* Theorems about what the index contains, for any providers' listings,    *)
(* quotes, denylists, thresholds, target size and cap.                     *)
(*                                                                         *)
(* The argument: what each step of runRebalance leaves behind is a         *)
(* function of the world (SelectionInv), so what is left to show is about  *)
(* functions.  A merged row is made of its claims: its age is the oldest   *)
(* of them, its amounts and changes are each half the sum of two, so what  *)
(* a median passes some claim passes, and what every claim passes so does  *)
(* the median (for the turnover, a ratio of two medians over different     *)
(* claims, this takes counting: MedianScales).  Rows and tickers are one   *)
(* to one through every filter, sort and cut, so each ticker is selected   *)
(* or on record once.  And pricing hands Weighting a basket it may begin   *)
(* with, so all that is proved of the weights is true of the index.        *)
(***************************************************************************)
EXTENDS Selection, WeightingProofs, SequenceTheorems

-----------------------------------------------------------------------------
(* Filters and sorts: every element comes from a position of its own, and  *)
(* they are in the order of the key.                                       *)

\* A part of a finite set has no more members than the whole, and fewer if some
\* are left out.
LEMMA SubsetCounts ==
  ASSUME NEW V, IsFiniteSet(V), NEW A \in SUBSET V
  PROVE  /\ IsFiniteSet(A) /\ Cardinality(A) \in Nat /\ Cardinality(V) \in Nat
         /\ Cardinality(A) <= Cardinality(V)
         /\ A # V => Cardinality(A) < Cardinality(V)
<1>1. IsFiniteSet(A) /\ Cardinality(A) <= Cardinality(V)
      /\ (Cardinality(A) = Cardinality(V) => A = V)
  BY FS_Subset
<1>2. Cardinality(A) \in Nat /\ Cardinality(V) \in Nat
  BY <1>1, FS_CardinalityType
<1> QED  BY <1>1, <1>2

\* A sequence is what its positions hold.
LEMMA IsSequence ==
  ASSUME NEW n \in Nat, NEW f, DOMAIN f = 1..n, f = [k \in 1..n |-> f[k]]
  PROVE  /\ f \in Seq({f[k] : k \in 1..n}) /\ Len(f) = n
         /\ Whole(f) = f
<1> DEFINE S == {f[k] : k \in 1..n}
<1>1. f \in [1..n -> S]
  OBVIOUS
<1>2. f \in Seq(S) /\ Len(f) = n
  <2> HIDE DEF S
  <2> QED  BY <1>1
<1>3. Whole(f) = f
  <2> HIDE DEF S
  <2> QED  BY <1>2, SubSeqFull DEF Whole
<1> QED  BY <1>2, <1>3

Before(key, j, i) == key[j] < key[i] \/ (key[j] = key[i] /\ j < i)
Ahead(I, key, i) == {j \in I : Before(key, j, i)}

\* Positions are in a strict order, by key and then by place.
LEMMA BeforeIsOrder ==
  ASSUME NEW I \in SUBSET Nat, NEW key, \A i \in I : key[i] \in Int
  PROVE  /\ \A i \in I : ~Before(key, i, i)
         /\ \A i, j \in I : i = j \/ Before(key, i, j) \/ Before(key, j, i)
         /\ \A i, j, k \in I : Before(key, i, j) /\ Before(key, j, k) => Before(key, i, k)
BY DEF Before

\* How many come before a position tells it from every other.
LEMMA RanksGrow ==
  ASSUME NEW I \in SUBSET Nat, IsFiniteSet(I), NEW key, \A i \in I : key[i] \in Int
  PROVE  /\ Cardinality(I) \in Nat
         /\ \A i \in I : Cardinality(Ahead(I, key, i)) \in 0..(Cardinality(I) - 1)
         /\ \A i, j \in I : Before(key, i, j) =>
               Cardinality(Ahead(I, key, i)) < Cardinality(Ahead(I, key, j))
<1>1. ASSUME NEW i \in I
      PROVE  /\ IsFiniteSet(Ahead(I, key, i))
             /\ Cardinality(I) \in Nat
             /\ Cardinality(Ahead(I, key, i)) \in 0..(Cardinality(I) - 1)
  <2>1. Ahead(I, key, i) \in SUBSET I /\ Ahead(I, key, i) # I
    BY BeforeIsOrder DEF Ahead
  <2> QED  BY <2>1, SubsetCounts
<1>2. ASSUME NEW i \in I, NEW j \in I, Before(key, i, j)
      PROVE  Cardinality(Ahead(I, key, i)) < Cardinality(Ahead(I, key, j))
  <2>1. Ahead(I, key, i) \in SUBSET Ahead(I, key, j)
    BY <1>2, BeforeIsOrder DEF Ahead
  <2>2. i \in Ahead(I, key, j) /\ i \notin Ahead(I, key, i)
    BY <1>2, BeforeIsOrder DEF Ahead
  <2> QED  BY <1>1, <2>1, <2>2, SubsetCounts
<1> QED  BY <1>1, <1>2, FS_CardinalityType

\* A sequence, its positions and its elements.
LEMMA Positions ==
  ASSUME NEW S, NEW s \in Seq(S)
  PROVE  /\ Len(s) \in Nat /\ DOMAIN s = 1..Len(s) /\ DOMAIN s \in SUBSET Nat
         /\ IsFiniteSet(DOMAIN s) /\ Cardinality(DOMAIN s) = Len(s)
         /\ \A i \in DOMAIN s : s[i] \in S
         /\ ToSet(s) = {s[i] : i \in DOMAIN s}
<1>1. Len(s) \in Nat /\ DOMAIN s = 1..Len(s) /\ \A i \in DOMAIN s : s[i] \in S
  OBVIOUS
<1>2. IsFiniteSet(1..Len(s)) /\ Cardinality(1..Len(s)) = Len(s)
  BY <1>1, IntervalCount
<1> QED  BY <1>1, <1>2 DEF ToSet

\* at gives the position each element of an arranged sequence comes from.
IsArrangement(at, I, key) ==
  /\ at \in [1..Cardinality(I) -> I]
  /\ \A i \in I : \E k \in 1..Cardinality(I) : at[k] = i
  /\ \A k, l \in 1..Cardinality(I) : k < l => Before(key, at[k], at[l])

\* A sequence read at n positions.
Along(s, at, n) == [k \in 1..n |-> s[at[k]]]

\* The ranks there are.
LEMMA RanksCount ==
  ASSUME NEW n \in Nat
  PROVE  IsFiniteSet(0..(n - 1)) /\ Cardinality(0..(n - 1)) = n
BY FS_Interval

\* The k-th element of an arranged sequence is the one that k - 1 come before.
LEMMA Arranged ==
  ASSUME NEW s, Len(s) \in Nat, DOMAIN s = 1..Len(s),
         NEW I, I \in SUBSET DOMAIN s, NEW key, \A i \in I : key[i] \in Int
  PROVE  \E at : IsArrangement(at, I, key) /\ Arrange(s, I, key) = Along(s, at, Cardinality(I))
<1> DEFINE n == Cardinality(I)
           rank == [i \in I |-> Cardinality(Ahead(I, key, i))]
           at == [k \in 1..n |-> CHOOSE i \in I : Cardinality({j \in I : Before(key, j, i)}) = k - 1]
           f == [k \in 1..n |-> s[at[k]]]
<1>1. I \in SUBSET Nat /\ IsFiniteSet(I)
  BY IntervalCount, FS_Subset
<1>2. n \in Nat /\ rank \in [I -> 0..(n - 1)]
  BY <1>1, RanksGrow
<1>3. \A i, j \in I : Before(key, i, j) => rank[i] < rank[j]
  BY <1>1, RanksGrow
<1>4. \A i, j \in I : i # j => rank[i] # rank[j]
  <2> HIDE DEF rank
  <2> QED  BY <1>2, <1>3, <1>1, BeforeIsOrder
<1> HIDE DEF rank
<1>5. rank \in Surjection(I, 0..(n - 1))
  <2>1. rank \in Injection(I, 0..(n - 1))
    BY <1>2, <1>4 DEF Injection, IsInjective
  <2>2. Cardinality(I) = n
    OBVIOUS
  <2> HIDE DEF n
  <2>3. n \in Nat
    BY <1>2
  <2>4. IsFiniteSet(0..(n - 1)) /\ Cardinality(0..(n - 1)) = n
    BY <2>3, RanksCount
  <2> HIDE DEF f, at
  <2> QED  BY <1>1, <2>1, <2>4, <2>2, FS_Injection
<1>6. ASSUME NEW k \in 1..n PROVE at[k] \in I /\ rank[at[k]] = k - 1
  <2>1. \E i \in I : rank[i] = k - 1
    BY <1>2, <1>5 DEF Surjection
  <2>2. \A i \in I : rank[i] = Cardinality({j \in I : Before(key, j, i)})
    BY DEF rank, Ahead
  <2> QED  BY <2>1, <2>2
<1>7. Arrange(s, I, key) = Whole(f)
  <2> DEFINE r == [i \in DOMAIN s |-> Cardinality({j \in I : Before(key, j, i)})]
  <2>1. Whole(r) = r
    <3>1. DOMAIN r = 1..Len(s) /\ Len(s) \in Nat /\ r = [i \in 1..Len(s) |-> r[i]]
      OBVIOUS
    <3> HIDE DEF r
    <3> QED  BY <3>1, IsSequence
  <2>2. \A i \in I : r[i] = Cardinality({j \in I : Before(key, j, i)})
    OBVIOUS
  <2>3. Arrange(s, I, key) = Whole([k \in 1..n |-> s[CHOOSE i \in I : Whole(r)[i] = k - 1]])
    BY DEF Arrange, Before
  <2> HIDE DEF r
  <2>4. \A k : (CHOOSE i \in I : r[i] = k - 1)
               = CHOOSE i \in I : Cardinality({j \in I : Before(key, j, i)}) = k - 1
    BY <2>2
  <2>5. Arrange(s, I, key) = Whole([k \in 1..n |-> s[CHOOSE i \in I : r[i] = k - 1]])
    BY <2>1, <2>3
  <2>6. [k \in 1..n |-> s[CHOOSE i \in I : r[i] = k - 1]] = f
    <3> DEFINE from(k) == CHOOSE i \in I : r[i] = k - 1
               to(k) == CHOOSE i \in I : Cardinality({j \in I : Before(key, j, i)}) = k - 1
    <3>1. \A k : from(k) = to(k)
      BY <2>4
    <3>2. f = [k \in 1..n |-> s[to(k)]]
      OBVIOUS
    <3> HIDE DEF from, to, f
    <3>3. [k \in 1..n |-> s[from(k)]] = f
      BY <3>1, <3>2
    <3> QED  BY <3>3 DEF from
  <2> HIDE DEF f
  <2> QED  BY <2>5, <2>6
<1>8. DOMAIN f = 1..n /\ f = [k \in 1..n |-> f[k]]
  OBVIOUS
<1>9. at \in [1..n -> I]
  BY <1>6
<1> HIDE DEF at
<1>10. Whole(f) = f
  <2> HIDE DEF f
  <2> QED  BY <1>2, <1>8, IsSequence
<1>11. \A i \in I : \E k \in 1..n : at[k] = i
  <2> SUFFICES ASSUME NEW i \in I PROVE \E k \in 1..n : at[k] = i
    OBVIOUS
  <2>1. rank[i] + 1 \in 1..n
    BY <1>2
  <2>2. at[rank[i] + 1] \in I /\ rank[at[rank[i] + 1]] = rank[i]
    BY <1>2, <1>6, <2>1
  <2> QED  BY <1>4, <2>1, <2>2
<1>12. \A k, l \in 1..n : k < l => Before(key, at[k], at[l])
  <2> SUFFICES ASSUME NEW k \in 1..n, NEW l \in 1..n, k < l PROVE Before(key, at[k], at[l])
    OBVIOUS
  <2>1. /\ at[k] \in I /\ rank[at[k]] = k - 1
        /\ at[l] \in I /\ rank[at[l]] = l - 1
    BY <1>6
  <2>2. at[k] # at[l] /\ ~Before(key, at[l], at[k])
    <3>1. k \in Int /\ l \in Int /\ k - 1 < l - 1
      BY <1>2
    <3>2. Before(key, at[l], at[k]) => rank[at[l]] < rank[at[k]]
      BY <1>3, <2>1
    <3> HIDE DEF n, f
    <3> QED  BY <2>1, <3>1, <3>2
  <2> QED  BY <1>2, <1>1, <2>1, <2>2, BeforeIsOrder
<1>13. IsArrangement(at, I, key)
  BY <1>11, <1>12, <1>9 DEF IsArrangement
<1>14. f = Along(s, at, Cardinality(I))
  BY DEF Along
<1> QED  BY <1>7, <1>10, <1>13, <1>14

\* What arranging a sequence keeps: what it is made of, and how much of it.
LEMMA ArrangeIs ==
  ASSUME NEW S, NEW s \in Seq(S), NEW I \in SUBSET DOMAIN s, NEW key, \A i \in I : key[i] \in Int
  PROVE  LET r == Arrange(s, I, key)
         IN /\ r \in Seq(S) /\ Len(r) = Cardinality(I) /\ Cardinality(I) \in Nat
            /\ ToSet(r) = {s[i] : i \in I}
<1> DEFINE n == Cardinality(I)
<1>1. PICK at : IsArrangement(at, I, key) /\ Arrange(s, I, key) = Along(s, at, n)
  <2>1. Len(s) \in Nat /\ DOMAIN s = 1..Len(s)
    OBVIOUS
  <2> QED  BY <2>1, Arranged
<1>2. n \in Nat /\ \A i \in I : s[i] \in S
  <2>1. IsFiniteSet(I) /\ \A i \in I : s[i] \in S
    BY Positions, FS_Subset
  <2> QED  BY <2>1, FS_CardinalityType
<1>3. /\ at \in [1..n -> I] /\ \A i \in I : \E k \in 1..n : at[k] = i
  BY <1>1 DEF IsArrangement
<1> HIDE DEF n
<1> DEFINE r == Along(s, at, n)
<1>4. r \in [1..n -> S]
  BY <1>2, <1>3 DEF Along
<1>5. ToSet(r) = {s[i] : i \in I}
  BY <1>3 DEF ToSet, Along
<1> HIDE DEF r
<1>6. r \in Seq(S) /\ Len(r) = n
  BY <1>2, <1>4
<1> QED  BY <1>1, <1>2, <1>5, <1>6 DEF n, r

\* A filter arranges by a key that is the same for all.
LEMMA KeepArranged ==
  ASSUME NEW s, Len(s) \in Nat, DOMAIN s = 1..Len(s), NEW I, I \in SUBSET DOMAIN s,
         NEW key, key = [i \in DOMAIN s |-> 0]
  PROVE  \E at : IsArrangement(at, I, key) /\ Keep(s, I) = Along(s, at, Cardinality(I))
<1>1. \A i \in I : key[i] \in Int
  OBVIOUS
<1>2. Keep(s, I) = Arrange(s, I, key)
  BY DEF Keep
<1> QED  BY <1>1, <1>2, Arranged

\* A filter keeps the elements at the positions it is told, and no others.
LEMMA KeepIs ==
  ASSUME NEW S, NEW s \in Seq(S), NEW I \in SUBSET DOMAIN s
  PROVE  /\ Keep(s, I) \in Seq(S) /\ Len(Keep(s, I)) = Cardinality(I) /\ Cardinality(I) \in Nat
         /\ ToSet(Keep(s, I)) = {s[i] : i \in I}
         /\ I = {} <=> Keep(s, I) = <<>>
<1> DEFINE key == [i \in DOMAIN s |-> 0]
<1>1. I \in SUBSET Nat /\ IsFiniteSet(I) /\ \A i \in I : s[i] \in S
  BY Positions, FS_Subset
<1>2. \A i \in I : key[i] \in Int
  OBVIOUS
<1>3. Keep(s, I) = Arrange(s, I, key)
  BY DEF Keep
<1> HIDE DEF key
<1>4. /\ Keep(s, I) \in Seq(S) /\ Len(Keep(s, I)) = Cardinality(I) /\ Cardinality(I) \in Nat
      /\ ToSet(Keep(s, I)) = {s[i] : i \in I}
  BY <1>2, <1>3, ArrangeIs
<1>5. I = {} <=> Cardinality(I) = 0
  BY <1>1, FS_EmptySet
<1>6. Keep(s, I) = <<>> <=> Len(Keep(s, I)) = 0
  BY <1>4
<1> QED  BY <1>4, <1>5, <1>6

\* Rows by capitalisation, each of a position of its own.
Sorted(r) == \A i, j \in DOMAIN r : i < j => r[i].cap >= r[j].cap

\* Rows by capitalisation hold the same rows, each from a position of its own.
LEMMA DescendingIs ==
  ASSUME NEW S, NEW s \in Seq(S), \A x \in S : x.cap \in Int
  PROVE  LET r == Descending(s)
         IN /\ r \in Seq(S) /\ Len(r) = Len(s) /\ ToSet(r) = ToSet(s)
            /\ Sorted(r)
            /\ \E at \in [DOMAIN r -> DOMAIN s] :
                 /\ \A i \in DOMAIN r : r[i] = s[at[i]]
                 /\ \A i, j \in DOMAIN r : i # j => at[i] # at[j]
<1> DEFINE I == DOMAIN s
           key == [i \in I |-> -s[i].cap]
           n == Len(s)
           r == Descending(s)
<1>1. /\ n \in Nat /\ I = 1..n /\ I \in SUBSET Nat /\ IsFiniteSet(I) /\ Cardinality(I) = n
      /\ \A i \in I : s[i] \in S
      /\ ToSet(s) = {s[i] : i \in I}
  BY Positions
<1>2. \A i \in I : s[i].cap \in Int /\ key[i] = -s[i].cap
  BY <1>1
<1>3. r = Arrange(s, I, key)
  BY DEF Descending
<1> HIDE DEF key, I, n, r
<1>4. I \in SUBSET DOMAIN s /\ I \in SUBSET Nat /\ IsFiniteSet(I) /\ Cardinality(I) = n /\ n \in Nat
  BY <1>1 DEF I
<1>5. \A i \in I : key[i] \in Int
  BY <1>2
<1>6. r \in Seq(S) /\ Len(r) = n /\ ToSet(r) = ToSet(s) /\ DOMAIN r = 1..n
  <2>1. r \in Seq(S) /\ Len(r) = n /\ ToSet(r) = {s[i] : i \in I}
    BY <1>3, <1>4, <1>5, ArrangeIs
  <2> QED  BY <1>1, <2>1, Positions
<1>7. PICK at : IsArrangement(at, I, key) /\ r = [k \in 1..n |-> s[at[k]]]
  <2>1. Len(s) \in Nat /\ DOMAIN s = 1..Len(s)
    OBVIOUS
  <2>2. PICK at : IsArrangement(at, I, key) /\ Arrange(s, I, key) = Along(s, at, Cardinality(I))
    BY <1>4, <1>5, <2>1, Arranged
  <2> QED  BY <1>3, <1>4, <2>2 DEF Along
<1>8. /\ at \in [1..n -> I] /\ \A k \in 1..n : r[k] = s[at[k]]
      /\ \A k, l \in 1..n : k < l => Before(key, at[k], at[l])
  BY <1>1, <1>7 DEF IsArrangement
<1>9. ASSUME NEW i \in 1..n, NEW j \in 1..n, i < j PROVE r[i].cap >= r[j].cap /\ at[i] # at[j]
  <2>1. at[i] \in I /\ at[j] \in I /\ Before(key, at[i], at[j])
    BY <1>8, <1>9
  <2>2. ~Before(key, at[i], at[i])
    BY <1>4, <1>5, <2>1, BeforeIsOrder
  <2>3. key[at[i]] <= key[at[j]] /\ at[i] # at[j]
    BY <1>5, <2>1, <2>2 DEF Before
  <2>4. -s[at[i]].cap <= -s[at[j]].cap /\ s[at[i]].cap \in Int /\ s[at[j]].cap \in Int
    BY <1>2, <2>1, <2>3
  <2>5. r[i] = s[at[i]] /\ r[j] = s[at[j]]
    BY <1>8
  <2> QED  BY <2>3, <2>4, <2>5
<1>10. \A i, j \in 1..n : i # j => at[i] # at[j]
  BY <1>1, <1>9
<1>11. Sorted(r)
  BY <1>6, <1>9 DEF Sorted
<1> QED  BY <1>6, <1>8, <1>10, <1>11 DEF r, n, I

\* slice(0, n).
LEMMA PrefixIs ==
  ASSUME NEW S, NEW s \in Seq(S), NEW n \in Nat
  PROVE  LET r == Prefix(s, n)
         IN /\ r \in Seq(S) /\ Len(r) = (IF n < Len(s) THEN n ELSE Len(s))
            /\ \A i \in DOMAIN r : i \in DOMAIN s /\ r[i] = s[i]
<1> DEFINE m == IF n < Len(s) THEN n ELSE Len(s)
           r == Prefix(s, n)
<1>1. m \in 0..Len(s) /\ Len(s) \in Nat /\ \A i \in 1..m : s[i] \in S
  BY Positions
<1>2. r = SubSeq(s, 1, m)
  BY DEF Prefix
<1> HIDE DEF m
<1>3. r \in Seq(S) /\ Len(r) = m /\ \A i \in 1..m : r[i] = s[i]
  BY <1>1, <1>2, SubSeqProperties
<1> HIDE DEF r
<1>4. DOMAIN r = 1..m /\ DOMAIN s = 1..Len(s)
  BY <1>3, Positions
<1> QED  BY <1>1, <1>3, <1>4 DEF m, r

-----------------------------------------------------------------------------
(* What the providers claim. *)

\* A row as an adapter hands it on.
Change == Int \cup {Null}
Fetched == [asset : Asset, cap : Nat \ {0}, volume : Nat, age : Change, day : Change, week : Change]
Claim == [by : Provider, row : Fetched]

\* Rows an adapter can use are complete.
LEMMA UsableIs ==
  ASSUME NEW rows \in Seq(Row)
  PROVE  Usable(rows) \in Seq(Fetched)
<1> DEFINE I == {i \in DOMAIN rows : rows[i].cap > 0}
           listed == Keep(rows, I)
           f == [i \in DOMAIN listed |-> [listed[i] EXCEPT !.volume = IF @ = Null THEN 0 ELSE @]]
<1>1. /\ listed \in Seq(Row) /\ Len(listed) \in Nat /\ DOMAIN listed = 1..Len(listed)
      /\ ToSet(listed) = {rows[i] : i \in I}
  <2>1. I \in SUBSET DOMAIN rows
    OBVIOUS
  <2> HIDE DEF I
  <2> QED  BY <2>1, KeepIs
<1>2. \A x \in ToSet(listed) : x.cap > 0
  <2> HIDE DEF listed
  <2> QED  BY <1>1
<1>3. ASSUME NEW i \in DOMAIN listed PROVE f[i] \in Fetched
  <2> DEFINE x == listed[i]
  <2>1. x \in Row /\ x.cap > 0
    <3> HIDE DEF listed, I, f
    <3>1. ToSet(listed) = {listed[k] : k \in DOMAIN listed}
      BY <1>1, Positions
    <3>2. i \in DOMAIN listed
      BY <1>3
    <3>3. listed[i] \in Row
      BY <1>1, <3>2
    <3>4. listed[i] \in ToSet(listed)
      BY <3>1, <3>2
    <3> QED  BY <1>2, <3>3, <3>4
  <2>2. f[i] = [x EXCEPT !.volume = IF @ = Null THEN 0 ELSE @]
    OBVIOUS
  <2> HIDE DEF f, x, listed
  <2>3. f[i] = [asset |-> x.asset, cap |-> x.cap, volume |-> IF x.volume = Null THEN 0 ELSE x.volume,
                age |-> x.age, day |-> x.day, week |-> x.week]
    BY <2>1, <2>2 DEF Row
  <2>4. /\ x.asset \in Asset /\ x.cap \in Nat \ {0} /\ x.volume \in Nat \cup {Null}
        /\ x.age \in Change /\ x.day \in Change /\ x.week \in Change
    BY <2>1 DEF Row, Change
  <2> QED  BY <2>3, <2>4 DEF Fetched
<1>4. DOMAIN f = 1..Len(listed) /\ f = [i \in 1..Len(listed) |-> f[i]]
  BY <1>1
<1>5. Usable(rows) = Whole(f)
  BY DEF Usable
<1> HIDE DEF f, listed
<1>6. Usable(rows) = f
  BY <1>1, <1>4, <1>5, IsSequence
<1> QED  BY <1>1, <1>3, <1>4, <1>6

\* Both adapters hand on complete rows.
LEMMA FetchIs ==
  ASSUME NEW rows \in Seq(Row)
  PROVE  FetchGecko(rows) \in Seq(Fetched) /\ FetchPaprika(rows) \in Seq(Fetched)
<1>1. FetchGecko(rows) \in Seq(Fetched)
  <2> DEFINE u == Usable(rows)
             f == [i \in DOMAIN u |-> [u[i] EXCEPT !.age = Null]]
  <2>1. u \in Seq(Fetched)
    BY UsableIs
  <2>2. FetchGecko(rows) = f
    BY DEF FetchGecko
  <2> HIDE DEF u
  <2>3. ASSUME NEW i \in DOMAIN u PROVE f[i] \in Fetched
    <3> DEFINE x == u[i]
    <3>1. x \in Fetched
      BY <2>1
    <3>2. f[i] = [x EXCEPT !.age = Null]
      OBVIOUS
    <3> HIDE DEF f, x
    <3>3. f[i] = [asset |-> x.asset, cap |-> x.cap, volume |-> x.volume, age |-> Null,
                  day |-> x.day, week |-> x.week]
      BY <3>1, <3>2 DEF Fetched
    <3>4. /\ x.asset \in Asset /\ x.cap \in Nat \ {0} /\ x.volume \in Nat
          /\ Null \in Change /\ x.day \in Change /\ x.week \in Change
      BY <3>1 DEF Fetched, Change
    <3> QED  BY <3>3, <3>4 DEF Fetched
  <2>4. DOMAIN u = 1..Len(u) /\ Len(u) \in Nat
    BY <2>1
  <2> QED  BY <2>2, <2>3, <2>4
<1>2. FetchPaprika(rows) \in Seq(Fetched)
  <2>1. \A x \in Fetched : x.cap \in Int
    BY DEF Fetched
  <2>2. Descending(Usable(rows)) \in Seq(Fetched)
    BY <2>1, UsableIs, DescendingIs
  <2> QED  BY <2>2, PrefixIs, UniverseAssumption DEF FetchPaprika
<1> QED  BY <1>1, <1>2

\* Each claim is a complete row of a provider that answered.
LEMMA ClaimsOfAre ==
  ASSUME world \in Worlds, NEW p \in Provider
  PROVE  ClaimsOf(p) \in Seq(Claim)
<1>1. CASE world.listing[p] = Failed
  BY <1>1 DEF ClaimsOf
<1>2. CASE world.listing[p] # Failed
  <2> DEFINE rows == Fetch(p)
             f == [i \in DOMAIN rows |-> [by |-> p, row |-> rows[i]]]
  <2>1. world.listing[p] \in Seq(Row)
    BY <1>2, WorldsAssumption
  <2>2. rows \in Seq(Fetched)
    BY <2>1, FetchIs DEF Fetch
  <2>3. ClaimsOf(p) = f
    BY <1>2 DEF ClaimsOf
  <2> HIDE DEF rows
  <2>4. \A i \in DOMAIN rows : f[i] \in Claim
    BY <2>2 DEF Claim
  <2>5. DOMAIN rows = 1..Len(rows) /\ Len(rows) \in Nat
    BY <2>2
  <2> QED  BY <2>3, <2>4, <2>5
<1> QED  BY <1>1, <1>2

LEMMA ClaimsAre ==
  ASSUME world \in Worlds
  PROVE  Claims \in Seq(Claim)
BY ClaimsOfAre DEF Claims, Provider

\* What is in either of two sequences is in their concatenation.
LEMMA ToSetOfConcat ==
  ASSUME NEW S, NEW g \in Seq(S), NEW h \in Seq(S)
  PROVE  ToSet(g) \subseteq ToSet(g \o h) /\ ToSet(h) \subseteq ToSet(g \o h)
<1>1. /\ g \o h \in Seq(S) /\ Len(g \o h) = Len(g) + Len(h)
      /\ Len(g) \in Nat /\ Len(h) \in Nat
      /\ \A i \in 1..Len(g) : (g \o h)[i] = g[i]
      /\ \A i \in 1..Len(h) : (g \o h)[Len(g) + i] = h[i]
  OBVIOUS
<1> DEFINE c == g \o h
<1> HIDE DEF c
<1>2. /\ ToSet(g) = {g[i] : i \in 1..Len(g)} /\ ToSet(h) = {h[i] : i \in 1..Len(h)}
      /\ ToSet(c) = {c[i] : i \in 1..Len(c)}
  BY <1>1, Positions DEF c
<1>3. \A i \in 1..Len(g) : i \in 1..Len(c) /\ c[i] = g[i]
  BY <1>1 DEF c
<1>4. \A i \in 1..Len(h) : Len(g) + i \in 1..Len(c) /\ c[Len(g) + i] = h[i]
  BY <1>1 DEF c
<1> QED  BY <1>2, <1>3, <1>4 DEF c

\* The rows that make up what is known of a ticker.
Rows(t) == {c.row : c \in ToSet(About(t))}

\* A ticker that was claimed has a claim.
LEMMA AboutIs ==
  ASSUME world \in Worlds, NEW t \in Claimed
  PROVE  /\ About(t) \in Seq(Claim) /\ Len(About(t)) \in Nat \ {0}
         /\ Rows(t) \in SUBSET Fetched
<1> DEFINE claims == Claims
           I == {i \in DOMAIN claims : TickerOf(claims[i]) = t}
<1>1. claims \in Seq(Claim) /\ ToSet(claims) = {claims[i] : i \in DOMAIN claims}
  BY ClaimsAre, Positions
<1>2. About(t) = Keep(claims, I)
  BY DEF About
<1>3. \E i \in DOMAIN claims : TickerOf(claims[i]) = t
  BY <1>1 DEF Claimed
<1> HIDE DEF claims
<1>4. I \in SUBSET DOMAIN claims /\ I # {}
  BY <1>3
<1> HIDE DEF I
<1>5. About(t) \in Seq(Claim) /\ About(t) # <<>>
  BY <1>1, <1>2, <1>4, KeepIs
<1>6. Len(About(t)) \in Nat \ {0} /\ \A c \in ToSet(About(t)) : c \in Claim
  BY <1>5, Positions
<1>7. Rows(t) \in SUBSET Fetched
  BY <1>6 DEF Rows, Claim
<1> QED  BY <1>5, <1>6, <1>7

\* Elements that differ where they are kept differ in what is kept.
LEMMA KeepDiffers ==
  ASSUME NEW S, NEW s \in Seq(S), NEW I \in SUBSET DOMAIN s,
         \A i, j \in I : s[i] = s[j] => i = j
  PROVE  IsInjective(Keep(s, I))
<1> DEFINE key == [i \in DOMAIN s |-> 0]
           n == Cardinality(I)
<1>1. I \in SUBSET Nat /\ IsFiniteSet(I)
  BY Positions, FS_Subset
<1>2. \A i \in I : key[i] \in Int
  OBVIOUS
<1>3. Keep(s, I) = Arrange(s, I, key)
  BY DEF Keep
<1>4. key = [i \in DOMAIN s |-> 0]
  OBVIOUS
<1> HIDE DEF key
<1>5. PICK at : IsArrangement(at, I, key) /\ Keep(s, I) = [k \in 1..n |-> s[at[k]]]
  <2>1. Len(s) \in Nat /\ DOMAIN s = 1..Len(s) /\ I \in SUBSET DOMAIN s
    OBVIOUS
  <2>2. PICK at : IsArrangement(at, I, key) /\ Keep(s, I) = Along(s, at, Cardinality(I))
    BY <1>4, <2>1, KeepArranged
  <2> QED  BY <2>2 DEF Along
<1>6. /\ at \in [1..n -> I]
      /\ \A k, l \in 1..n : k < l => Before(key, at[k], at[l])
  BY <1>5 DEF IsArrangement
<1>7. n \in Nat
  BY <1>1, FS_CardinalityType
<1> HIDE DEF n
<1>8. \A k, l \in 1..n : k < l => at[k] # at[l]
  BY <1>1, <1>2, <1>6, BeforeIsOrder
<1>9. \A k, l \in 1..n : at[k] = at[l] => k = l
  BY <1>7, <1>8
<1>10. \A k, l \in 1..n : s[at[k]] = s[at[l]] => k = l
  BY <1>6, <1>9
<1> QED  BY <1>5, <1>10 DEF IsInjective

\* Sorting rows that differ leaves them different.
LEMMA DescendingDiffers ==
  ASSUME NEW S, NEW s \in Seq(S), \A x \in S : x.cap \in Int, IsInjective(s)
  PROVE  IsInjective(Descending(s))
<1> DEFINE r == Descending(s)
<1>1. PICK at \in [DOMAIN r -> DOMAIN s] :
         /\ \A i \in DOMAIN r : r[i] = s[at[i]]
         /\ \A i, j \in DOMAIN r : i # j => at[i] # at[j]
  BY DescendingIs
<1> HIDE DEF r
<1>2. \A i, j \in DOMAIN r : r[i] = r[j] => i = j
  BY <1>1 DEF IsInjective
<1> QED  BY <1>2 DEF IsInjective, r

\* Each ticker is seen first once.
LEMMA FirstSeenIs ==
  ASSUME world \in Worlds
  PROVE  FirstSeen \in Seq(Claimed) /\ ToSet(FirstSeen) = Claimed /\ IsInjective(FirstSeen)
<1> DEFINE claims == Claims
           tickers == [i \in DOMAIN claims |-> TickerOf(claims[i])]
           I == {i \in DOMAIN tickers : \A j \in 1..(i - 1) : tickers[j] # tickers[i]}
<1>1. /\ claims \in Seq(Claim) /\ ToSet(claims) = {claims[i] : i \in DOMAIN claims}
      /\ DOMAIN claims = 1..Len(claims) /\ Len(claims) \in Nat
  BY ClaimsAre, Positions
<1>2. FirstSeen = LET t == Whole(tickers)
                  IN Keep(t, {i \in DOMAIN t : \A j \in 1..(i - 1) : t[j] # t[i]})
  BY DEF FirstSeen
<1>3. Claimed = {tickers[i] : i \in DOMAIN claims}
  BY <1>1 DEF Claimed
<1> HIDE DEF claims
<1>4. tickers \in Seq(Claimed) /\ DOMAIN tickers = DOMAIN claims /\ Len(tickers) = Len(claims)
  BY <1>1, <1>3
<1>5. tickers = [i \in 1..Len(claims) |-> tickers[i]]
  BY <1>1
<1> HIDE DEF tickers
<1>6. Whole(tickers) = tickers
  BY <1>1, <1>4, <1>5, IsSequence
<1>7. FirstSeen = Keep(tickers, I)
  BY <1>2, <1>6
<1>8. I \in SUBSET DOMAIN tickers /\ I \in SUBSET Nat
  BY <1>1, <1>4
<1>9. ASSUME NEW t \in Claimed PROVE \E i \in I : tickers[i] = t
  <2> DEFINE T == {i \in DOMAIN tickers : tickers[i] = t}
  <2>1. T \in SUBSET Nat /\ T # {}
    BY <1>1, <1>3, <1>4
  <2> HIDE DEF T
  <2>2. PICK i \in T : \A j \in T : i <= j
    BY <2>1, Least
  <2>3. i \in DOMAIN tickers /\ tickers[i] = t /\ i \in 1..Len(claims)
    BY <1>1, <1>4 DEF T
  <2>4. ASSUME NEW j \in 1..(i - 1) PROVE tickers[j] # tickers[i]
    <3>1. j \in DOMAIN tickers /\ j \in Nat /\ j < i
      BY <1>1, <1>4, <2>3
    <3>2. j \notin T
      BY <2>2, <2>3, <3>1
    <3> QED  BY <2>3, <3>1, <3>2 DEF T
  <2> QED  BY <2>3, <2>4
<1>10. \A i, j \in I : i < j => tickers[i] # tickers[j]
  <2> SUFFICES ASSUME NEW i \in I, NEW j \in I, i < j PROVE tickers[i] # tickers[j]
    OBVIOUS
  <2>1. i \in 1..(j - 1)
    BY <1>1, <1>4
  <2> QED  BY <2>1
<1>11. \A i \in I : tickers[i] \in Claimed
  BY <1>4, <1>8
<1> HIDE DEF I
<1>12. \A i, j \in I : tickers[i] = tickers[j] => i = j
  BY <1>8, <1>10
<1>13. FirstSeen \in Seq(Claimed) /\ ToSet(FirstSeen) = {tickers[i] : i \in I}
  BY <1>4, <1>7, <1>8, KeepIs
<1>14. IsInjective(FirstSeen)
  BY <1>4, <1>7, <1>8, <1>12, KeepDiffers
<1> QED  BY <1>9, <1>11, <1>13, <1>14

-----------------------------------------------------------------------------
(* Medians. *)

\* Two orders of the same positions: some position is among the first k of the
\* one and not among the first k - 1 of the other.
LEMMA OrdersMeet ==
  ASSUME NEW n \in Nat, NEW p \in Injection(1..n, 1..n), NEW q \in Surjection(1..n, 1..n),
         NEW k \in 1..n
  PROVE  \E l \in 1..k, m \in k..n : p[l] = q[m]
<1> SUFFICES ASSUME \A l \in 1..k, m \in k..n : p[l] # q[m] PROVE FALSE
  OBVIOUS
<1>1. p \in [1..n -> 1..n] /\ \A i, j \in 1..n : p[i] = p[j] => i = j
  BY DEF Injection, IsInjective
<1>2. q \in [1..n -> 1..n] /\ \A i \in 1..n : \E m \in 1..n : q[m] = i
  BY DEF Surjection
<1> DEFINE f == [l \in 1..k |-> CHOOSE m \in 1..n : q[m] = p[l]]
<1>3. ASSUME NEW l \in 1..k PROVE f[l] \in 1..(k - 1) /\ q[f[l]] = p[l]
  <2>1. l \in 1..n /\ p[l] \in 1..n
    BY <1>1
  <2>2. f[l] \in 1..n /\ q[f[l]] = p[l]
    BY <1>2, <2>1
  <2> HIDE DEF f
  <2>3. f[l] \notin k..n
    BY <2>2
  <2> QED  BY <2>2, <2>3
<1>4. f \in [1..k -> 1..(k - 1)]
  BY <1>3
<1> HIDE DEF f
<1>5. /\ IsFiniteSet(1..k) /\ Cardinality(1..k) = k
      /\ IsFiniteSet(1..(k - 1)) /\ Cardinality(1..(k - 1)) = k - 1
      /\ k - 1 < k
  <2>1. k \in Nat /\ k - 1 \in Nat
    OBVIOUS
  <2> QED  BY <2>1, IntervalCount
<1>6. Cardinality(1..(k - 1)) < Cardinality(1..k)
  BY <1>5
<1>7. \E x, y \in 1..k : x # y /\ f[x] = f[y]
  BY <1>4, <1>5, <1>6, FS_PigeonHole
<1>8. PICK x \in 1..k, y \in 1..k : x # y /\ f[x] = f[y]
  BY <1>7
<1>9. q[f[x]] = p[x] /\ q[f[y]] = p[y]
  BY <1>3
<1>10. x \in 1..n /\ y \in 1..n
  OBVIOUS
<1>11. p[x] = p[y]
  BY <1>8, <1>9
<1> QED  BY <1>1, <1>8, <1>10, <1>11

\* The middle positions of values in their order.
LEMMA MedianIs ==
  ASSUME NEW values \in Seq(Int), values # <<>>
  PROVE  LET n == Len(values)
             k == (n + 1) \div 2
             l == (n + 2) \div 2
         IN /\ n \in Nat /\ DOMAIN values = 1..n /\ k \in 1..n /\ l \in 1..n
            /\ \E at : /\ IsArrangement(at, 1..n, values)
                       /\ DoubledMedian(values) = values[at[k]] + values[at[l]]
<1> DEFINE n == Len(values)
           k == (n + 1) \div 2
           l == (n + 2) \div 2
           s == Arrange(values, DOMAIN values, values)
<1>1. /\ n \in Nat /\ n # 0 /\ DOMAIN values = 1..n /\ DOMAIN values \in SUBSET Nat
      /\ IsFiniteSet(DOMAIN values) /\ Cardinality(DOMAIN values) = n
      /\ \A i \in DOMAIN values : values[i] \in Int
  BY Positions
<1>2. k \in 1..n /\ l \in 1..n
  BY <1>1
<1>3. PICK at : IsArrangement(at, 1..n, values) /\ s = [i \in 1..n |-> values[at[i]]]
  <2> DEFINE I == DOMAIN values
  <2>1. I \in SUBSET Nat /\ IsFiniteSet(I) /\ Cardinality(I) = n /\ I = 1..n
    BY <1>1
  <2>2. \A i \in I : values[i] \in Int
    BY <1>1
  <2>3. s = Arrange(values, I, values)
    OBVIOUS
  <2>4. Len(values) \in Nat /\ DOMAIN values = 1..Len(values) /\ I \subseteq DOMAIN values
    BY <1>1
  <2> HIDE DEF I, s, n
  <2> DEFINE key == values
  <2>5. \A i \in I : key[i] \in Int
    BY <2>2
  <2> HIDE DEF key
  <2>6. PICK at : IsArrangement(at, I, key) /\ Arrange(values, I, key) = Along(values, at, Cardinality(I))
    <3> HIDE DEF k, l
    <3> QED  BY <2>4, <2>5, Arranged
  <2> QED  BY <2>1, <2>3, <2>6 DEF key, Along
<1>4. Len(s) = n
  BY <1>1, ArrangeIs
<1>5. DoubledMedian(values) = s[k] + s[l]
  BY <1>4 DEF DoubledMedian
<1> HIDE DEF s
<1>6. DoubledMedian(values) = values[at[k]] + values[at[l]]
  BY <1>2, <1>3, <1>5
<1> QED  BY <1>1, <1>2, <1>3, <1>6

\* Sorted positions are a permutation, along which the values grow.
LEMMA ArrangementOf ==
  ASSUME NEW n \in Nat, NEW v, \A i \in 1..n : v[i] \in Int, NEW at, IsArrangement(at, 1..n, v)
  PROVE  /\ at \in [1..n -> 1..n]
         /\ at \in Injection(1..n, 1..n) /\ at \in Surjection(1..n, 1..n)
         /\ \A k, l \in 1..n : k <= l => v[at[k]] <= v[at[l]]
<1>1. Cardinality(1..n) = n /\ (1..n) \in SUBSET Nat
  BY IntervalCount
<1>2. /\ at \in [1..n -> 1..n]
      /\ \A i \in 1..n : \E k \in 1..n : at[k] = i
      /\ \A k, l \in 1..n : k < l => Before(v, at[k], at[l])
  BY <1>1 DEF IsArrangement
<1>3. ASSUME NEW k \in 1..n PROVE at[k] \in 1..n /\ at[k] \in Int /\ v[at[k]] \in Int
  <2>1. at[k] \in 1..n
    BY <1>2
  <2> QED  BY <2>1
<1>4. ASSUME NEW k \in 1..n, NEW l \in 1..n, k < l PROVE at[k] # at[l] /\ v[at[k]] <= v[at[l]]
  <2>1. Before(v, at[k], at[l])
    BY <1>2, <1>4
  <2> QED  BY <1>3, <2>1 DEF Before
<1>5. ASSUME NEW k \in 1..n, NEW l \in 1..n, k <= l PROVE v[at[k]] <= v[at[l]]
  <2>1. k = l \/ k < l
    BY <1>5
  <2> QED  BY <1>3, <1>4, <2>1
<1>6. \A k, l \in 1..n : at[k] = at[l] => k = l
  BY <1>4
<1>7. at \in Injection(1..n, 1..n)
  BY <1>2, <1>6 DEF Injection, IsInjective
<1>8. at \in Surjection(1..n, 1..n)
  BY <1>2 DEF Surjection
<1> QED  BY <1>2, <1>5, <1>7, <1>8

\* A comparison of scaled numbers stands when one grows and the other shrinks.
LEMMA ScaleStep ==
  ASSUME NEW a \in Nat, NEW b \in Nat, NEW x1 \in Int, NEW x2 \in Int, NEW y1 \in Int, NEW y2 \in Int,
         x1 <= x2, y2 <= y1, b * y1 <= a * x1
  PROVE  b * y2 <= a * x2
<1>1. x1 * a <= x2 * a /\ y2 * b <= y1 * b
  BY ProductOrder
<1>2. a * x1 = x1 * a /\ a * x2 = x2 * a /\ b * y1 = y1 * b /\ b * y2 = y2 * b
      /\ x1 * a \in Int /\ x2 * a \in Int /\ y1 * b \in Int /\ y2 * b \in Int
  OBVIOUS
<1> QED  BY <1>1, <1>2

\* Comparisons of scaled numbers add up.
LEMMA ScaleSum ==
  ASSUME NEW a \in Nat, NEW b \in Nat, NEW x1 \in Int, NEW x2 \in Int, NEW y1 \in Int, NEW y2 \in Int,
         b * y1 <= a * x1, b * y2 <= a * x2
  PROVE  b * (y1 + y2) <= a * (x1 + x2)
<1>1. b * (y1 + y2) = b * y1 + b * y2 /\ b * y1 \in Int /\ b * y2 \in Int
  BY Distributes
<1>2. a * (x1 + x2) = a * x1 + a * x2 /\ a * x1 \in Int /\ a * x2 \in Int
  BY Distributes
<1> QED  BY <1>1, <1>2

\* A relation of scale that holds at every position holds of the medians.
LEMMA MedianScales ==
  ASSUME NEW v \in Seq(Int), NEW w \in Seq(Int), v # <<>>, Len(v) = Len(w),
         NEW a \in Nat, NEW b \in Nat,
         \A i \in DOMAIN v : b * w[i] <= a * v[i]
  PROVE  b * DoubledMedian(w) <= a * DoubledMedian(v)
<1> DEFINE n == Len(v)
           k == (n + 1) \div 2
           l == (n + 2) \div 2
<1>1. w # <<>>
  OBVIOUS
<1>2. n \in Nat /\ k \in 1..n /\ l \in 1..n /\ DOMAIN v = 1..n /\ DOMAIN w = 1..n
  BY MedianIs, <1>1
<1>3. PICK p : /\ IsArrangement(p, 1..n, v)
               /\ DoubledMedian(v) = v[p[k]] + v[p[l]]
  BY MedianIs
<1>4. PICK q : /\ IsArrangement(q, 1..n, w)
               /\ DoubledMedian(w) = w[q[k]] + w[q[l]]
  BY <1>1, MedianIs
<1>5. \A i \in 1..n : v[i] \in Int /\ w[i] \in Int
  BY <1>2
<1> HIDE DEF n, k, l
<1>6. p \in [1..n -> 1..n] /\ p \in Injection(1..n, 1..n)
  BY <1>2, <1>3, <1>5, ArrangementOf
<1>7. \A i, j \in 1..n : i <= j => v[p[i]] <= v[p[j]]
  BY <1>2, <1>3, <1>5, ArrangementOf
<1>8. q \in [1..n -> 1..n] /\ q \in Surjection(1..n, 1..n)
  BY <1>2, <1>4, <1>5, ArrangementOf
<1>9. \A i, j \in 1..n : i <= j => w[q[i]] <= w[q[j]]
  BY <1>2, <1>4, <1>5, ArrangementOf
<1>10. ASSUME NEW m \in 1..n PROVE b * w[q[m]] <= a * v[p[m]] /\ w[q[m]] \in Int /\ v[p[m]] \in Int
  <2>1. \E i \in 1..m, j \in m..n : p[i] = q[j]
    BY <1>2, <1>6, <1>8, OrdersMeet
  <2>2. PICK i \in 1..m, j \in m..n : p[i] = q[j]
    BY <2>1
  <2>3. i \in 1..n /\ j \in 1..n /\ i <= m /\ m <= j
    BY <1>2
  <2>4. v[p[i]] <= v[p[m]] /\ w[q[m]] <= w[q[j]]
    BY <1>7, <1>9, <2>3
  <2>5. p[i] \in 1..n /\ q[j] \in 1..n /\ p[m] \in 1..n /\ q[m] \in 1..n
    BY <1>6, <1>8, <2>3
  <2>6. b * w[q[j]] <= a * v[p[i]]
    BY <1>2, <2>2, <2>5
  <2>7. v[p[i]] \in Int /\ v[p[m]] \in Int /\ w[q[j]] \in Int /\ w[q[m]] \in Int
    BY <1>5, <2>5
  <2> QED  BY <2>4, <2>6, <2>7, ScaleStep
<1>11. b * w[q[k]] <= a * v[p[k]] /\ w[q[k]] \in Int /\ v[p[k]] \in Int
  BY <1>2, <1>10
<1>12. b * w[q[l]] <= a * v[p[l]] /\ w[q[l]] \in Int /\ v[p[l]] \in Int
  BY <1>2, <1>10
<1> QED  BY <1>3, <1>4, <1>11, <1>12, ScaleSum

\* A median lies between two of its values.
LEMMA MedianOfTwo ==
  ASSUME NEW values \in Seq(Int), values # <<>>
  PROVE  \E a, b \in DOMAIN values : DoubledMedian(values) = values[a] + values[b]
<1> DEFINE n == Len(values)
           k == (n + 1) \div 2
           l == (n + 2) \div 2
<1>1. n \in Nat /\ DOMAIN values = 1..n /\ k \in 1..n /\ l \in 1..n
  BY MedianIs
<1>2. PICK at : IsArrangement(at, 1..n, values) /\ DoubledMedian(values) = values[at[k]] + values[at[l]]
  BY MedianIs
<1>3. \A i \in 1..n : values[i] \in Int
  BY <1>1
<1> HIDE DEF n, k, l
<1>4. at \in [1..n -> 1..n]
  BY <1>1, <1>2, <1>3, ArrangementOf
<1> QED  BY <1>1, <1>2, <1>4

-----------------------------------------------------------------------------
(* The rules of screen, one by one. *)

\* Two sequences joined.
LEMMA Joined ==
  ASSUME NEW S, NEW s \in Seq(S), NEW t \in Seq(S)
  PROVE  /\ s \o t \in Seq(S) /\ Len(s \o t) = Len(s) + Len(t)
         /\ DOMAIN (s \o t) = 1..(Len(s) + Len(t))
         /\ \A i \in 1..Len(s) : (s \o t)[i] = s[i]
         /\ \A i \in 1..Len(t) : (s \o t)[Len(s) + i] = t[i]
OBVIOUS

\* A rule's verdict is a truth value.
LEMMA Second == ASSUME NEW x, NEW p \in BOOLEAN, NEW pair, pair = <<x, p>> PROVE pair[2] <=> p
OBVIOUS

\* Four rules and six.
LEMMA Ten ==
  ASSUME NEW a1, NEW a2, NEW a3, NEW a4, NEW b1, NEW b2, NEW b3, NEW b4, NEW b5, NEW b6
  PROVE  LET v == <<a1, a2, a3, a4>> \o <<b1, b2, b3, b4, b5, b6>>
         IN /\ DOMAIN v = 1..10
            /\ v[1] = a1 /\ v[2] = a2 /\ v[3] = a3 /\ v[4] = a4
            /\ v[5] = b1 /\ v[6] = b2 /\ v[7] = b3 /\ v[8] = b4 /\ v[9] = b5 /\ v[10] = b6
<1> DEFINE S == {a1, a2, a3, a4, b1, b2, b3, b4, b5, b6}
           s == <<a1, a2, a3, a4>>
           t == <<b1, b2, b3, b4, b5, b6>>
<1>1. s \in Seq(S) /\ Len(s) = 4
  OBVIOUS
<1>2. t \in Seq(S) /\ Len(t) = 6
  OBVIOUS
<1>3. s[1] = a1 /\ s[2] = a2 /\ s[3] = a3 /\ s[4] = a4
  OBVIOUS
<1>4. t[1] = b1 /\ t[2] = b2 /\ t[3] = b3 /\ t[4] = b4 /\ t[5] = b5 /\ t[6] = b6
  OBVIOUS
<1> HIDE DEF s, t, S
<1>5. /\ DOMAIN (s \o t) = 1..(4 + 6)
      /\ \A i \in 1..4 : (s \o t)[i] = s[i]
      /\ \A i \in 1..6 : (s \o t)[4 + i] = t[i]
  <2>1. s \in Seq(S) /\ t \in Seq(S)
    BY <1>1, <1>2
  <2>2. DOMAIN (s \o t) = 1..(Len(s) + Len(t))
    BY <2>1, Joined
  <2>3. \A i \in 1..Len(s) : (s \o t)[i] = s[i]
    BY <2>1, Joined
  <2>4. \A i \in 1..Len(t) : (s \o t)[Len(s) + i] = t[i]
    BY <2>1, Joined
  <2>5. Len(s) = 4 /\ Len(t) = 6
    BY <1>1, <1>2
  <2> QED  BY <2>2, <2>3, <2>4, <2>5
<1> DEFINE v == s \o t
<1>6. \A i \in 1..4 : v[i] = s[i]
  BY <1>5
<1>7. \A i \in 1..6 : v[4 + i] = t[i]
  BY <1>5
<1>8. DOMAIN v = 1..10
  BY <1>5
<1> HIDE DEF v
<1>9. /\ v[4 + 1] = t[1] /\ v[4 + 2] = t[2] /\ v[4 + 3] = t[3]
      /\ v[4 + 4] = t[4] /\ v[4 + 5] = t[5] /\ v[4 + 6] = t[6]
  BY <1>7
<1>10. /\ v[5] = t[1] /\ v[6] = t[2] /\ v[7] = t[3]
      /\ v[8] = t[4] /\ v[9] = t[5] /\ v[10] = t[6]
  BY <1>9
<1>11. v[1] = s[1] /\ v[2] = s[2] /\ v[3] = s[3] /\ v[4] = s[4]
  BY <1>6
<1> QED  BY <1>3, <1>4, <1>8, <1>10, <1>11 DEF s, t, v

\* The ten rules, in the order of the code.
LEMMA VerdictsAre ==
  ASSUME NEW row
  PROVE  LET v == Verdicts(row)
         IN /\ DOMAIN v = 1..10
            /\ v[1] = <<"commodity",          row.ticker \in CommoditySymbol>>
            /\ v[2] = <<"derivative",         LooksLikeDerivative(row)>>
            /\ v[3] = <<"stablecoin",         LooksLikeStablecoin(row)>>
            /\ v[4] = <<"unknown_volatility", row.day = Null \/ row.week = Null>>
            /\ v[5] = <<"too_few_providers",   Len(row.sources) < MinProviders>>
            /\ v[6] = <<"market_cap",          row.cap < 2 * MinCap>>
            /\ v[7] = <<"volume",              row.volume < 2 * MinVolume>>
            /\ v[8] = <<"turnover",            row.volume * TotalBps < MinTurnover * row.cap>>
            /\ v[9] = <<"unknown_listing_age", AgeUnknown(row)>>
            /\ v[10] = <<"listing_age",         row.age # Null /\ row.age < MinAge>>
<1> DEFINE a1 == <<"commodity",          row.ticker \in CommoditySymbol>>
           a2 == <<"derivative",         LooksLikeDerivative(row)>>
           a3 == <<"stablecoin",         LooksLikeStablecoin(row)>>
           a4 == <<"unknown_volatility", row.day = Null \/ row.week = Null>>
           b1 == <<"too_few_providers",   Len(row.sources) < MinProviders>>
           b2 == <<"market_cap",          row.cap < 2 * MinCap>>
           b3 == <<"volume",              row.volume < 2 * MinVolume>>
           b4 == <<"turnover",            row.volume * TotalBps < MinTurnover * row.cap>>
           b5 == <<"unknown_listing_age", AgeUnknown(row)>>
           b6 == <<"listing_age",         row.age # Null /\ row.age < MinAge>>
<1>1. Verdicts(row) = <<a1, a2, a3, a4>> \o <<b1, b2, b3, b4, b5, b6>>
  BY Zenon DEF Verdicts, ClassifyExclusion
<1>2. LET v == Verdicts(row)
         IN /\ DOMAIN v = 1..10
            /\ v[1] = a1 /\ v[2] = a2 /\ v[3] = a3 /\ v[4] = a4
            /\ v[5] = b1 /\ v[6] = b2 /\ v[7] = b3 /\ v[8] = b4 /\ v[9] = b5 /\ v[10] = b6
  <2> HIDE DEF a1, a2, a3, a4, b1, b2, b3, b4, b5, b6
  <2> QED  BY <1>1, Ten
<1> QED  BY <1>2

\* A row fails no rule, said rule by rule.
Passes(row) ==
  /\ row.ticker \notin CommoditySymbol
  /\ ~LooksLikeDerivative(row)
  /\ ~LooksLikeStablecoin(row)
  /\ row.day # Null /\ row.week # Null
  /\ ~(Len(row.sources) < MinProviders)
  /\ ~(row.cap < 2 * MinCap)
  /\ ~(row.volume < 2 * MinVolume)
  /\ ~(row.volume * TotalBps < MinTurnover * row.cap)
  /\ row.age # Null
  /\ ~(row.age < MinAge)

\* No failing rule means that each rule is passed.
LEMMA PassesIs ==
  ASSUME NEW row
  PROVE  Failing(row) = {} <=> Passes(row)
<1> DEFINE v == Verdicts(row)
<1>1. v[1][2] <=> row.ticker \in CommoditySymbol
  <2> DEFINE p == row.ticker \in CommoditySymbol
  <2>1. p \in BOOLEAN
    OBVIOUS
  <2>2. v[1] = <<"commodity", p>>
    BY Zenon, VerdictsAre
  <2> HIDE DEF p, v
  <2>3. v[1][2] <=> p
    BY <2>1, <2>2, Second
  <2> QED  BY <2>3 DEF p
<1>2. v[2][2] <=> LooksLikeDerivative(row)
  <2> DEFINE p == LooksLikeDerivative(row)
  <2>1. p \in BOOLEAN
    BY DEF LooksLikeDerivative
  <2>2. v[2] = <<"derivative", p>>
    BY Zenon, VerdictsAre
  <2> HIDE DEF p, v
  <2>3. v[2][2] <=> p
    BY <2>1, <2>2, Second
  <2> QED  BY <2>3 DEF p
<1>3. v[3][2] <=> LooksLikeStablecoin(row)
  <2> DEFINE p == LooksLikeStablecoin(row)
  <2>1. p \in BOOLEAN
    BY DEF LooksLikeStablecoin, Quiet
  <2>2. v[3] = <<"stablecoin", p>>
    BY Zenon, VerdictsAre
  <2> HIDE DEF p, v
  <2>3. v[3][2] <=> p
    BY <2>1, <2>2, Second
  <2> QED  BY <2>3 DEF p
<1>4. v[4][2] <=> (row.day = Null \/ row.week = Null)
  <2> DEFINE p == (row.day = Null \/ row.week = Null)
  <2>1. p \in BOOLEAN
    OBVIOUS
  <2>2. v[4] = <<"unknown_volatility", p>>
    BY Zenon, VerdictsAre
  <2> HIDE DEF p, v
  <2>3. v[4][2] <=> p
    BY <2>1, <2>2, Second
  <2> QED  BY <2>3 DEF p
<1>5. v[5][2] <=> Len(row.sources) < MinProviders
  <2> DEFINE p == Len(row.sources) < MinProviders
  <2>1. p \in BOOLEAN
    OBVIOUS
  <2>2. v[5] = <<"too_few_providers", p>>
    BY Zenon, VerdictsAre
  <2> HIDE DEF p, v
  <2>3. v[5][2] <=> p
    BY <2>1, <2>2, Second
  <2> QED  BY <2>3 DEF p
<1>6. v[6][2] <=> row.cap < 2 * MinCap
  <2> DEFINE p == row.cap < 2 * MinCap
  <2>1. p \in BOOLEAN
    OBVIOUS
  <2>2. v[6] = <<"market_cap", p>>
    BY Zenon, VerdictsAre
  <2> HIDE DEF p, v
  <2>3. v[6][2] <=> p
    BY <2>1, <2>2, Second
  <2> QED  BY <2>3 DEF p
<1>7. v[7][2] <=> row.volume < 2 * MinVolume
  <2> DEFINE p == row.volume < 2 * MinVolume
  <2>1. p \in BOOLEAN
    OBVIOUS
  <2>2. v[7] = <<"volume", p>>
    BY Zenon, VerdictsAre
  <2> HIDE DEF p, v
  <2>3. v[7][2] <=> p
    BY <2>1, <2>2, Second
  <2> QED  BY <2>3 DEF p
<1>8. v[8][2] <=> row.volume * TotalBps < MinTurnover * row.cap
  <2> DEFINE p == row.volume * TotalBps < MinTurnover * row.cap
  <2>1. p \in BOOLEAN
    OBVIOUS
  <2>2. v[8] = <<"turnover", p>>
    BY Zenon, VerdictsAre
  <2> HIDE DEF p, v
  <2>3. v[8][2] <=> p
    BY <2>1, <2>2, Second
  <2> QED  BY <2>3 DEF p
<1>9. v[9][2] <=> AgeUnknown(row)
  <2> DEFINE p == AgeUnknown(row)
  <2>1. p \in BOOLEAN
    BY DEF AgeUnknown
  <2>2. v[9] = <<"unknown_listing_age", p>>
    BY Zenon, VerdictsAre
  <2> HIDE DEF p, v
  <2>3. v[9][2] <=> p
    BY <2>1, <2>2, Second
  <2> QED  BY <2>3 DEF p
<1>10. v[10][2] <=> (row.age # Null /\ row.age < MinAge)
  <2> DEFINE p == (row.age # Null /\ row.age < MinAge)
  <2>1. p \in BOOLEAN
    OBVIOUS
  <2>2. v[10] = <<"listing_age", p>>
    BY Zenon, VerdictsAre
  <2> HIDE DEF p, v
  <2>3. v[10][2] <=> p
    BY <2>1, <2>2, Second
  <2> QED  BY <2>3 DEF p
<1>11. DOMAIN v = 1..10
  BY VerdictsAre
<1> HIDE DEF v
<1>12. (\A i \in 1..10 : ~v[i][2]) <=>
      /\ ~v[1][2] /\ ~v[2][2] /\ ~v[3][2] /\ ~v[4][2] /\ ~v[5][2]
      /\ ~v[6][2] /\ ~v[7][2] /\ ~v[8][2] /\ ~v[9][2] /\ ~v[10][2]
  OBVIOUS
<1>13. Failing(row) = {} <=> \A i \in 1..10 : ~v[i][2]
  BY <1>11 DEF Failing, v
<1> QED  BY Zenon, <1>1, <1>2, <1>3, <1>4, <1>5, <1>6, <1>7, <1>8, <1>9, <1>10, <1>12, <1>13 DEF Passes, AgeUnknown

-----------------------------------------------------------------------------
(* The merge. *)

\* The values of a field over the claims about a ticker.
FieldOf(t, field) == [i \in DOMAIN About(t) |-> About(t)[i].row[field]]

\* A field over the claims about a ticker has the value of each claim's row.
LEMMA FieldIs ==
  ASSUME world \in Worlds, NEW t \in Claimed, NEW field, NEW S, \A r \in Fetched : r[field] \in S
  PROVE  /\ FieldOf(t, field) \in Seq(S) /\ FieldOf(t, field) # <<>>
         /\ Len(FieldOf(t, field)) = Len(About(t)) /\ DOMAIN FieldOf(t, field) = DOMAIN About(t)
         /\ \A i \in DOMAIN About(t) : FieldOf(t, field)[i] = About(t)[i].row[field]
                                       /\ About(t)[i].row \in Rows(t)
         /\ \A r \in Rows(t) : \E i \in DOMAIN About(t) : About(t)[i].row = r
         /\ Whole(FieldOf(t, field)) = FieldOf(t, field)
<1> DEFINE claims == About(t)
           f == [i \in DOMAIN claims |-> claims[i].row[field]]
           n == Len(claims)
<1>1. /\ claims \in Seq(Claim) /\ n \in Nat \ {0} /\ Rows(t) \in SUBSET Fetched
  BY AboutIs
<1>2. DOMAIN claims = 1..n /\ ToSet(claims) = {claims[i] : i \in DOMAIN claims}
  BY <1>1, Positions
<1>3. Rows(t) = {claims[i].row : i \in DOMAIN claims}
  BY <1>2 DEF Rows
<1>4. FieldOf(t, field) = f
  BY DEF FieldOf
<1> HIDE DEF claims
<1>5. \A i \in 1..n : f[i] = claims[i].row[field] /\ claims[i].row \in Rows(t) /\ claims[i].row \in Fetched
  BY <1>1, <1>2, <1>3
<1>6. \A i \in 1..n : f[i] \in S
  BY <1>5
<1>7. DOMAIN f = 1..n /\ f = [i \in 1..n |-> f[i]]
  BY <1>2
<1> HIDE DEF f
<1>8. f \in Seq(S) /\ Len(f) = n /\ f # <<>>
  <2> HIDE DEF n
  <2>1. f \in [1..n -> S]
    BY <1>6, <1>7
  <2> QED  BY <1>1, <2>1
<1>9. Whole(f) = f
  <2> HIDE DEF n
  <2> QED  BY <1>1, <1>7, IsSequence
<1> QED  BY <1>2, <1>3, <1>4, <1>5, <1>7, <1>8, <1>9 DEF claims

\* A median of a number that every claim has.
LEMMA MergedAmount ==
  ASSUME world \in Worlds, NEW t \in Claimed, NEW field, \A r \in Fetched : r[field] \in Int
  PROVE  \E r, s \in Rows(t) : /\ DoubledMedian(FieldOf(t, field)) = r[field] + s[field]
                               /\ r[field] \in Int /\ s[field] \in Int
<1> DEFINE v == FieldOf(t, field)
<1>1. v \in Seq(Int) /\ v # <<>> /\ DOMAIN v = DOMAIN About(t)
  BY FieldIs
<1>2. \A i \in DOMAIN v : v[i] = About(t)[i].row[field] /\ About(t)[i].row \in Rows(t) /\ v[i] \in Int
  BY <1>1, FieldIs
<1> HIDE DEF v
<1>3. PICK a, b \in DOMAIN v : DoubledMedian(v) = v[a] + v[b]
  BY <1>1, MedianOfTwo
<1> QED  BY <1>2, <1>3 DEF v

\* The values that are reported.
LEMMA ReportedIs ==
  ASSUME NEW values \in Seq(Change)
  PROVE  /\ Reported(values) \in Seq(Int)
         /\ ToSet(Reported(values)) = {values[i] : i \in DOMAIN values} \ {Null}
         /\ Reported(values) = <<>> <=> \A i \in DOMAIN values : values[i] = Null
<1> DEFINE I == {i \in DOMAIN values : values[i] # Null}
           r == Reported(values)
<1>1. r = Keep(values, I) /\ I \in SUBSET DOMAIN values
  BY DEF Reported
<1>2. \A i \in I : values[i] \in Int
  BY DEF Change
<1>3. {values[i] : i \in I} = {values[i] : i \in DOMAIN values} \ {Null}
  OBVIOUS
<1>4. I = {} <=> \A i \in DOMAIN values : values[i] = Null
  OBVIOUS
<1> HIDE DEF I, r
<1>5. /\ r \in Seq(Change) /\ ToSet(r) = {values[i] : i \in I}
      /\ I = {} <=> r = <<>>
  BY <1>1, KeepIs
<1>6. r \in Seq(Int)
  <2>1. \A i \in DOMAIN r : r[i] \in Int
    <3>1. ToSet(r) = {r[i] : i \in DOMAIN r}
      BY <1>5, Positions
    <3> QED  BY <1>2, <1>5, <3>1
  <2>2. Len(r) \in Nat /\ DOMAIN r = 1..Len(r)
    BY <1>5
  <2>3. r = [i \in 1..Len(r) |-> r[i]]
    BY <1>5
  <2> QED  BY <2>1, <2>2, <2>3
<1> QED  BY <1>3, <1>5, <1>6, <1>4 DEF r

\* Of a change only the reported values count, and if there are any, two of them do.
LEMMA MergedChange ==
  ASSUME world \in Worlds, NEW t \in Claimed, NEW field, \A r \in Fetched : r[field] \in Change
  PROVE  LET d == PickChange(FieldOf(t, field))
         IN \/ d = Null /\ \A r \in Rows(t) : r[field] = Null
            \/ /\ d # Null
               /\ \E r, s \in Rows(t) : r[field] \in Int /\ s[field] \in Int /\ d = r[field] + s[field]
<1> DEFINE v == FieldOf(t, field)
           w == Reported(v)
<1>1. v \in Seq(Change) /\ v # <<>> /\ DOMAIN v = DOMAIN About(t)
  BY FieldIs
<1>2. \A i \in DOMAIN v : v[i] = About(t)[i].row[field] /\ About(t)[i].row \in Rows(t)
  BY <1>1, FieldIs
<1>3. \A r \in Rows(t) : \E i \in DOMAIN v : v[i] = r[field]
  BY <1>1, FieldIs
<1> HIDE DEF v
<1>4. /\ w \in Seq(Int) /\ ToSet(w) = {v[i] : i \in DOMAIN v} \ {Null}
      /\ w = <<>> <=> \A i \in DOMAIN v : v[i] = Null
  BY <1>1, ReportedIs
<1>5. PickChange(v) = IF w = <<>> THEN Null ELSE DoubledMedian(w)
  BY DEF PickChange
<1> HIDE DEF w
<1>6. CASE w = <<>>
  BY <1>3, <1>4, <1>5, <1>6 DEF v
<1>7. CASE w # <<>>
  <2>1. PICK a, b \in DOMAIN w : DoubledMedian(w) = w[a] + w[b]
    BY <1>4, <1>7, MedianOfTwo
  <2>2. w[a] \in ToSet(w) /\ w[b] \in ToSet(w) /\ w[a] \in Int /\ w[b] \in Int
    <3>1. w \in Seq(Int)
      BY <1>4
    <3>2. ToSet(w) = {w[i] : i \in DOMAIN w} /\ \A i \in DOMAIN w : w[i] \in Int
      BY <3>1, Positions
    <3> QED  BY <3>2
  <2>3. PICK i \in DOMAIN v, j \in DOMAIN v : v[i] = w[a] /\ v[j] = w[b]
    BY <1>4, <2>2
  <2>4. PickChange(v) = v[i] + v[j] /\ v[i] \in Int /\ v[j] \in Int
    BY <1>5, <1>7, <2>1, <2>2, <2>3
  <2>5. PickChange(v) # Null
    BY <2>4, UniverseAssumption
  <2> QED  BY <1>2, <2>4, <2>5 DEF v
<1> QED  BY <1>6, <1>7

\* Any claim with an age will do, and none younger than another counts.
LEMMA MergedAge ==
  ASSUME world \in Worlds, NEW t \in Claimed
  PROVE  LET a == Oldest(FieldOf(t, "age"))
         IN \/ a = Null /\ \A r \in Rows(t) : r.age = Null
            \/ /\ a \in Int /\ a # Null
               /\ \E r \in Rows(t) : r.age = a
               /\ \A r \in Rows(t) : r.age # Null => r.age \in Int /\ r.age <= a
<1> DEFINE v == FieldOf(t, "age")
           w == Reported(v)
<1>1. \A r \in Fetched : r["age"] \in Change
  BY DEF Fetched
<1>2. v \in Seq(Change) /\ v # <<>> /\ DOMAIN v = DOMAIN About(t)
  BY <1>1, FieldIs
<1>3. \A i \in DOMAIN v : v[i] = About(t)[i].row["age"] /\ About(t)[i].row \in Rows(t)
  BY <1>2, <1>1, FieldIs
<1>4. \A r \in Rows(t) : \E i \in DOMAIN v : v[i] = r["age"]
  <2>1. \A r \in Rows(t) : \E i \in DOMAIN v : About(t)[i].row = r
    BY <1>2, <1>1, FieldIs
  <2> HIDE DEF v
  <2> QED  BY <1>3, <2>1
<1> HIDE DEF v
<1>5. /\ w \in Seq(Int) /\ ToSet(w) = {v[i] : i \in DOMAIN v} \ {Null}
      /\ w = <<>> <=> \A i \in DOMAIN v : v[i] = Null
  BY <1>2, ReportedIs
<1>6. Oldest(v) = IF w = <<>> THEN Null ELSE Max(ToSet(w))
  BY DEF Oldest
<1> HIDE DEF w
<1>7. CASE w = <<>>
  <2>1. \A r \in Rows(t) : r["age"] = Null
    BY <1>4, <1>5, <1>7
  <2>2. Oldest(v) = Null
    BY <1>6, <1>7
  <2> QED  BY <2>1, <2>2 DEF v
<1>8. CASE w # <<>>
  <2> DEFINE I == DOMAIN w
             m == Cardinality(I)
  <2>1. /\ I \in SUBSET Nat /\ IsFiniteSet(I) /\ \A i \in I : w[i] \in Int
        /\ m = Len(w) /\ m \in Nat
    BY <1>5, Positions
  <2>2. ToSet(w) = {w[i] : i \in I}
    <3>1. w \in Seq(Int)
      BY <1>5
    <3> QED  BY <3>1, Positions
  <2>3. m # 0
    BY <1>5, <1>8, <2>1
  <2>4. Len(w) \in Nat /\ DOMAIN w = 1..Len(w) /\ I \subseteq DOMAIN w
    BY <1>5
  <2> HIDE DEF I
  <2>5. \A i \in I : w[i] \in Int
    BY <2>1
  <2>6. PICK at : IsArrangement(at, I, w)
    BY <2>5, <2>4, Arranged
  <2>7. at \in [1..m -> I] /\ (\A i \in I : \E k \in 1..m : at[k] = i)
        /\ \A k, l \in 1..m : k < l => Before(w, at[k], at[l])
    BY <2>6 DEF IsArrangement
  <2> DEFINE x == w[at[m]]
  <2>8. m \in 1..m /\ at[m] \in I /\ x \in Int
    <3>1. m \in 1..m
      BY <2>1, <2>3
    <3> HIDE DEF m
    <3>2. at[m] \in I
      BY <2>7, <3>1
    <3> QED  BY <2>5, <3>1, <3>2
  <2>9. \A i \in I : w[i] <= x
    <3> SUFFICES ASSUME NEW i \in I PROVE w[i] <= x
      OBVIOUS
    <3>1. PICK k \in 1..m : at[k] = i
      BY <2>7
    <3>2. k = m \/ k < m
      BY <2>1
    <3>3. k < m => Before(w, i, at[m])
      BY <2>7, <2>8, <3>1
    <3>4. w[i] \in Int
      BY <2>5
    <3> QED  BY <2>8, <3>1, <3>2, <3>3, <3>4 DEF Before
  <2> HIDE DEF x, m
  <2>10. x \in ToSet(w) /\ (\A y \in ToSet(w) : y \in Int /\ x >= y)
    BY <2>5, <2>8, <2>9, <2>2 DEF x
  <2>11. Max(ToSet(w)) \in ToSet(w) /\ \A y \in ToSet(w) : y \in Int /\ Max(ToSet(w)) >= y
    BY <2>10 DEF Max
  <2> DEFINE a == Oldest(v)
  <2>12. a \in ToSet(w) /\ a \in Int /\ \A y \in ToSet(w) : y \in Int /\ a >= y
    BY <1>6, <1>8, <2>11
  <2> HIDE DEF a
  <2>13. a # Null
    BY <2>12, UniverseAssumption
  <2>14. \E r \in Rows(t) : r["age"] = a
    BY <1>3, <1>5, <2>12
  <2>15. \A r \in Rows(t) : r["age"] # Null => r["age"] \in Int /\ r["age"] <= a
    <3> SUFFICES ASSUME NEW r \in Rows(t), r["age"] # Null PROVE r["age"] \in Int /\ r["age"] <= a
      OBVIOUS
    <3>1. r["age"] \in ToSet(w)
      BY <1>4, <1>5
    <3> QED  BY <2>12, <3>1
  <2> QED  BY <2>12, <2>13, <2>14, <2>15 DEF a, v
<1> QED  BY <1>7, <1>8

\* The types of the fields.
LEMMA FieldsAre ==
  /\ \A r \in Fetched : r["cap"] \in Int /\ r["volume"] \in Int
  /\ \A r \in Fetched : r["age"] \in Change /\ r["day"] \in Change /\ r["week"] \in Change
  /\ \A r \in Fetched : r["cap"] \in Nat \ {0} /\ r["volume"] \in Nat
BY DEF Fetched

\* Merge, field by field.
LEMMA MergeFields ==
  ASSUME world \in Worlds, NEW t \in Claimed
  PROVE  LET m == Merge(t)
         IN /\ m.ticker = t
            /\ About(t)[1].row \in Rows(t) /\ m.name = About(t)[1].row.asset
            /\ m.cap = DoubledMedian(FieldOf(t, "cap"))
            /\ m.volume = DoubledMedian(FieldOf(t, "volume"))
            /\ m.age = Oldest(FieldOf(t, "age"))
            /\ m.day = PickChange(FieldOf(t, "day"))
            /\ m.week = PickChange(FieldOf(t, "week"))
            /\ Len(m.sources) = Len(About(t))
<1> DEFINE claims == About(t)
           all(field) == Whole([i \in DOMAIN claims |-> claims[i].row[field]])
           sources == [i \in DOMAIN claims |-> claims[i].by]
<1>1. Merge(t) = [ticker |-> t,
      name   |-> claims[1].row.asset,
      cap    |-> DoubledMedian(all("cap")),
      volume |-> DoubledMedian(all("volume")),
      age    |-> Oldest(all("age")),
      day    |-> PickChange(all("day")),
      week   |-> PickChange(all("week")),
      sources |-> sources,
      ids    |-> ProviderIds(claims)]
  BY DEF Merge
<1>2. /\ all("cap") = FieldOf(t, "cap") /\ all("volume") = FieldOf(t, "volume")
      /\ all("age") = FieldOf(t, "age") /\ all("day") = FieldOf(t, "day") /\ all("week") = FieldOf(t, "week")
  <2>1. ASSUME NEW field \in {"cap", "volume", "age", "day", "week"} PROVE all(field) = FieldOf(t, field)
    <3>1. \A r \in Fetched : r[field] \in Int \cup Change
      BY FieldsAre DEF Change
    <3>2. Whole(FieldOf(t, field)) = FieldOf(t, field)
      BY <3>1, FieldIs
    <3> QED  BY <3>2 DEF FieldOf
  <2> QED  BY <2>1
<1>3. claims \in Seq(Claim) /\ Len(claims) \in Nat \ {0} /\ DOMAIN claims = 1..Len(claims)
  BY AboutIs, Positions
<1>4. claims[1].row \in Rows(t)
  <2>1. ToSet(claims) = {claims[i] : i \in DOMAIN claims} /\ 1 \in DOMAIN claims
    BY <1>3, Positions
  <2> QED  BY <2>1 DEF Rows
<1>5. Len(sources) = Len(claims)
  <2> HIDE DEF claims
  <2>1. DOMAIN sources = 1..Len(claims) /\ Len(claims) \in Nat
    BY <1>3
  <2>2. sources = [i \in 1..Len(claims) |-> sources[i]]
    BY <2>1
  <2> HIDE DEF sources
  <2> QED  BY <2>1, <2>2, IsSequence
<1> HIDE DEF all, claims, sources
<1> QED  BY <1>1, <1>2, <1>4, <1>5 DEF claims

\* What a merged row is made of.
LEMMA MergeIs ==
  ASSUME world \in Worlds, NEW t \in Claimed
  PROVE  LET m == Merge(t)
         IN /\ m.ticker = t
            /\ \E r \in Rows(t) : m.name = r.asset
            /\ \E r, s \in Rows(t) : m.cap = r.cap + s.cap
            /\ \E r, s \in Rows(t) : m.volume = r.volume + s.volume
            /\ \/ m.age = Null /\ \A r \in Rows(t) : r.age = Null
               \/ /\ m.age \in Int /\ m.age # Null
                  /\ \E r \in Rows(t) : r.age = m.age
                  /\ \A r \in Rows(t) : r.age # Null => r.age \in Int /\ r.age <= m.age
            /\ \/ m.day = Null /\ \A r \in Rows(t) : r.day = Null
               \/ /\ m.day # Null
                  /\ \E r, s \in Rows(t) : r.day \in Int /\ s.day \in Int /\ m.day = r.day + s.day
            /\ \/ m.week = Null /\ \A r \in Rows(t) : r.week = Null
               \/ /\ m.week # Null
                  /\ \E r, s \in Rows(t) : r.week \in Int /\ s.week \in Int /\ m.week = r.week + s.week
<1> DEFINE m == Merge(t)
<1>1. /\ m.ticker = t
      /\ About(t)[1].row \in Rows(t) /\ m.name = About(t)[1].row.asset
      /\ m.cap = DoubledMedian(FieldOf(t, "cap"))
      /\ m.volume = DoubledMedian(FieldOf(t, "volume"))
      /\ m.age = Oldest(FieldOf(t, "age"))
      /\ m.day = PickChange(FieldOf(t, "day"))
      /\ m.week = PickChange(FieldOf(t, "week"))
  BY MergeFields
<1> HIDE DEF m
<1>2. \E r \in Rows(t) : m.name = r.asset
  BY <1>1
<1>3. \E r, s \in Rows(t) : m.cap = r.cap + s.cap
  <2>1. \A r \in Fetched : r["cap"] \in Int
    BY FieldsAre
  <2>2. \E r, s \in Rows(t) : DoubledMedian(FieldOf(t, "cap")) = r["cap"] + s["cap"]
    BY <2>1, MergedAmount
  <2> QED  BY <1>1, <2>2
<1>4. \E r, s \in Rows(t) : m.volume = r.volume + s.volume
  <2>1. \A r \in Fetched : r["volume"] \in Int
    BY FieldsAre
  <2>2. \E r, s \in Rows(t) : DoubledMedian(FieldOf(t, "volume")) = r["volume"] + s["volume"]
    BY <2>1, MergedAmount
  <2> QED  BY <1>1, <2>2
<1>5. \/ m.age = Null /\ \A r \in Rows(t) : r.age = Null
      \/ /\ m.age \in Int /\ m.age # Null
         /\ \E r \in Rows(t) : r.age = m.age
         /\ \A r \in Rows(t) : r.age # Null => r.age \in Int /\ r.age <= m.age
  BY <1>1, MergedAge
<1>6. \/ m.day = Null /\ \A r \in Rows(t) : r.day = Null
      \/ /\ m.day # Null
         /\ \E r, s \in Rows(t) : r.day \in Int /\ s.day \in Int /\ m.day = r.day + s.day
  <2>1. \A r \in Fetched : r["day"] \in Change
    BY FieldsAre
  <2> QED  BY <1>1, <2>1, MergedChange
<1>7. \/ m.week = Null /\ \A r \in Rows(t) : r.week = Null
      \/ /\ m.week # Null
         /\ \E r, s \in Rows(t) : r.week \in Int /\ s.week \in Int /\ m.week = r.week + s.week
  <2>1. \A r \in Fetched : r["week"] \in Change
    BY FieldsAre
  <2> QED  BY <1>1, <2>1, MergedChange
<1> QED  BY <1>1, <1>2, <1>3, <1>4, <1>5, <1>6, <1>7 DEF m

\* A turnover that every claim reaches is reached by the medians of volume and
\* capitalisation, which may come from different claims.
LEMMA MergedTurnover ==
  ASSUME world \in Worlds, NEW t \in Claimed, NEW a \in Nat, NEW b \in Nat,
         \A r \in Rows(t) : b * r.cap <= a * r.volume
  PROVE  b * Merge(t).cap <= a * Merge(t).volume
<1> DEFINE v == FieldOf(t, "volume")
           w == FieldOf(t, "cap")
<1>1. \A r \in Fetched : r["volume"] \in Int
  BY FieldsAre
<1>2. \A r \in Fetched : r["cap"] \in Int
  BY FieldsAre
<1>3. /\ v \in Seq(Int) /\ v # <<>> /\ Len(v) = Len(About(t)) /\ DOMAIN v = DOMAIN About(t)
      /\ \A i \in DOMAIN About(t) : v[i] = About(t)[i].row["volume"] /\ About(t)[i].row \in Rows(t)
  BY <1>1, FieldIs
<1>4. /\ w \in Seq(Int) /\ Len(w) = Len(About(t))
      /\ \A i \in DOMAIN About(t) : w[i] = About(t)[i].row["cap"]
  BY <1>2, FieldIs
<1> HIDE DEF v, w
<1>5. \A i \in DOMAIN v : b * w[i] <= a * v[i]
  BY <1>3, <1>4
<1>6. b * DoubledMedian(w) <= a * DoubledMedian(v)
  <2>1. v \in Seq(Int) /\ w \in Seq(Int) /\ v # <<>> /\ Len(v) = Len(w)
    BY <1>3, <1>4
  <2> QED  BY <1>5, <2>1, MedianScales
<1> QED  BY <1>6, MergeFields DEF v, w

-----------------------------------------------------------------------------
(* A row that passes has a claim for each rule, and claims that all pass   *)
(* make a row that passes.                                                 *)

Reports(t, w) == {r[w] : r \in Rows(t)} \ {Null}

\* AdmittedOnEvidence, of one ticker.
Evidence(t) ==
  /\ \E a \in Reports(t, "age") : a >= MinAge
  /\ \E w \in {"day", "week"} : \E d \in Reports(t, w) : d \notin (-StableChange)..StableChange
  /\ \A w \in {"day", "week"} : Reports(t, w) # {}
  /\ \E r \in Rows(t) : r.asset \notin DerivativeName
  /\ \E r \in Rows(t) : r.cap >= MinCap
  /\ \E r \in Rows(t) : r.volume >= MinVolume
  /\ \E r, s \in Rows(t) : r.volume * TotalBps >= MinTurnover * s.cap

\* What is assumed of the constants.
LEMMA ThresholdsAre ==
  /\ StableChange \in Nat /\ MinProviders \in Nat /\ MinCap \in Nat /\ MinVolume \in Nat
  /\ MinTurnover \in Nat /\ MinAge \in Nat /\ TotalBps \in Nat \ {0} /\ MaxNames \in Nat \ {0}
BY SelectionAssumption, WeightingAssumption

\* A median outside the bounds has a value outside them.
LEMMA LoudMedian ==
  ASSUME NEW x \in Int, NEW y \in Int, ~Quiet(x + y)
  PROVE  x \notin (-StableChange)..StableChange \/ y \notin (-StableChange)..StableChange
BY ThresholdsAre DEF Quiet

\* A move that is no stablecoin's was reported by some provider.
LEMMA LoudReport ==
  ASSUME NEW t, NEW field \in {"day", "week"}, NEW r \in Rows(t), NEW s \in Rows(t),
         r[field] \in Int, s[field] \in Int, ~Quiet(r[field] + s[field])
  PROVE  \E d \in Reports(t, field) : d \notin (-StableChange)..StableChange
<1>1. r[field] # Null /\ s[field] # Null
  BY UniverseAssumption
<1>2. r[field] \in Reports(t, field) /\ s[field] \in Reports(t, field)
  BY <1>1 DEF Reports
<1> QED  BY <1>2, LoudMedian

\* What the merged row passes, some claim passes.
LEMMA PassingIsEvidence ==
  ASSUME world \in Worlds, NEW t \in Claimed, Passes(Merge(t))
  PROVE  Evidence(t)
<1> DEFINE m == Merge(t)
<1>1. /\ m.day # Null /\ m.week # Null /\ m.age # Null
      /\ ~(m.age < MinAge) /\ m.name \notin DerivativeName
      /\ ~Quiet(m.day) \/ ~Quiet(m.week)
  BY DEF Passes, LooksLikeStablecoin, LooksLikeDerivative
<1>2. ~(m.cap < 2 * MinCap) /\ ~(m.volume < 2 * MinVolume) /\ ~(m.volume * TotalBps < MinTurnover * m.cap)
  BY DEF Passes
<1>3. Rows(t) \in SUBSET Fetched
  BY AboutIs
<1>4. \A r \in Rows(t) : r.cap \in Nat /\ r.volume \in Nat
  BY <1>3 DEF Fetched
<1>5. PICK r \in Rows(t) : r.age = m.age /\ m.age \in Int
  BY <1>1, MergeIs
<1>6. m.age \in Reports(t, "age") /\ m.age >= MinAge
  <2>1. m.age >= MinAge
    BY <1>1, <1>5, ThresholdsAre
  <2>2. r["age"] = m.age
    BY <1>5
  <2> QED  BY <1>1, <2>1, <2>2 DEF Reports
<1>7. PICK d1 \in Rows(t), d2 \in Rows(t) : d1.day \in Int /\ d2.day \in Int /\ m.day = d1.day + d2.day
  BY <1>1, MergeIs
<1>8. PICK w1 \in Rows(t), w2 \in Rows(t) : w1.week \in Int /\ w2.week \in Int /\ m.week = w1.week + w2.week
  BY <1>1, MergeIs
<1>9. PICK c1 \in Rows(t), c2 \in Rows(t) : m.cap = c1.cap + c2.cap
  BY MergeIs
<1>10. PICK v1 \in Rows(t), v2 \in Rows(t) : m.volume = v1.volume + v2.volume
  BY MergeIs
<1>11. PICK n \in Rows(t) : m.name = n.asset
  BY MergeIs
<1> HIDE DEF m
<1>12. \E w \in {"day", "week"} : \E d \in Reports(t, w) : d \notin (-StableChange)..StableChange
  <2>1. CASE ~Quiet(m.day)
    <3>1. d1["day"] \in Int /\ d2["day"] \in Int /\ ~Quiet(d1["day"] + d2["day"])
      BY <1>7, <2>1
    <3> QED  BY <3>1, LoudReport
  <2>2. CASE ~Quiet(m.week)
    <3>1. w1["week"] \in Int /\ w2["week"] \in Int /\ ~Quiet(w1["week"] + w2["week"])
      BY <1>8, <2>2
    <3> QED  BY <3>1, LoudReport
  <2> QED  BY <1>1, <2>1, <2>2
<1>13. \A w \in {"day", "week"} : Reports(t, w) # {}
  <2>1. d1["day"] # Null /\ w1["week"] # Null
    BY <1>7, <1>8, UniverseAssumption
  <2> QED  BY <2>1 DEF Reports
<1>14. c1.cap >= MinCap \/ c2.cap >= MinCap
  BY <1>2, <1>4, <1>9, ThresholdsAre
<1>15. v1.volume >= MinVolume \/ v2.volume >= MinVolume
  BY <1>2, <1>4, <1>10, ThresholdsAre
<1>16. \E v \in {v1, v2}, c \in {c1, c2} : v.volume * TotalBps >= MinTurnover * c.cap
  <2> SUFFICES ASSUME \A v \in {v1, v2}, c \in {c1, c2} : ~(v.volume * TotalBps >= MinTurnover * c.cap)
               PROVE  FALSE
    OBVIOUS
  <2> DEFINE x1 == v1.volume  x2 == v2.volume  y1 == c1.cap  y2 == c2.cap
  <2>1. /\ x1 \in Nat /\ x2 \in Nat /\ y1 \in Nat /\ y2 \in Nat
        /\ ~(x1 * TotalBps >= MinTurnover * y1) /\ ~(x2 * TotalBps >= MinTurnover * y2)
    BY <1>4
  <2>2. ~((x1 + x2) * TotalBps < MinTurnover * (y1 + y2))
    BY <1>2, <1>9, <1>10
  <2> HIDE DEF x1, x2, y1, y2
  <2>3. (x1 + x2) * TotalBps = TotalBps * x1 + TotalBps * x2 /\ x1 * TotalBps = TotalBps * x1
        /\ x2 * TotalBps = TotalBps * x2 /\ TotalBps * x1 \in Int /\ TotalBps * x2 \in Int
    BY <2>1, ThresholdsAre
  <2>4. MinTurnover * (y1 + y2) = MinTurnover * y1 + MinTurnover * y2
        /\ MinTurnover * y1 \in Int /\ MinTurnover * y2 \in Int
    BY <2>1, ThresholdsAre, Distributes
  <2> QED  BY <2>1, <2>2, <2>3, <2>4
<1>17. \E r1, s1 \in Rows(t) : r1.volume * TotalBps >= MinTurnover * s1.cap
  BY <1>16
<1> QED  BY <1>1, <1>6, <1>11, <1>12, <1>13, <1>14, <1>15, <1>17 DEF Evidence

\* A quiet window is one within the bounds.
LEMMA QuietIsBetween ==
  \A x \in Int : Quiet(x) <=> -2 * StableChange <= x /\ x <= 2 * StableChange
BY ThresholdsAre DEF Quiet

\* A window in which all reports move one way, and more than a stablecoin does.
Moves(t, w) ==
  \/ \A d \in Reports(t, w) : d > StableChange
  \/ \A d \in Reports(t, w) : d < -StableChange

\* Reports that agree on a direction have a median that moves.
LEMMA MovingIsLoud ==
  ASSUME NEW t, NEW field \in {"day", "week"}, NEW r \in Rows(t), NEW s \in Rows(t),
         r[field] \in Int, s[field] \in Int, Moves(t, field)
  PROVE  ~Quiet(r[field] + s[field])
<1> DEFINE x == r[field]  y == s[field]
<1>1. x \in Int /\ y \in Int /\ x # Null /\ y # Null
  BY UniverseAssumption
<1>2. x \in Reports(t, field) /\ y \in Reports(t, field)
  BY <1>1 DEF Reports
<1> HIDE DEF x, y
<1>3. (x > StableChange /\ y > StableChange) \/ (x < -StableChange /\ y < -StableChange)
  BY <1>2 DEF Moves
<1>4. ~Quiet(x + y)
  BY <1>1, <1>3, ThresholdsAre, QuietIsBetween
<1> QED  BY <1>4 DEF x, y

\* Blameless, with the rows of the ticker named.
LEMMA BlamelessIs ==
  ASSUME NEW t, Blameless(t)
  PROVE  /\ Len(About(t)) >= MinProviders
         /\ t \notin CommoditySymbol /\ t \notin DerivativeSymbol
         /\ \A r \in Rows(t) : /\ r.asset \notin DerivativeName
                               /\ r.cap >= MinCap
                               /\ r.volume >= MinVolume
                               /\ r.volume * TotalBps >= MinTurnover * r.cap
         /\ \E a \in Reports(t, "age") : a >= MinAge
         /\ \A w \in {"day", "week"} : Reports(t, w) # {}
         /\ Moves(t, "day") \/ Moves(t, "week")
BY DEF Blameless, Rows, Reports, Moves

\* What every claim passes, the merged row passes.
LEMMA BlamelessPasses ==
  ASSUME world \in Worlds, NEW t \in Claimed, Blameless(t)
  PROVE  Passes(Merge(t))
<1> DEFINE m == Merge(t)
<1>1. /\ Len(About(t)) >= MinProviders
      /\ t \notin CommoditySymbol /\ t \notin DerivativeSymbol
      /\ \A r \in Rows(t) : /\ r.asset \notin DerivativeName
                            /\ r.cap >= MinCap
                            /\ r.volume >= MinVolume
                            /\ r.volume * TotalBps >= MinTurnover * r.cap
      /\ Moves(t, "day") \/ Moves(t, "week")
  BY BlamelessIs
<1>2. /\ \E a \in Reports(t, "age") : a >= MinAge
      /\ \A w \in {"day", "week"} : Reports(t, w) # {}
  BY BlamelessIs
<1>3. m.ticker = t /\ Len(m.sources) = Len(About(t)) /\ Len(About(t)) \in Nat
  BY MergeFields, AboutIs
<1>4. Rows(t) \in SUBSET Fetched
  BY AboutIs
<1>5. \A r \in Rows(t) : /\ r.cap \in Nat /\ r.volume \in Nat
                         /\ r["age"] \in Change
  BY <1>4 DEF Fetched
<1>6. m.name \notin DerivativeName
  <2>1. PICK r \in Rows(t) : m.name = r.asset
    BY MergeIs
  <2> QED  BY <1>1, <2>1
<1>7. ~(m.cap < 2 * MinCap)
  <2>1. PICK r \in Rows(t), s \in Rows(t) : m.cap = r.cap + s.cap
    BY MergeIs
  <2>2. r.cap >= MinCap /\ s.cap >= MinCap
    BY <1>1
  <2> HIDE DEF m
  <2> QED  BY <1>5, <2>1, <2>2, ThresholdsAre
<1>8. ~(m.volume < 2 * MinVolume)
  <2>1. PICK r \in Rows(t), s \in Rows(t) : m.volume = r.volume + s.volume
    BY MergeIs
  <2>2. r.volume >= MinVolume /\ s.volume >= MinVolume
    BY <1>1
  <2> HIDE DEF m
  <2> QED  BY <1>5, <2>1, <2>2, ThresholdsAre
<1>9. ~(m.volume * TotalBps < MinTurnover * m.cap)
  <2>1. \A r \in Rows(t) : MinTurnover * r.cap <= TotalBps * r.volume
    <3> SUFFICES ASSUME NEW r \in Rows(t) PROVE MinTurnover * r.cap <= TotalBps * r.volume
      OBVIOUS
    <3> DEFINE x == r.volume  y == r.cap
    <3>1. x * TotalBps >= MinTurnover * y /\ x \in Nat /\ y \in Nat
      BY <1>1, <1>5
    <3> HIDE DEF x, y
    <3>2. x * TotalBps = TotalBps * x /\ TotalBps * x \in Int /\ MinTurnover * y \in Int
      BY <3>1, ThresholdsAre
    <3>3. MinTurnover * y <= TotalBps * x
      BY <3>1, <3>2
    <3> QED  BY <3>3 DEF x, y
  <2>2. MinTurnover * m.cap <= TotalBps * m.volume
    BY <2>1, ThresholdsAre, MergedTurnover
  <2> DEFINE x == m.volume  y == m.cap
  <2>3. x \in Int /\ y \in Int
    <3>1. PICK r \in Rows(t), s \in Rows(t) : m.cap = r.cap + s.cap
      BY MergeIs
    <3>2. PICK v \in Rows(t), w \in Rows(t) : m.volume = v.volume + w.volume
      BY MergeIs
    <3> HIDE DEF m
    <3> QED  BY <1>5, <3>1, <3>2
  <2>4. MinTurnover * y <= TotalBps * x
    BY <2>2
  <2> HIDE DEF x, y
  <2>5. x * TotalBps = TotalBps * x /\ TotalBps * x \in Int /\ MinTurnover * y \in Int
    BY <2>3, ThresholdsAre
  <2>6. ~(x * TotalBps < MinTurnover * y)
    BY <2>5, <2>4
  <2> QED  BY <2>6 DEF x, y
<1>10. m.age # Null /\ ~(m.age < MinAge)
  <2>1. PICK a \in Reports(t, "age") : a >= MinAge
    BY <1>2
  <2>2. PICK r \in Rows(t) : r["age"] = a /\ a # Null
    BY DEF Reports
  <2>3. r.age # Null /\ r.age = a
    BY <2>2
  <2>4. m.age \in Int /\ m.age # Null /\ r.age \in Int /\ r.age <= m.age
    BY <2>3, MergeIs
  <2> HIDE DEF m
  <2> QED  BY <2>1, <2>3, <2>4, ThresholdsAre
<1>11. m.day # Null /\ (Moves(t, "day") => ~Quiet(m.day))
  <2>1. PICK r \in Rows(t) : r["day"] # Null
    BY <1>2 DEF Reports
  <2>2. r.day # Null
    BY <2>1
  <2>3. m.day # Null
        /\ \E x, y \in Rows(t) : x.day \in Int /\ y.day \in Int /\ m.day = x.day + y.day
    BY <2>2, MergeIs
  <2>4. PICK x \in Rows(t), y \in Rows(t) : x.day \in Int /\ y.day \in Int /\ m.day = x.day + y.day
    BY <2>3
  <2>5. Moves(t, "day") => ~Quiet(x["day"] + y["day"])
    BY <2>4, MovingIsLoud
  <2> QED  BY <2>3, <2>4, <2>5
<1>12. m.week # Null /\ (Moves(t, "week") => ~Quiet(m.week))
  <2>1. PICK r \in Rows(t) : r["week"] # Null
    BY <1>2 DEF Reports
  <2>2. r.week # Null
    BY <2>1
  <2>3. m.week # Null
        /\ \E x, y \in Rows(t) : x.week \in Int /\ y.week \in Int /\ m.week = x.week + y.week
    BY <2>2, MergeIs
  <2>4. PICK x \in Rows(t), y \in Rows(t) : x.week \in Int /\ y.week \in Int /\ m.week = x.week + y.week
    BY <2>3
  <2>5. Moves(t, "week") => ~Quiet(x["week"] + y["week"])
    BY <2>4, MovingIsLoud
  <2> QED  BY <2>3, <2>4, <2>5
<1> HIDE DEF m
<1>13. ~LooksLikeStablecoin(m)
  BY <1>1, <1>11, <1>12 DEF LooksLikeStablecoin
<1>14. ~LooksLikeDerivative(m)
  BY <1>1, <1>3, <1>6 DEF LooksLikeDerivative
<1>15. ~(Len(m.sources) < MinProviders)
  BY <1>1, <1>3, ThresholdsAre
<1>16. Passes(m)
  BY <1>1, <1>3, <1>7, <1>8, <1>9, <1>10, <1>11, <1>12, <1>13, <1>14, <1>15 DEF Passes
<1> QED  BY <1>16 DEF m

-----------------------------------------------------------------------------
(* Candidates, what passes of them and what is selected are ranked: a row  *)
(* per ticker, largest first.                                              *)

\* The world stays as it is, and so does what is collected of it.
LEMMA SameClaims ==
  ASSUME world' = world
  PROVE  Claims' = Claims
BY DEF Claims, ClaimsOf, Fetch

\* What is collected of the world stays what it is.
LEMMA SameCandidates ==
  ASSUME world' = world
  PROVE  Candidates' = Candidates
<1>1. Claims' = Claims
  BY SameClaims
<1>2. FirstSeen' = FirstSeen
  BY <1>1 DEF FirstSeen, TickerOf
<1>3. \A t : About(t)' = About(t)
  BY <1>1 DEF About, TickerOf
<1>4. \A t : Merge(t)' = Merge(t)
  BY <1>3 DEF Merge
<1> QED  BY <1>2, <1>4 DEF Candidates

Merged == {Merge(t) : t \in Claimed}

\* Merged rows are one to one with tickers, and have a positive capitalisation.
LEMMA MergedIs ==
  ASSUME world \in Worlds
  PROVE  /\ \A x \in Merged : x.ticker \in Claimed /\ x = Merge(x.ticker) /\ x.cap \in Nat \ {0}
         /\ \A t \in Claimed : Merge(t).ticker = t
<1>1. ASSUME NEW t \in Claimed PROVE Merge(t).ticker = t /\ Merge(t).cap \in Nat \ {0}
  <2> DEFINE m == Merge(t)
  <2>1. PICK r \in Rows(t), s \in Rows(t) : m.cap = r.cap + s.cap
    BY MergeIs
  <2>2. r.cap \in Nat \ {0} /\ s.cap \in Nat \ {0}
    BY AboutIs DEF Fetched
  <2>3. m.ticker = t
    BY MergeIs
  <2> HIDE DEF m
  <2>4. m.cap \in Nat \ {0}
    BY <2>1, <2>2
  <2> QED  BY <2>3, <2>4 DEF m
<1> QED  BY <1>1 DEF Merged

\* One row per ticker, in the order of their capitalisation.
Ranked(s) == s \in Seq(Merged) /\ IsInjective(s) /\ Sorted(s)

\* The candidates are ranked, and there is one for each ticker.
LEMMA CandidatesAre ==
  ASSUME world \in Worlds
  PROVE  Ranked(Candidates) /\ ToSet(Candidates) = Merged
<1> DEFINE seen == FirstSeen
           rows == [i \in DOMAIN seen |-> Merge(seen[i])]
           n == Len(seen)
<1>1. /\ seen \in Seq(Claimed) /\ n \in Nat /\ DOMAIN seen = 1..n
      /\ ToSet(seen) = Claimed /\ ToSet(seen) = {seen[i] : i \in DOMAIN seen}
      /\ \A i, j \in DOMAIN seen : seen[i] = seen[j] => i = j
  BY FirstSeenIs, Positions DEF IsInjective
<1>2. Candidates = Descending(Whole(rows))
  BY DEF Candidates
<1> HIDE DEF seen, n
<1>3. rows \in [1..n -> Merged]
  BY <1>1 DEF Merged
<1>4. rows \in Seq(Merged) /\ DOMAIN rows = 1..n /\ rows = [i \in 1..n |-> rows[i]]
  BY <1>1, <1>3
<1>5. IsInjective(rows)
  <2> SUFFICES ASSUME NEW i \in 1..n, NEW j \in 1..n, rows[i] = rows[j] PROVE i = j
    BY <1>4 DEF IsInjective
  <2>1. seen[i] \in Claimed /\ seen[j] \in Claimed /\ rows[i] = Merge(seen[i]) /\ rows[j] = Merge(seen[j])
    BY <1>1
  <2>2. Merge(seen[i]).ticker = seen[i] /\ Merge(seen[j]).ticker = seen[j]
    BY <2>1, MergedIs
  <2> QED  BY <1>1, <2>1, <2>2
<1>6. ToSet(rows) = Merged
  <2>1. ToSet(rows) = {Merge(seen[i]) : i \in DOMAIN seen}
    BY <1>1, <1>4 DEF ToSet
  <2> QED  BY <1>1, <2>1 DEF Merged
<1> HIDE DEF rows
<1>7. Whole(rows) = rows
  BY <1>1, <1>4, IsSequence
<1>8. \A x \in Merged : x.cap \in Int
  BY MergedIs
<1>9. IsInjective(Descending(rows))
  BY <1>4, <1>5, <1>8, DescendingDiffers
<1>10. Descending(rows) \in Seq(Merged) /\ Sorted(Descending(rows)) /\ ToSet(Descending(rows)) = ToSet(rows)
  BY <1>4, <1>8, DescendingIs
<1> QED  BY <1>2, <1>6, <1>7, <1>9, <1>10 DEF Ranked

\* Passing, of any rows.
PassingOf(u) == Descending(Keep(u, {i \in DOMAIN u : Failing(u[i]) = {}}))

\* Of ranked candidates, those that pass are ranked.
LEMMA PassingIs ==
  ASSUME world \in Worlds, NEW u, Ranked(u)
  PROVE  Ranked(PassingOf(u)) /\ ToSet(PassingOf(u)) = {x \in ToSet(u) : Passes(x)}
<1> DEFINE I == {i \in DOMAIN u : Failing(u[i]) = {}}
           k == Keep(u, I)
<1>1. u \in Seq(Merged) /\ \A i, j \in DOMAIN u : u[i] = u[j] => i = j
  BY DEF Ranked, IsInjective
<1>2. PassingOf(u) = Descending(k)
  BY DEF PassingOf
<1>3. I \in SUBSET DOMAIN u /\ \A i \in DOMAIN u : i \in I <=> Passes(u[i])
  BY <1>1, PassesIs
<1>4. ToSet(u) = {u[i] : i \in DOMAIN u}
  BY <1>1, Positions
<1> HIDE DEF I
<1>5. k \in Seq(Merged) /\ ToSet(k) = {u[i] : i \in I}
  BY <1>1, <1>3, KeepIs
<1>6. IsInjective(k)
  <2>1. \A i, j \in I : u[i] = u[j] => i = j
    BY <1>1, <1>3
  <2> QED  BY <1>1, <1>3, <2>1, KeepDiffers
<1>7. ToSet(k) = {x \in ToSet(u) : Passes(x)}
  BY <1>3, <1>4, <1>5
<1> HIDE DEF k
<1>8. \A x \in Merged : x.cap \in Int
  BY MergedIs
<1>9. IsInjective(Descending(k))
  BY <1>5, <1>6, <1>8, DescendingDiffers
<1>10. Descending(k) \in Seq(Merged) /\ Sorted(Descending(k)) /\ ToSet(Descending(k)) = ToSet(k)
  BY <1>5, <1>8, DescendingIs
<1> QED  BY <1>2, <1>7, <1>9, <1>10 DEF Ranked

\* Nothing is selected of nothing.
LEMMA NonePass == PassingOf(<<>>) = <<>> /\ Prefix(<<>>, MaxNames) = <<>>
<1> DEFINE e == <<>>
           I == {i \in DOMAIN e : Failing(e[i]) = {}}
           k == Keep(e, I)
           d == Descending(k)
           p == Prefix(e, MaxNames)
<1>1. e \in Seq(Fetched) /\ Len(e) = 0 /\ I = {} /\ I \in SUBSET DOMAIN e
  OBVIOUS
<1>2. PassingOf(e) = d
  BY DEF PassingOf
<1> HIDE DEF I, e
<1>3. k = <<>>
  BY <1>1, KeepIs
<1> HIDE DEF k
<1>4. d \in Seq(Fetched) /\ Len(d) = 0
  <2>1. k \in Seq(Fetched) /\ Len(k) = 0
    BY <1>3
  <2>2. \A x \in Fetched : x.cap \in Int
    BY DEF Fetched
  <2> QED  BY <2>1, <2>2, DescendingIs
<1>5. p \in Seq(Fetched) /\ Len(p) = 0
  <2>1. p \in Seq(Fetched) /\ Len(p) = IF MaxNames < Len(e) THEN MaxNames ELSE Len(e)
    BY <1>1, ThresholdsAre, PrefixIs
  <2> QED  BY <1>1, <2>1, ThresholdsAre
<1> HIDE DEF d, p
<1>6. d = <<>> /\ p = <<>>
  BY <1>4, <1>5
<1> QED  BY <1>2, <1>6 DEF e, p

\* A prefix of ranked rows, and what it leaves.
LEMMA PrefixRanked ==
  ASSUME NEW s, Ranked(s), NEW n \in Nat
  PROVE  LET r == Prefix(s, n)
         IN /\ Ranked(r) /\ Len(r) \in Nat /\ Len(r) <= n /\ Len(s) \in Nat
            /\ ToSet(r) = {s[i] : i \in {j \in DOMAIN s : j <= n}}
            /\ ToSet(r) \subseteq ToSet(s)
            /\ \A i \in DOMAIN s : i > n => Len(r) = n /\ s[i] \notin ToSet(r)
                                            /\ \A j \in DOMAIN r : r[j].cap >= s[i].cap
<1> DEFINE r == Prefix(s, n)
<1>1. /\ s \in Seq(Merged) /\ DOMAIN s = 1..Len(s) /\ Len(s) \in Nat
      /\ ToSet(s) = {s[i] : i \in DOMAIN s}
  BY Positions DEF Ranked
<1>2. \A i, j \in DOMAIN s : s[i] = s[j] => i = j
  BY DEF Ranked, IsInjective
<1>3. \A i, j \in DOMAIN s : i < j => s[i].cap >= s[j].cap
  BY DEF Ranked, Sorted
<1>4. /\ r \in Seq(Merged) /\ Len(r) = (IF n < Len(s) THEN n ELSE Len(s))
      /\ \A i \in DOMAIN r : i \in DOMAIN s /\ r[i] = s[i]
  BY <1>1, PrefixIs
<1>5. DOMAIN r = 1..Len(r) /\ ToSet(r) = {r[i] : i \in DOMAIN r}
  BY <1>4, Positions
<1> HIDE DEF r
<1>6. Len(r) \in Nat /\ Len(r) <= n /\ Len(r) <= Len(s)
  BY <1>1, <1>4
<1>7. DOMAIN r = {j \in DOMAIN s : j <= n}
  BY <1>1, <1>4, <1>5
<1>8. ToSet(r) = {s[i] : i \in DOMAIN r}
  BY <1>4, <1>5
<1>9. IsInjective(r)
  BY <1>2, <1>4 DEF IsInjective
<1>10. Sorted(r)
  BY <1>3, <1>4 DEF Sorted
<1>11. ASSUME NEW i \in DOMAIN s, i > n
       PROVE  Len(r) = n /\ s[i] \notin ToSet(r) /\ \A j \in DOMAIN r : r[j].cap >= s[i].cap
  <2>1. i \notin DOMAIN r /\ Len(r) = n
    <3>1. i \in Nat /\ i <= Len(s)
      BY <1>1, <1>11
    <3>2. Len(r) = n
      <4>1. n < Len(s)
        BY <1>1, <1>11, <3>1
      <4>2. Len(r) = IF n < Len(s) THEN n ELSE Len(s)
        BY <1>4
      <4> QED  BY <4>1, <4>2
    <3>3. i \notin DOMAIN r
      BY <1>7, <1>11, <3>1
    <3> QED  BY <3>2, <3>3
  <2>2. \A j \in DOMAIN r : j < i /\ j \in DOMAIN s
    BY <1>1, <1>7, <1>11
  <2>3. s[i] \notin ToSet(r)
    BY <1>2, <1>8, <2>1, <2>2
  <2>4. \A j \in DOMAIN r : r[j].cap >= s[i].cap
    BY <1>3, <1>4, <2>2
  <2> QED  BY <2>1, <2>3, <2>4
<1>12. ToSet(r) \subseteq ToSet(s)
  BY <1>1, <1>7, <1>8
<1> QED  BY <1>1, <1>4, <1>6, <1>7, <1>8, <1>9, <1>10, <1>11, <1>12 DEF Ranked, r

-----------------------------------------------------------------------------
(* The inductive invariant, and the theorems. *)

\* What screen puts on record, of any rows.
RecordedOf(u) ==
  LET p == PassingOf(u)
  IN {<<row.ticker, Reason(row)>> : row \in ToSet(u) \ ToSet(p)}
     \cup {<<p[i].ticker, "below_target_size">> : i \in (MaxNames + 1)..Len(p)}

\* What each step leaves behind is a function of the world, and the weighting
\* waits until names are priced.
SelectionInv ==
  /\ world \in Worlds
  /\ stage \in {"fetch", "screen", "price", "weigh", "refused"}
  /\ stage # "fetch" => universe = Candidates
  /\ stage = "fetch" => universe = <<>>
  /\ ~Screened => selected = <<>> /\ excluded = {}
  /\ Screened => selected = Prefix(PassingOf(universe), MaxNames) /\ excluded = RecordedOf(universe)
  /\ stage # "weigh" => constituents = <<>> /\ WeightInit
  /\ stage = "weigh" =>
       /\ constituents = Keep(selected, {i \in DOMAIN selected : Priced(selected[i])})
       /\ rejected = Unpriced(selected)
  /\ ToSet(constituents) \subseteq ToSet(selected)
  /\ Len(constituents) = Len(mcap)

\* Initially nothing is collected.
LEMMA SelectionInvInit == SelectionInit => SelectionInv
<1> SUFFICES ASSUME SelectionInit PROVE SelectionInv
  OBVIOUS
<1>1. /\ world \in Worlds /\ universe = <<>> /\ stage = "fetch" /\ selected = <<>>
      /\ excluded = {} /\ constituents = <<>> /\ WeightInit
  BY DEF SelectionInit, UniverseInit
<1>2. ToSet(constituents) = {} /\ mcap = <<>>
  BY <1>1 DEF ToSet, WeightInit
<1> QED  BY <1>1, <1>2 DEF SelectionInv, Screened

\* The candidates are collected, or there are none and the run ends.
LEMMA FetchStep == SelectionInv /\ FetchUniverse => SelectionInv'
<1> SUFFICES ASSUME SelectionInv, FetchUniverse PROVE SelectionInv'
  OBVIOUS
<1>1. /\ stage = "fetch" /\ universe' = Candidates /\ world' = world
      /\ stage' = (IF universe' = <<>> THEN "refused" ELSE "screen")
      /\ selected' = selected /\ excluded' = excluded /\ constituents' = constituents
      /\ mcap' = mcap /\ capped' = capped /\ pass' = pass /\ step' = step /\ bps' = bps
  BY DEF FetchUniverse, Collect, weightVars
<1>2. /\ world \in Worlds /\ selected = <<>> /\ excluded = {} /\ constituents = <<>> /\ WeightInit
      /\ ToSet(constituents) \subseteq ToSet(selected) /\ Len(constituents) = Len(mcap)
  BY <1>1 DEF SelectionInv, Screened
<1>3. Candidates' = Candidates
  BY <1>1, SameCandidates
<1>4. WeightInit'
  BY <1>1, <1>2 DEF WeightInit
<1>5. CASE universe' = <<>>
  <2>1. PassingOf(<<>>) = <<>> /\ Prefix(<<>>, MaxNames) = <<>>
    BY NonePass
  <2>2. RecordedOf(<<>>) = {}
    <3>1. ToSet(<<>>) = {} /\ Len(<<>>) = 0
      BY DEF ToSet
    <3>2. (MaxNames + 1)..0 = {}
      BY ThresholdsAre
    <3> QED  BY <2>1, <3>1, <3>2 DEF RecordedOf
  <2>3. stage' = "refused"
    BY <1>1, <1>5
  <2> QED  BY <1>1, <1>2, <1>3, <1>4, <1>5, <2>1, <2>2, <2>3 DEF SelectionInv, Screened
<1>6. CASE universe' # <<>>
  <2>1. stage' = "screen"
    BY <1>1, <1>6
  <2> QED  BY <1>1, <1>2, <1>3, <1>4, <2>1 DEF SelectionInv, Screened
<1> QED  BY <1>5, <1>6

\* Screening records what it selects and what it does not.
LEMMA ScreenStep == SelectionInv /\ Screen => SelectionInv'
<1> SUFFICES ASSUME SelectionInv, Screen PROVE SelectionInv'
  OBVIOUS
<1>1. Passing = PassingOf(universe)
  BY DEF Passing, PassingOf
<1>2. /\ stage = "screen" /\ universe' = universe /\ world' = world
      /\ stage' \in {"refused", "price"}
      /\ selected' = Prefix(Passing, MaxNames)
      /\ constituents' = constituents
      /\ mcap' = mcap /\ capped' = capped /\ pass' = pass /\ step' = step /\ bps' = bps
  BY DEF Screen, weightVars
<1>3. excluded' = RecordedOf(universe)
  BY <1>1 DEF Screen, RecordedOf
<1>4. /\ world \in Worlds /\ universe = Candidates /\ constituents = <<>> /\ WeightInit
      /\ Len(constituents) = Len(mcap)
  BY <1>2 DEF SelectionInv
<1>5. Candidates' = Candidates
  BY <1>2, SameCandidates
<1>6. WeightInit'
  BY <1>2, <1>4 DEF WeightInit
<1>7. ToSet(constituents') = {}
  BY <1>2, <1>4 DEF ToSet
<1> QED  BY <1>1, <1>2, <1>3, <1>4, <1>5, <1>6, <1>7 DEF SelectionInv, Screened

\* Names that have a price stay in their order.
LEMMA KeepRanked ==
  ASSUME NEW s, Ranked(s), NEW I \in SUBSET DOMAIN s
  PROVE  LET r == Keep(s, I)
         IN /\ r \in Seq(Merged) /\ Sorted(r) /\ Len(r) \in Nat /\ Len(r) <= Len(s)
            /\ ToSet(r) \subseteq ToSet(s)
<1> DEFINE key == [i \in DOMAIN s |-> 0]
           n == Cardinality(I)
           r == Keep(s, I)
<1>1. /\ s \in Seq(Merged) /\ DOMAIN s \in SUBSET Nat /\ IsFiniteSet(DOMAIN s)
      /\ Cardinality(DOMAIN s) = Len(s) /\ ToSet(s) = {s[i] : i \in DOMAIN s}
  BY Positions DEF Ranked
<1>2. I \in SUBSET Nat /\ IsFiniteSet(I) /\ n <= Len(s) /\ n \in Nat
  BY <1>1, SubsetCounts
<1>3. \A i \in I : key[i] \in Int
  OBVIOUS
<1>4. r = Arrange(s, I, key)
  BY DEF Keep
<1>5. \A i, j \in I : Before(key, i, j) => i < j
  BY <1>1 DEF Before
<1>6. r \in Seq(Merged) /\ Len(r) = n /\ ToSet(r) = {s[i] : i \in I}
  <2> HIDE DEF r, n
  <2> QED  BY <1>1, KeepIs DEF r, n
<1>7. key = [i \in DOMAIN s |-> 0]
  OBVIOUS
<1>8. r = Keep(s, I)
  OBVIOUS
<1> HIDE DEF key, r
<1>9. PICK at : IsArrangement(at, I, key) /\ r = [k \in 1..n |-> s[at[k]]]
  <2>1. Len(s) \in Nat /\ DOMAIN s = 1..Len(s) /\ I \in SUBSET DOMAIN s
    BY <1>1
  <2> HIDE DEF n
  <2>2. PICK at : IsArrangement(at, I, key) /\ Keep(s, I) = Along(s, at, Cardinality(I))
    BY <1>7, <2>1, KeepArranged
  <2> QED  BY <1>8, <2>2 DEF n, Along
<1>10. /\ at \in [1..n -> I] /\ \A k, l \in 1..n : k < l => Before(key, at[k], at[l])
  BY <1>9 DEF IsArrangement
<1> HIDE DEF n
<1>11. ASSUME NEW k \in 1..n, NEW l \in 1..n, k < l PROVE r[k].cap >= r[l].cap
  <2>1. at[k] \in I /\ at[l] \in I /\ at[k] < at[l]
    BY <1>5, <1>10, <1>11
  <2>2. s[at[k]].cap >= s[at[l]].cap
    BY <2>1 DEF Ranked, Sorted
  <2> QED  BY <1>9, <2>2
<1>12. Sorted(r)
  BY <1>9, <1>11 DEF Sorted
<1>13. ToSet(r) \subseteq ToSet(s)
  BY <1>1, <1>6
<1> QED  BY <1>2, <1>6, <1>12, <1>13 DEF r

\* What screening has selected is ranked, and as many names as the index takes.
LEMMA SelectedIs ==
  ASSUME SelectionInv
  PROVE  /\ Ranked(selected) /\ Len(selected) \in Nat /\ Len(selected) <= MaxNames
         /\ ToSet(selected) \subseteq ToSet(universe)
         /\ \A x \in ToSet(selected) : x \in Merged /\ Passes(x)
<1>1. CASE Screened
  <2>1. world \in Worlds /\ universe = Candidates /\ selected = Prefix(PassingOf(universe), MaxNames)
    BY <1>1 DEF SelectionInv, Screened
  <2>2. Ranked(universe) /\ ToSet(universe) = Merged
    BY <2>1, CandidatesAre
  <2>3. /\ Ranked(PassingOf(universe))
        /\ ToSet(PassingOf(universe)) = {x \in ToSet(universe) : Passes(x)}
    BY <2>1, <2>2, PassingIs
  <2>4. /\ Ranked(selected) /\ Len(selected) \in Nat /\ Len(selected) <= MaxNames
        /\ ToSet(selected) \subseteq ToSet(PassingOf(universe))
    BY <2>1, <2>3, ThresholdsAre, PrefixRanked
  <2> QED  BY <2>2, <2>3, <2>4
<1>2. CASE ~Screened
  <2>1. selected = <<>>
    BY <1>2 DEF SelectionInv
  <2>2. selected \in Seq(Merged) /\ Len(selected) = 0 /\ DOMAIN selected = {}
    BY <2>1
  <2>3. IsInjective(selected) /\ Sorted(selected) /\ ToSet(selected) = {}
    BY <2>2 DEF IsInjective, Sorted, ToSet
  <2> QED  BY <2>2, <2>3, ThresholdsAre DEF Ranked
<1> QED  BY <1>1, <1>2

\* Pricing hands over a basket the weighting may begin with.
LEMMA PriceBegins ==
  ASSUME SelectionInv, Price
  PROVE  Begin /\ Len(constituents') = Len(mcap') /\ ToSet(constituents') \subseteq ToSet(selected)
<1> DEFINE I == {i \in DOMAIN selected : Priced(selected[i])}
           c == Keep(selected, I)
           m == [i \in DOMAIN c |-> c[i].cap]
           n == Len(c)
<1>1. /\ stage = "price" /\ constituents' = c /\ c # <<>> /\ mcap' = m /\ step' = "cap"
      /\ capped' = capped /\ pass' = pass /\ bps' = bps
  BY DEF Price
<1>2. world \in Worlds /\ WeightInit
  BY <1>1 DEF SelectionInv
<1>3. Ranked(selected) /\ Len(selected) <= MaxNames /\ Len(selected) \in Nat
  BY SelectedIs
<1>4. I \in SUBSET DOMAIN selected
  OBVIOUS
<1> HIDE DEF I
<1>5. /\ c \in Seq(Merged) /\ Sorted(c) /\ n \in Nat /\ n <= Len(selected)
      /\ ToSet(c) \subseteq ToSet(selected)
  BY <1>3, <1>4, KeepRanked
<1>6. DOMAIN c = 1..n /\ \A i \in 1..n : c[i] \in Merged
  BY <1>5, Positions
<1>7. n # 0
  BY <1>1, <1>5
<1> HIDE DEF c, n
<1>8. \A i \in 1..n : m[i] \in Nat \ {0} /\ m[i] = c[i].cap
  BY <1>2, <1>6, MergedIs
<1>9. DOMAIN m = 1..n /\ m = [i \in 1..n |-> m[i]]
  BY <1>6
<1>10. \A i, j \in 1..n : i < j => c[i].cap >= c[j].cap
  BY <1>5, <1>6 DEF Sorted
<1> HIDE DEF m
<1>11. m \in Seq(Nat \ {0}) /\ Len(m) = n
  BY <1>5, <1>8, <1>9
<1>12. \A i \in 2..n : m[i] <= m[i - 1]
  <2> SUFFICES ASSUME NEW i \in 2..n PROVE m[i] <= m[i - 1]
    OBVIOUS
  <2>1. i \in 1..n /\ i - 1 \in 1..n /\ i - 1 < i
    BY <1>5
  <2>2. c[i - 1].cap >= c[i].cap
    BY <1>10, <2>1
  <2> QED  BY <1>8, <2>1, <2>2
<1>13. n \in 1..MaxNames
  BY <1>3, <1>5, <1>7, ThresholdsAre
<1>14. step = "idle"
  BY <1>2 DEF WeightInit
<1> QED  BY <1>1, <1>5, <1>11, <1>12, <1>13, <1>14 DEF Begin, n

\* Which of the selected names have a price lies with the world.
LEMMA SamePrices ==
  ASSUME world' = world, selected' = selected
  PROVE  /\ Keep(selected, {i \in DOMAIN selected : Priced(selected[i])})' =
              Keep(selected, {i \in DOMAIN selected : Priced(selected[i])})
         /\ Unpriced(selected)' = Unpriced(selected)
<1>1. {i \in DOMAIN selected : Priced(selected[i])}' = {i \in DOMAIN selected : Priced(selected[i])}
  BY DEF Priced, Quoted, Quotes
<1>2. Unpriced(selected)' = Unpriced(selected)
  BY DEF Unpriced, Priced, Quoted, Quotes
<1> QED  BY <1>1, <1>2

\* No step breaks the invariant; the weighting touches nothing of it.
LEMMA SelectionInvStep == SelectionInv /\ [SelectionNext]_vars => SelectionInv'
<1> SUFFICES ASSUME SelectionInv, [SelectionNext]_vars PROVE SelectionInv'
  OBVIOUS
<1>1. CASE FetchUniverse
  BY <1>1, FetchStep
<1>2. CASE Screen
  BY <1>2, ScreenStep
<1>3. CASE Price
  <2>1. /\ stage = "price" /\ stage' = "weigh" /\ world' = world /\ universe' = universe
        /\ selected' = selected /\ excluded' = excluded
    BY <1>3 DEF Price
  <2>2. Len(constituents') = Len(mcap') /\ ToSet(constituents') \subseteq ToSet(selected)
    BY <1>3, PriceBegins
  <2>3. Candidates' = Candidates
    BY <2>1, SameCandidates
  <2>4. /\ constituents' = Keep(selected, {i \in DOMAIN selected : Priced(selected[i])})
        /\ rejected' = Unpriced(selected)
    BY <1>3 DEF Price
  <2>5. /\ constituents' = Keep(selected, {i \in DOMAIN selected : Priced(selected[i])})'
        /\ rejected' = Unpriced(selected)'
    BY <2>1, <2>4, SamePrices
  <2> QED  BY <2>1, <2>2, <2>3, <2>5 DEF SelectionInv, Screened
<1>4. CASE PriceNone
  <2>1. /\ stage = "price" /\ stage' = "refused" /\ world' = world /\ universe' = universe
        /\ selected' = selected /\ excluded' = excluded /\ constituents' = constituents
        /\ mcap' = mcap /\ capped' = capped /\ pass' = pass /\ step' = step /\ bps' = bps
    BY <1>4 DEF PriceNone, weightVars
  <2>2. WeightInit /\ WeightInit'
    BY <2>1 DEF SelectionInv, WeightInit
  <2>3. Candidates' = Candidates
    BY <2>1, SameCandidates
  <2> QED  BY <2>1, <2>2, <2>3 DEF SelectionInv, Screened
<1>5. CASE WeighOn
  <2>1. /\ world' = world /\ universe' = universe /\ stage' = stage
        /\ selected' = selected /\ excluded' = excluded /\ constituents' = constituents
        /\ rejected' = rejected
    BY <1>5 DEF WeighOn, selectionVars
  <2>2. mcap' = mcap /\ step # "idle"
    BY <1>5 DEF WeighOn, Weigh, Refuse, Cap, Stop, ToBasisPoints
  <2>3. stage = "weigh"
    BY <2>2 DEF SelectionInv, WeightInit
  <2>4. Candidates' = Candidates
    BY <2>1, SameCandidates
  <2>5. /\ constituents' = Keep(selected, {i \in DOMAIN selected : Priced(selected[i])})'
        /\ rejected' = Unpriced(selected)'
    BY <2>1, <2>3, SamePrices DEF SelectionInv
  <2> QED  BY <2>1, <2>2, <2>3, <2>4, <2>5 DEF SelectionInv, Screened
<1>6. CASE UNCHANGED vars
  <2>1. /\ world' = world /\ universe' = universe /\ stage' = stage
        /\ selected' = selected /\ excluded' = excluded /\ constituents' = constituents
        /\ mcap' = mcap /\ capped' = capped /\ pass' = pass /\ step' = step /\ bps' = bps
        /\ rejected' = rejected
    BY <1>6 DEF vars, selectionVars, weightVars
  <2>2. Candidates' = Candidates
    BY <2>1, SameCandidates
  <2>3. stage = "weigh" =>
          /\ constituents' = Keep(selected, {i \in DOMAIN selected : Priced(selected[i])})'
          /\ rejected' = Unpriced(selected)'
    BY <2>1, SamePrices DEF SelectionInv
  <2> QED  BY <2>1, <2>2, <2>3 DEF SelectionInv, Screened, WeightInit
<1> QED  BY <1>1, <1>2, <1>3, <1>4, <1>5, <1>6 DEF SelectionNext

\* The invariant holds throughout.
LEMMA SelectionHolds == SelectionSpec => []SelectionInv
BY SelectionInvInit, SelectionInvStep, PTL DEF SelectionSpec

\* Each step is one of the weighting or leaves it alone.
LEMMA SelectionWeighs == SelectionInv /\ [SelectionNext]_vars => [WeightNext]_weightVars
<1> SUFFICES ASSUME SelectionInv, [SelectionNext]_vars PROVE [WeightNext]_weightVars
  OBVIOUS
<1>1. CASE FetchUniverse
  BY <1>1 DEF FetchUniverse
<1>2. CASE Screen
  BY <1>2 DEF Screen
<1>3. CASE Price
  BY <1>3, PriceBegins DEF WeightNext
<1>4. CASE PriceNone
  BY <1>4 DEF PriceNone
<1>5. CASE WeighOn
  BY <1>5 DEF WeighOn, WeightNext
<1>6. CASE UNCHANGED vars
  BY <1>6 DEF vars
<1> QED  BY <1>1, <1>2, <1>3, <1>4, <1>5, <1>6 DEF SelectionNext

\* What is handed over is what the weighting expects, and it runs undisturbed:
\* runRebalance implements Weighting.
THEOREM SelectionIsWeighed == SelectionSpec => ImplementsWeighting
<1>1. SelectionInit => WeightInit
  BY DEF SelectionInit
<1> QED  BY <1>1, SelectionHolds, SelectionWeighs, PTL DEF SelectionSpec, ImplementsWeighting, WeightSpec

\* Types and bounds: what is selected was collected, no more names than the
\* target size, and a capitalisation for each name with a price.
THEOREM SelectionIsTyped == SelectionSpec => []TypeOK
<1>1. SelectionInv /\ WeightTypeOK => TypeOK
  <2> SUFFICES ASSUME SelectionInv, WeightTypeOK PROVE TypeOK
    OBVIOUS
  <2>1. /\ stage \in {"fetch", "screen", "price", "weigh", "refused"}
        /\ ToSet(constituents) \subseteq ToSet(selected) /\ Len(constituents) = Len(mcap)
    BY DEF SelectionInv
  <2>2. ToSet(selected) \subseteq ToSet(universe) /\ Len(selected) <= MaxNames
    BY SelectedIs
  <2> QED  BY <2>1, <2>2 DEF TypeOK
<1>2. SelectionSpec => []WeightTypeOK
  BY SelectionIsWeighed, WeightsAreTyped, PTL DEF ImplementsWeighting
<1> QED  BY <1>1, <1>2, SelectionHolds, PTL

\* No name is weighed but on evidence of its own for each rule, whichever
\* providers failed and however its claims were merged.
THEOREM AdmissionIsEvidenced == SelectionSpec => []AdmittedOnEvidence
<1>1. SelectionInv => AdmittedOnEvidence
  <2> SUFFICES ASSUME SelectionInv PROVE AdmittedOnEvidence
    OBVIOUS
  <2>1. \A i \in DOMAIN constituents : Evidence(constituents[i].ticker)
    <3> SUFFICES ASSUME NEW i \in DOMAIN constituents PROVE Evidence(constituents[i].ticker)
      OBVIOUS
    <3> DEFINE x == constituents[i]
    <3>1. x \in ToSet(selected) /\ world \in Worlds
      BY DEF ToSet, SelectionInv
    <3>2. x \in Merged /\ Passes(x)
      BY <3>1, SelectedIs
    <3> HIDE DEF x
    <3>3. x.ticker \in Claimed /\ x = Merge(x.ticker)
      BY <3>1, <3>2, MergedIs
    <3>4. Evidence(x.ticker)
      BY <3>1, <3>2, <3>3, PassingIsEvidence
    <3> QED  BY <3>4 DEF x
  <2> QED  BY <2>1 DEF AdmittedOnEvidence, Evidence, Reports, Rows
<1> QED  BY <1>1, SelectionHolds, PTL

\* Of two medians the larger has a claim no smaller than some claim of the other.
LEMMA LargerClaim ==
  ASSUME world \in Worlds, NEW s \in Claimed, NEW t \in Claimed, Merge(s).cap >= Merge(t).cap
  PROVE  \E c \in ToSet(About(s)), d \in ToSet(About(t)) : c.row.cap >= d.row.cap
<1>1. PICK a \in Rows(s), b \in Rows(s) : Merge(s).cap = a.cap + b.cap
  BY MergeIs
<1>2. PICK x \in Rows(t), y \in Rows(t) : Merge(t).cap = x.cap + y.cap
  BY MergeIs
<1>3. a.cap \in Nat /\ b.cap \in Nat /\ x.cap \in Nat /\ y.cap \in Nat
  <2>1. Rows(s) \in SUBSET Fetched /\ Rows(t) \in SUBSET Fetched
    BY AboutIs
  <2> QED  BY <2>1 DEF Fetched
<1>4. a.cap >= x.cap \/ b.cap >= y.cap
  BY <1>1, <1>2, <1>3
<1>5. \E r \in Rows(s), q \in Rows(t) : r.cap >= q.cap
  BY <1>4
<1> QED  BY <1>5 DEF Rows

\* The merge does no name wrong: one that passes by every claim is selected, or
\* the index is full of names that are not smaller by some claim.
THEOREM BlamelessAreSelected == SelectionSpec => []BlamelessIsIn
<1>1. SelectionInv => BlamelessIsIn
  <2> SUFFICES ASSUME SelectionInv, Screened, NEW t \in Claimed, Blameless(t),
                      \A i \in DOMAIN selected : selected[i].ticker # t
               PROVE  /\ Len(selected) = MaxNames
                      /\ \A i \in DOMAIN selected :
                           \E c \in ToSet(About(selected[i].ticker)), d \in ToSet(About(t)) :
                             c.row.cap >= d.row.cap
    BY DEF BlamelessIsIn
  <2> DEFINE p == PassingOf(universe)
  <2>1. world \in Worlds /\ universe = Candidates /\ selected = Prefix(p, MaxNames)
    BY DEF SelectionInv, Screened
  <2>2. Ranked(universe) /\ ToSet(universe) = Merged
    BY <2>1, CandidatesAre
  <2>3. Ranked(p) /\ ToSet(p) = {x \in ToSet(universe) : Passes(x)}
    BY <2>1, <2>2, PassingIs
  <2>4. Merge(t) \in Merged /\ Passes(Merge(t)) /\ Merge(t).ticker = t
    BY <2>1, BlamelessPasses, MergedIs DEF Merged
  <2> HIDE DEF p
  <2>5. ToSet(p) = {p[i] : i \in DOMAIN p} /\ DOMAIN p = 1..Len(p)
    BY <2>3, Positions DEF Ranked
  <2>6. PICK i \in DOMAIN p : p[i] = Merge(t)
    BY <2>2, <2>3, <2>4, <2>5
  <2>7. Ranked(selected) /\ ToSet(selected) = {selected[j] : j \in DOMAIN selected}
    BY SelectedIs, Positions DEF Ranked
  <2>8. Merge(t) \notin ToSet(selected)
    BY <2>4, <2>7
  <2>9. ToSet(selected) = {p[j] : j \in {k \in DOMAIN p : k <= MaxNames}}
    BY <2>1, <2>3, ThresholdsAre, PrefixRanked
  <2>10. i > MaxNames
    <3>1. ~(i <= MaxNames)
      BY <2>6, <2>8, <2>9
    <3>2. i \in Nat
      BY <2>5
    <3> QED  BY <3>1, <3>2, ThresholdsAre
  <2>11. Len(selected) = MaxNames /\ \A j \in DOMAIN selected : selected[j].cap >= p[i].cap
    BY <2>1, <2>3, <2>10, ThresholdsAre, PrefixRanked
  <2>12. ASSUME NEW j \in DOMAIN selected
         PROVE  \E c \in ToSet(About(selected[j].ticker)), d \in ToSet(About(t)) : c.row.cap >= d.row.cap
    <3>1. selected[j] \in Merged
      BY <2>7, SelectedIs
    <3>2. selected[j].ticker \in Claimed /\ selected[j] = Merge(selected[j].ticker)
      BY <2>1, <3>1, MergedIs
    <3>3. Merge(selected[j].ticker).cap >= Merge(t).cap
      BY <2>6, <2>11, <3>2
    <3> QED  BY <2>1, <3>2, <3>3, LargerClaim
  <2> QED  BY <2>11, <2>12
<1> QED  BY <1>1, SelectionHolds, PTL

\* A sequence has finitely many elements.
LEMMA SequenceIsFinite ==
  ASSUME NEW S, NEW s \in Seq(S)
  PROVE  IsFiniteSet(ToSet(s))
<1>1. /\ DOMAIN s = 1..Len(s) /\ Len(s) \in Nat /\ ToSet(s) = {s[i] : i \in DOMAIN s}
  BY Positions
<1>2. IsFiniteSet(1..Len(s))
  BY <1>1, IntervalCount
<1>3. s \in [1..Len(s) -> ToSet(s)] /\ \A x \in ToSet(s) : \E i \in 1..Len(s) : s[i] = x
  BY <1>1
<1>4. s \in Surjection(1..Len(s), ToSet(s))
  BY <1>3 DEF Surjection
<1> QED  BY <1>2, <1>4, FS_Surjection

\* Pairs that are told apart by what comes first are as many as what comes first.
LEMMA OneEach ==
  ASSUME NEW E, NEW T, T = {e[1] : e \in E}, IsFiniteSet(T),
         \A e, f \in E : e[1] = f[1] => e = f
  PROVE  Cardinality(E) = Cardinality(T)
<1> DEFINE f == [e \in E |-> e[1]]
<1>1. f \in [E -> T] /\ \A e \in E : f[e] = e[1]
  OBVIOUS
<1> HIDE DEF f
<1>2. f \in Injection(E, T)
  BY <1>1 DEF Injection, IsInjective
<1>3. f \in Surjection(E, T)
  BY <1>1 DEF Surjection
<1> QED  BY <1>2, <1>3, FS_Injection

\* The screening selects a ticker that was handed on or excludes it for one reason.
LEMMA ScreeningAccounts ==
  ASSUME SelectionInv, Screened
  PROVE  LET out == {e[1] : e \in excluded}
             in  == {row.ticker : row \in ToSet(selected)}
         IN /\ in \cap out = {}
            /\ in \cup out = Claimed
            /\ \A e, f \in excluded : e[1] = f[1] => e = f
            /\ IsFiniteSet(Claimed)
<1> DEFINE out == {e[1] : e \in excluded}
           in == {row.ticker : row \in ToSet(selected)}
           p == PassingOf(universe)
           failed == {<<row.ticker, Reason(row)>> : row \in ToSet(universe) \ ToSet(p)}
           below == {<<p[i].ticker, "below_target_size">> : i \in (MaxNames + 1)..Len(p)}
<1>1. world \in Worlds /\ universe = Candidates /\ selected = Prefix(p, MaxNames) /\ excluded = failed \cup below
  BY DEF SelectionInv, Screened, RecordedOf
<1>2. Ranked(universe) /\ ToSet(universe) = Merged
  BY <1>1, CandidatesAre
<1>3. Ranked(p) /\ ToSet(p) = {x \in Merged : Passes(x)}
  BY <1>1, <1>2, PassingIs
<1> HIDE DEF p
<1>4. /\ ToSet(p) = {p[i] : i \in DOMAIN p} /\ DOMAIN p = 1..Len(p) /\ Len(p) \in Nat
      /\ \A i, j \in DOMAIN p : p[i] = p[j] => i = j
  BY <1>3, Positions DEF Ranked, IsInjective
<1>5. ToSet(selected) = {p[i] : i \in {j \in DOMAIN p : j <= MaxNames}}
  BY <1>1, <1>3, ThresholdsAre, PrefixRanked
<1>6. \A x \in Merged : x.ticker \in Claimed /\ x = Merge(x.ticker)
  BY <1>1, MergedIs
<1>7. \A t \in Claimed : Merge(t) \in Merged /\ Merge(t).ticker = t
  BY <1>1, MergedIs DEF Merged
<1> DEFINE rest == {p[i] : i \in (MaxNames + 1)..Len(p)}
           gone == Merged \ ToSet(p)
<1>8. \A i \in (MaxNames + 1)..Len(p) : i \in DOMAIN p /\ ~(i <= MaxNames)
  BY <1>4, ThresholdsAre
<1>9. /\ ToSet(selected) \cap rest = {}
      /\ ToSet(selected) \cup rest = ToSet(p)
  <2>1. \A i \in DOMAIN p : i <= MaxNames \/ i \in (MaxNames + 1)..Len(p)
    BY <1>4, ThresholdsAre
  <2> QED  BY <1>4, <1>5, <1>8, <2>1
<1>10. failed = {<<x.ticker, Reason(x)>> : x \in gone}
  BY <1>2
<1>11. below = {<<x.ticker, "below_target_size">> : x \in rest}
  OBVIOUS
<1>12. ToSet(p) \subseteq Merged
  BY <1>3
<1> DEFINE sel == ToSet(selected)
<1> HIDE DEF failed, below, rest, gone, sel
<1>13. /\ sel \cap rest = {} /\ sel \cap gone = {} /\ rest \cap gone = {}
       /\ sel \cup rest \cup gone = Merged
  BY <1>9, <1>12 DEF gone, sel
<1>14. out = {x.ticker : x \in rest \cup gone}
  <2>1. \A e \in failed : \E x \in gone : e[1] = x.ticker
    BY <1>10
  <2>2. \A e \in below : \E x \in rest : e[1] = x.ticker
    BY <1>11
  <2>3. \A x \in gone : \E e \in failed : e[1] = x.ticker
    <3> SUFFICES ASSUME NEW x \in gone PROVE \E e \in failed : e[1] = x.ticker
      OBVIOUS
    <3> DEFINE e == <<x.ticker, Reason(x)>>
    <3>1. e \in failed
      BY <1>10
    <3>2. e[1] = x.ticker
      OBVIOUS
    <3> HIDE DEF e
    <3> QED  BY <3>1, <3>2
  <2>4. \A x \in rest : \E e \in below : e[1] = x.ticker
    <3> SUFFICES ASSUME NEW x \in rest PROVE \E e \in below : e[1] = x.ticker
      OBVIOUS
    <3> DEFINE e == <<x.ticker, "below_target_size">>
    <3>1. e \in below
      BY <1>11
    <3>2. e[1] = x.ticker
      OBVIOUS
    <3> HIDE DEF e
    <3> QED  BY <3>1, <3>2
  <2> QED  BY <1>1, <2>1, <2>2, <2>3, <2>4
<1>15. in = {x.ticker : x \in sel}
  BY DEF sel
<1>16. \A x, y \in Merged : x.ticker = y.ticker => x = y
  <2> SUFFICES ASSUME NEW x \in Merged, NEW y \in Merged, x.ticker = y.ticker PROVE x = y
    OBVIOUS
  <2>1. x = Merge(x.ticker) /\ y = Merge(y.ticker)
    BY <1>6
  <2> QED  BY <2>1
<1> HIDE DEF out, in
<1>17. in \cap out = {}
  BY <1>13, <1>14, <1>15, <1>16
<1>18. in \cup out = Claimed
  <2>1. in \cup out = {x.ticker : x \in Merged}
    BY <1>13, <1>14, <1>15
  <2>2. {x.ticker : x \in Merged} = Claimed
    BY <1>6, <1>7
  <2> QED  BY <2>1, <2>2
<1>19. \A e, f \in excluded : e[1] = f[1] => e = f
  <2> SUFFICES ASSUME NEW e \in excluded, NEW f \in excluded, e[1] = f[1] PROVE e = f
    OBVIOUS
  <2>1. CASE e \in failed /\ f \in failed
    <3>1. PICK x \in gone : e = <<x.ticker, Reason(x)>>
      BY <1>10, <2>1
    <3>2. PICK y \in gone : f = <<y.ticker, Reason(y)>>
      BY <1>10, <2>1
    <3>3. x = y
      BY <1>13, <1>16, <3>1, <3>2
    <3> QED  BY <3>1, <3>2, <3>3
  <2>2. CASE e \in below /\ f \in below
    BY <1>11, <2>2
  <2>3. \A a \in failed, b \in below : a[1] # b[1]
    <3> SUFFICES ASSUME NEW a \in failed, NEW b \in below, a[1] = b[1] PROVE FALSE
      OBVIOUS
    <3>1. PICK x \in gone : a = <<x.ticker, Reason(x)>>
      BY <1>10
    <3>2. PICK y \in rest : b = <<y.ticker, "below_target_size">>
      BY <1>11
    <3>3. x = y
      BY <1>13, <1>16, <3>1, <3>2
    <3> QED  BY <1>13, <3>3
  <2> QED  BY <1>1, <2>1, <2>2, <2>3
<1>20. IsFiniteSet(Claimed)
  <2>1. FirstSeen \in Seq(Claimed) /\ ToSet(FirstSeen) = Claimed
    BY <1>1, FirstSeenIs
  <2> QED  BY <2>1, SequenceIsFinite
<1> QED  BY <1>17, <1>18, <1>19, <1>20 DEF out, in

\* A name that was selected has a price or a reason for having none.
LEMMA PricingAccounts ==
  ASSUME SelectionInv, stage = "weigh"
  PROVE  LET in  == {row.ticker : row \in ToSet(constituents)}
             out == {e[1] : e \in rejected}
         IN /\ in \cap out = {}
            /\ in \cup out = {row.ticker : row \in ToSet(selected)}
            /\ \A e, f \in rejected : e[1] = f[1] => e = f
<1> DEFINE I == {i \in DOMAIN selected : Priced(selected[i])}
           why(x) == IF Quoted(x) THEN "no_consensus" ELSE "too_few_sources"
           sel == ToSet(selected)
           gone == {x \in sel : ~Priced(x)}
           in  == {x.ticker : x \in ToSet(constituents)}
           out == {e[1] : e \in rejected}
<1>1. /\ world \in Worlds /\ constituents = Keep(selected, I)
      /\ rejected = {<<x.ticker, why(x)>> : x \in gone}
  BY DEF SelectionInv, Unpriced
<1>2. selected \in Seq(Merged) /\ \A x \in sel : x \in Merged
  BY SelectedIs DEF Ranked
<1>3. \A x, y \in sel : x.ticker = y.ticker => x = y
  <2> SUFFICES ASSUME NEW x \in sel, NEW y \in sel, x.ticker = y.ticker PROVE x = y
    OBVIOUS
  <2>1. x = Merge(x.ticker) /\ y = Merge(y.ticker)
    BY <1>1, <1>2, MergedIs
  <2> QED  BY <2>1
<1>4. ToSet(constituents) = {x \in sel : Priced(x)}
  <2>1. I \in SUBSET DOMAIN selected
    OBVIOUS
  <2>2. sel = {selected[i] : i \in DOMAIN selected}
    BY <1>2, Positions
  <2>3. ToSet(Keep(selected, I)) = {selected[i] : i \in I}
    <3> HIDE DEF I
    <3> QED  BY <1>2, <2>1, KeepIs
  <2> QED  BY <1>1, <2>2, <2>3
<1>5. out = {x.ticker : x \in gone}
  <2>1. \A e \in rejected : \E x \in gone : e[1] = x.ticker
    BY <1>1
  <2>2. ASSUME NEW x \in gone PROVE \E e \in rejected : e[1] = x.ticker
    <3> DEFINE e == <<x.ticker, why(x)>>
    <3>1. e \in rejected
      BY <1>1
    <3>2. e[1] = x.ticker
      OBVIOUS
    <3> HIDE DEF e
    <3> QED  BY <3>1, <3>2
  <2> QED  BY <2>1, <2>2
<1> HIDE DEF sel, why, out
<1>6. in \cap out = {} /\ in \cup out = {x.ticker : x \in sel}
  BY <1>3, <1>4, <1>5
<1>7. ASSUME NEW e \in rejected, NEW f \in rejected, e[1] = f[1] PROVE e = f
  <2>1. PICK x \in gone : e = <<x.ticker, why(x)>>
    BY <1>1
  <2>2. PICK y \in gone : f = <<y.ticker, why(y)>>
    BY <1>1
  <2>3. x = y
    BY <1>3, <1>7, <2>1, <2>2
  <2> QED  BY <2>1, <2>2, <2>3
<1> QED  BY <1>6, <1>7 DEF sel, out

\* A row with a capitalisation is usable.
LEMMA UsableHas ==
  ASSUME NEW rows \in Seq(Row), NEW row \in ToSet(rows), row.cap > 0
  PROVE  \E u \in ToSet(Usable(rows)) : u.asset = row.asset /\ u.cap = row.cap
<1> DEFINE I == {i \in DOMAIN rows : rows[i].cap > 0}
           listed == Keep(rows, I)
           fill(x) == [x EXCEPT !.volume = IF @ = Null THEN 0 ELSE @]
           f == [i \in DOMAIN listed |-> fill(listed[i])]
<1>1. ToSet(rows) = {rows[i] : i \in DOMAIN rows}
  BY Positions
<1>2. /\ listed \in Seq(Row) /\ Len(listed) \in Nat /\ DOMAIN listed = 1..Len(listed)
      /\ ToSet(listed) = {rows[i] : i \in I}
  <2>1. I \in SUBSET DOMAIN rows
    OBVIOUS
  <2> HIDE DEF I
  <2> QED  BY <2>1, KeepIs
<1>3. row \in ToSet(listed)
  <2> HIDE DEF listed
  <2> QED  BY <1>1, <1>2
<1>4. Usable(rows) = Whole(f)
  BY DEF Usable
<1>5. DOMAIN f = DOMAIN listed /\ \A i \in DOMAIN listed : f[i] = fill(listed[i])
  OBVIOUS
<1>6. f = [i \in DOMAIN f |-> f[i]]
  OBVIOUS
<1> HIDE DEF f, listed
<1>7. Usable(rows) = f
  BY <1>2, <1>4, <1>5, <1>6, IsSequence
<1>8. PICK i \in DOMAIN listed : listed[i] = row
  <2>1. ToSet(listed) = {listed[i] : i \in DOMAIN listed}
    BY <1>2, Positions
  <2> QED  BY <1>3, <2>1
<1>9. row \in Row
  BY <1>1
<1>10. fill(row).asset = row.asset /\ fill(row).cap = row.cap
  BY <1>9 DEF Row
<1>11. f[i] \in ToSet(f)
  <2>1. Usable(rows) \in Seq(Fetched)
    BY UsableIs
  <2>2. ToSet(f) = {f[j] : j \in DOMAIN f}
    BY <1>7, <2>1, Positions
  <2> QED  BY <1>5, <2>2
<1>12. f[i] = fill(row)
  BY <1>5, <1>8
<1> HIDE DEF fill
<1> QED  BY <1>7, <1>10, <1>11, <1>12

\* What an adapter hands on, its provider claims.
LEMMA FetchedIsClaimed ==
  ASSUME world \in Worlds, NEW p \in Provider, world.listing[p] # Failed
  PROVE  /\ Fetch(p) \in Seq(Fetched)
         /\ DOMAIN ClaimsOf(p) = DOMAIN Fetch(p) /\ Len(ClaimsOf(p)) = Len(Fetch(p))
         /\ \A i \in DOMAIN Fetch(p) : /\ ClaimsOf(p)[i].row = Fetch(p)[i]
                                       /\ Ticker[Fetch(p)[i].asset] \in Claimed
<1> DEFINE rows == Fetch(p)
           f == [i \in DOMAIN rows |-> [by |-> p, row |-> rows[i]]]
<1>1. world.listing[p] \in Seq(Row)
  BY WorldsAssumption
<1>2. rows \in Seq(Fetched)
  BY <1>1, FetchIs DEF Fetch
<1>3. ClaimsOf(p) = f
  BY DEF ClaimsOf
<1> HIDE DEF rows
<1>4. DOMAIN f = DOMAIN rows /\ \A i \in DOMAIN rows : f[i].row = rows[i] /\ f[i] \in Claim
  BY <1>2 DEF Claim
<1>5. DOMAIN rows = 1..Len(rows) /\ Len(rows) \in Nat
  BY <1>2
<1>6. f \in Seq(Claim) /\ Len(f) = Len(rows)
  BY <1>4, <1>5
<1> HIDE DEF f
<1>7. \A q \in Provider : ClaimsOf(q) \in Seq(Claim)
  BY ClaimsOfAre
<1>8. ToSet(f) \subseteq ToSet(Claims)
  <2>1. ClaimsOf(Gecko) \in Seq(Claim) /\ ClaimsOf(Paprika) \in Seq(Claim)
    BY <1>7 DEF Provider
  <2>2. \A g, h \in Seq(Claim) :
          ToSet(g) \subseteq ToSet(g \o h) /\ ToSet(h) \subseteq ToSet(g \o h)
    BY ToSetOfConcat
  <2>3. f = ClaimsOf(Gecko) \/ f = ClaimsOf(Paprika)
    BY <1>3 DEF Provider
  <2> QED  BY <2>1, <2>2, <2>3 DEF Claims
<1>9. ASSUME NEW i \in DOMAIN rows PROVE Ticker[rows[i].asset] \in Claimed
  <2>1. ToSet(f) = {f[j] : j \in DOMAIN f}
    BY <1>6, Positions
  <2>2. f[i] \in ToSet(Claims)
    BY <1>4, <1>8, <2>1
  <2>3. TickerOf(f[i]) = Ticker[rows[i].asset]
    BY <1>4 DEF TickerOf
  <2> QED  BY <2>2, <2>3 DEF Claimed
<1> QED  BY <1>2, <1>3, <1>4, <1>6, <1>9 DEF rows

\* A row that is listed is handed on, or dropped for one of two reasons.
LEMMA AdaptersAccount ==
  ASSUME world \in Worlds, NEW p \in Provider, world.listing[p] # Failed,
         NEW row \in ToSet(world.listing[p])
  PROVE  Ticker[row.asset] \in Claimed \/ DroppedBy(p, row)
<1> DEFINE rows == world.listing[p]
           all == Usable(rows)
           s == Fetch(p)
<1>1. rows \in Seq(Row)
  BY WorldsAssumption
<1>2. row \in Row
  <2>1. ToSet(rows) = {rows[i] : i \in DOMAIN rows}
    BY <1>1, Positions
  <2> QED  BY <1>1, <2>1
<1>3. SUFFICES ASSUME row.cap > 0 PROVE Ticker[row.asset] \in Claimed \/ DroppedBy(p, row)
  BY <1>2 DEF DroppedBy, Row
<1>4. PICK u \in ToSet(all) : u.asset = row.asset /\ u.cap = row.cap
  BY <1>1, <1>3, UsableHas
<1>5. all \in Seq(Fetched)
  BY <1>1, UsableIs
<1>6. /\ s \in Seq(Fetched)
      /\ DOMAIN ClaimsOf(p) = DOMAIN s /\ Len(ClaimsOf(p)) = Len(s)
      /\ \A i \in DOMAIN s : ClaimsOf(p)[i].row = s[i] /\ Ticker[s[i].asset] \in Claimed
  BY FetchedIsClaimed
<1>7. CASE p = Gecko
  <2>1. s = [i \in DOMAIN all |-> [all[i] EXCEPT !.age = Null]]
    BY <1>7 DEF Fetch, FetchGecko
  <2> HIDE DEF all, s
  <2>2. PICK i \in DOMAIN all : all[i] = u
    <3>1. ToSet(all) = {all[i] : i \in DOMAIN all}
      BY <1>5, Positions
    <3> QED  BY <1>4, <3>1
  <2>3. u \in Fetched
    BY <1>5, <2>2
  <2>4. i \in DOMAIN s /\ s[i].asset = u.asset
    BY <2>1, <2>2, <2>3 DEF Fetched
  <2>5. Ticker[s[i].asset] \in Claimed
    BY <1>6, <2>4
  <2> QED  BY <1>4, <2>4, <2>5
<1>8. CASE p # Gecko
  <2> DEFINE d == Descending(all)
  <2>1. p = Paprika /\ s = Prefix(d, Limit)
    BY <1>8, UniverseAssumption DEF Provider, Fetch, FetchPaprika
  <2>2. \A x \in Fetched : x.cap \in Int
    BY DEF Fetched
  <2>3. d \in Seq(Fetched) /\ ToSet(d) = ToSet(all) /\ Sorted(d)
    BY <1>5, <2>2, DescendingIs
  <2> HIDE DEF d, all, s
  <2>4. DOMAIN d = 1..Len(d) /\ Len(d) \in Nat /\ ToSet(d) = {d[i] : i \in DOMAIN d}
    BY <2>3, Positions
  <2>5. PICK i \in DOMAIN d : d[i] = u
    BY <1>4, <2>3, <2>4
  <2>6. Limit \in Nat
    BY UniverseAssumption
  <2>7. /\ Len(s) = (IF Limit < Len(d) THEN Limit ELSE Len(d))
        /\ \A j \in DOMAIN s : j \in DOMAIN d /\ s[j] = d[j]
    BY <2>1, <2>3, <2>6, PrefixIs
  <2>8. DOMAIN s = 1..Len(s)
    BY <1>6, Positions
  <2>9. CASE i \in DOMAIN s
    <3>1. s[i] = u /\ Ticker[s[i].asset] \in Claimed
      BY <1>6, <2>5, <2>7, <2>9
    <3> QED  BY <1>4, <3>1
  <2>10. CASE i \notin DOMAIN s
    <3>1. Limit < Len(d) /\ Len(s) = Limit /\ i > Limit
      <4>1. i \in Nat /\ 1 <= i /\ i <= Len(d) /\ Len(d) \in Nat
        BY <2>4, <2>5
      <4>2. Len(s) = (IF Limit < Len(d) THEN Limit ELSE Len(d))
        BY <2>7
      <4>3. i \notin 1..Len(s)
        BY <2>8, <2>10
      <4> QED  BY <2>6, <4>1, <4>2, <4>3
    <3>2. ASSUME NEW j \in DOMAIN ClaimsOf(p) PROVE ClaimsOf(p)[j].row.cap >= row.cap
      <4>1. j \in DOMAIN s /\ j \in DOMAIN d /\ ClaimsOf(p)[j].row = d[j]
        BY <1>6, <2>7
      <4>2. j < i
        BY <2>4, <2>5, <2>6, <2>8, <3>1, <4>1
      <4>3. d[j].cap >= d[i].cap
        BY <2>3, <2>5, <4>1, <4>2 DEF Sorted
      <4> QED  BY <1>4, <2>5, <4>1, <4>3
    <3>3. Len(ClaimsOf(p)) = Limit
      BY <1>6, <3>1
    <3> QED  BY <2>1, <3>2, <3>3 DEF DroppedBy
  <2> QED  BY <2>9, <2>10
<1> QED  BY <1>7, <1>8

\* Nothing gets lost from what a provider lists to what is weighed: each row is
\* handed on or dropped for its size, and each ticker handed on is weighed or on
\* record, for one reason of the screening, the target size or the pricing.
THEOREM AbsenceIsExplained == SelectionSpec => []EveryAbsenceHasAReason
<1>1. SelectionInv => EveryAbsenceHasAReason
  <2> DEFINE in     == {row.ticker : row \in ToSet(constituents)}
             record == excluded \cup rejected
             out    == {e[1] : e \in record}
             chosen == {row.ticker : row \in ToSet(selected)}
             screenedOut == {e[1] : e \in excluded}
             pricedOut   == {e[1] : e \in rejected}
  <2> SUFFICES ASSUME SelectionInv, stage = "weigh"
               PROVE  /\ in \cap out = {}
                      /\ in \cup out = Claimed
                      /\ Cardinality(record) = Cardinality(out)
                      /\ \A p \in Provider : world.listing[p] # Failed =>
                           \A row \in ToSet(world.listing[p]) :
                             Ticker[row.asset] \in Claimed \/ DroppedBy(p, row)
    BY DEF EveryAbsenceHasAReason
  <2>1. world \in Worlds /\ Screened
    BY DEF SelectionInv, Screened
  <2>2. /\ chosen \cap screenedOut = {} /\ chosen \cup screenedOut = Claimed
        /\ \A e, f \in excluded : e[1] = f[1] => e = f
        /\ IsFiniteSet(Claimed)
    BY <2>1, ScreeningAccounts
  <2>3. /\ in \cap pricedOut = {} /\ in \cup pricedOut = chosen
        /\ \A e, f \in rejected : e[1] = f[1] => e = f
    BY PricingAccounts
  <2>4. out = screenedOut \cup pricedOut
    OBVIOUS
  <2>5. \A e \in excluded, f \in rejected : e[1] # f[1]
    <3>1. \A e \in excluded : e[1] \in screenedOut
      OBVIOUS
    <3>2. \A f \in rejected : f[1] \in pricedOut
      OBVIOUS
    <3> HIDE DEF screenedOut, pricedOut, chosen, in
    <3> QED  BY <2>2, <2>3, <3>1, <3>2
  <2>6. out = {e[1] : e \in record}
    OBVIOUS
  <2>7. \A e, f \in record : e[1] = f[1] => e = f
    BY <2>2, <2>3, <2>5
  <2> HIDE DEF in, out, chosen, screenedOut, pricedOut, record
  <2>8. in \cap out = {} /\ in \cup out = Claimed
    BY <2>2, <2>3, <2>4
  <2>9. IsFiniteSet(out)
    BY <2>2, <2>8, FS_Subset
  <2>10. Cardinality(record) = Cardinality(out)
    BY <2>6, <2>7, <2>9, OneEach
  <2> QED  BY <2>1, <2>8, <2>10, AdaptersAccount
<1> QED  BY <1>1, SelectionHolds, PTL

\* So whatever is collected and priced, the capping ends of itself, the weights
\* add up to one, none is capped without need, and basis points follow weights.
THEOREM SelectionKeepsWeights ==
  SelectionSpec => [](BoundNeverBites /\ WeightsAddToOne /\ NoneCappedInVain /\ BpsAreFaithful)
BY SelectionIsWeighed, LoopEndsOfItself, CappedLeaveTheRest, CappingIsNeeded, BpsFollowWeights, PTL
   DEF ImplementsWeighting
=============================================================================
