----------------------------- MODULE PricesProofs -----------------------------
(***************************************************************************)
(* For every number of venues, every threshold and whatever one venue      *)
(* quotes: how far it can take the consensus price, that no price is one   *)
(* venue's alone, and that agreement is always a price.                    *)
(*                                                                         *)
(* The argument rests on what the position of a quote in the sorted order  *)
(* says about how many quotes lie on either side of it.                    *)
(***************************************************************************)
EXTENDS Prices, FoldProofs

\* Inequalities may be multiplied.
LEMMA Order == \A a, b, c \in Int : a <= b /\ c >= 0 => a * c <= b * c
OBVIOUS

\* q has a price for every venue of V, and V is not empty.
Quotes(q, V) ==
  /\ IsFiniteSet(V) /\ V # {}
  /\ \A v \in V : q[v] \in Nat \ {0}

\* Counting a part of a finite set and the rest of it.
LEMMA CountInside ==
  ASSUME NEW V, IsFiniteSet(V), NEW A \in SUBSET V
  PROVE  /\ IsFiniteSet(A) /\ Cardinality(A) \in Nat /\ Cardinality(V) \in Nat
         /\ Cardinality(A) <= Cardinality(V)
         /\ Cardinality(A) = Cardinality(V) => A = V
         /\ Cardinality(V \ A) = Cardinality(V) - Cardinality(A)
         /\ A # {} => Cardinality(A) > 0
<1>1. IsFiniteSet(A) /\ Cardinality(A) \in Nat /\ Cardinality(V) \in Nat
  BY FS_Subset, FS_CardinalityType
<1>2. Cardinality(A) <= Cardinality(V) /\ (Cardinality(A) = Cardinality(V) => A = V)
  BY FS_Subset
<1>3. Cardinality(V \ A) = Cardinality(V) - Cardinality(V \cap A) /\ V \cap A = A
  BY <1>1, FS_Difference
<1>4. A # {} => Cardinality(A) > 0
  BY <1>1, FS_EmptySet
<1> QED  BY <1>1, <1>2, <1>3, <1>4

\* A set of more than one member has one beside any given.
LEMMA AnotherMember ==
  ASSUME NEW V, IsFiniteSet(V), Cardinality(V) >= 2, NEW v
  PROVE  \E w \in V : w # v
<1>1. Cardinality({v}) = 1
  BY FS_Singleton
<1>2. CASE V \subseteq {v}
  <2>1. Cardinality(V) <= Cardinality({v})
    BY <1>2, FS_Singleton, FS_Subset
  <2> QED  BY <1>1, <2>1, FS_CardinalityType
<1> QED  BY <1>2

\* Two different members make a count of two.
LEMMA TwoMembers ==
  ASSUME NEW V, IsFiniteSet(V), NEW v \in V, NEW w \in V, v # w
  PROVE  Cardinality(V) >= 2
<1>1. Cardinality({v}) = 1 /\ IsFiniteSet({v})
  BY FS_Singleton
<1>2. Cardinality({v} \cup {w}) = 2 /\ {v} \cup {w} \in SUBSET V
  BY <1>1, FS_AddElement
<1> QED  BY <1>2, FS_Subset

-----------------------------------------------------------------------------
(* Positions in the sorted order. *)

\* The k-th quote is a quote, with fewer than k below it and k up to it.
LEMMA NthExists ==
  ASSUME NEW q, NEW V, Quotes(q, V), NEW k \in 1..Cardinality(V)
  PROVE  LET p == Nth(q, V, k)
         IN /\ \E v \in V : q[v] = p
            /\ p \in Nat \ {0}
            /\ Cardinality({v \in V : q[v] < p}) < k
            /\ Cardinality({v \in V : q[v] <= p}) >= k
<1> DEFINE below(p) == {v \in V : q[v] < p}
           upTo(p) == {v \in V : q[v] <= p}
           T == {p \in Nat : Cardinality(upTo(p)) >= k}
<1>1. Cardinality(V) \in Nat /\ k \in Nat /\ k >= 1 /\ k <= Cardinality(V)
  BY FS_CardinalityType DEF Quotes
<1>2. T # {}
  <2>1. OfNumbers(q, V) /\ \A v \in V : q[v] >= 0
    BY DEF Quotes, OfNumbers
  <2>2. SumOf(q, V) \in Nat /\ \A v \in V : q[v] <= SumOf(q, V)
    BY <2>1, SumBounds
  <2>3. upTo(SumOf(q, V)) = V
    BY <2>2
  <2> QED  BY <1>1, <2>2, <2>3
<1>3. PICK p \in T : \A r \in T : p <= r
  <2>1. T \in SUBSET Nat
    OBVIOUS
  <2> HIDE DEF T
  <2> QED  BY <1>2, <2>1, Least
<1>4. Cardinality(below(p)) < k
  <2>1. CASE p = 0
    <3>1. below(p) = {}
      BY <2>1 DEF Quotes
    <3>2. Cardinality(below(p)) = 0
      BY <3>1, FS_EmptySet
    <3> QED  BY <1>1, <3>2
  <2>2. CASE p # 0
    <3>1. p - 1 \in Nat /\ p - 1 \notin T
      BY <1>3, <2>2
    <3>2. upTo(p - 1) = below(p)
      BY <1>3 DEF Quotes
    <3>3. ~(Cardinality(upTo(p - 1)) >= k)
      BY <3>1
    <3>4. Cardinality(below(p)) \in Nat
      <4>1. below(p) \in SUBSET V
        OBVIOUS
      <4> QED  BY <4>1, CountInside DEF Quotes
    <3> QED  BY <1>1, <3>2, <3>3, <3>4
  <2> QED  BY <2>1, <2>2
<1>5. p \in {q[v] : v \in V}
  <2> SUFFICES ASSUME p \notin {q[v] : v \in V} PROVE FALSE
    OBVIOUS
  <2>1. upTo(p) = below(p)
    BY <1>3 DEF Quotes
  <2>2. Cardinality(below(p)) \in Nat
    <3>1. below(p) \in SUBSET V
      OBVIOUS
    <3> QED  BY <3>1, CountInside DEF Quotes
  <2> QED  BY <1>1, <1>3, <1>4, <2>1, <2>2
<1>6. Cardinality(upTo(p)) >= k
  BY <1>3
<1>7. LET r == Nth(q, V, k)
      IN r \in {q[v] : v \in V} /\ Cardinality(below(r)) < k /\ Cardinality(upTo(r)) >= k
  BY <1>4, <1>5, <1>6 DEF Nth
<1> QED  BY <1>7 DEF Quotes

\* Later quotes are no smaller.
LEMMA NthGrows ==
  ASSUME NEW q, NEW V, Quotes(q, V),
         NEW k \in 1..Cardinality(V), NEW l \in 1..Cardinality(V), k <= l
  PROVE  Nth(q, V, k) <= Nth(q, V, l)
<1> DEFINE p == Nth(q, V, k)
           r == Nth(q, V, l)
<1>1. p \in Nat /\ r \in Nat
  BY NthExists
<1>2. Cardinality({v \in V : q[v] < p}) < k /\ Cardinality({v \in V : q[v] <= r}) >= l
  BY NthExists
<1> HIDE DEF p, r
<1>3. ASSUME p > r PROVE FALSE
  <2>1. /\ {v \in V : q[v] <= r} \in SUBSET {v \in V : q[v] < p}
        /\ {v \in V : q[v] < p} \in SUBSET V
    BY <1>1, <1>3 DEF Quotes
  <2>2. IsFiniteSet({v \in V : q[v] < p})
    BY <2>1, CountInside DEF Quotes
  <2>3. /\ Cardinality({v \in V : q[v] <= r}) \in Nat /\ Cardinality({v \in V : q[v] < p}) \in Nat
        /\ Cardinality({v \in V : q[v] <= r}) <= Cardinality({v \in V : q[v] < p})
    BY <2>1, <2>2, CountInside
  <2>4. k \in Int /\ l \in Int
    OBVIOUS
  <2> QED  BY <1>2, <2>3, <2>4
<1> QED  BY <1>1, <1>3 DEF p, r

\* The two middle quotes of V, the same one if V is odd.
Lower(q, V) == Nth(q, V, (Cardinality(V) + 1) \div 2)
Upper(q, V) == Nth(q, V, (Cardinality(V) + 2) \div 2)

\* The middle positions exist.
LEMMA MiddlePositions ==
  ASSUME NEW n \in Nat \ {0}
  PROVE  /\ (n + 1) \div 2 \in 1..n /\ (n + 2) \div 2 \in 1..n
         /\ (n + 1) \div 2 <= (n + 2) \div 2
OBVIOUS

\* The median is the mean of two quotes.
LEMMA Middles ==
  ASSUME NEW q, NEW V, Quotes(q, V)
  PROVE  /\ DoubledMedian(q, V) = Lower(q, V) + Upper(q, V)
         /\ Lower(q, V) \in Nat \ {0}
         /\ Upper(q, V) \in Nat \ {0}
         /\ Lower(q, V) <= Upper(q, V)
         /\ \E v \in V : q[v] = Lower(q, V)
         /\ \E v \in V : q[v] = Upper(q, V)
<1>1. Cardinality(V) \in Nat \ {0}
  BY FS_CardinalityType, FS_EmptySet DEF Quotes
<1> DEFINE k == (Cardinality(V) + 1) \div 2
           l == (Cardinality(V) + 2) \div 2
<1>2. k \in 1..Cardinality(V) /\ l \in 1..Cardinality(V) /\ k <= l
  BY <1>1, MiddlePositions
<1>3. Lower(q, V) = Nth(q, V, k) /\ Upper(q, V) = Nth(q, V, l)
  BY DEF Lower, Upper
<1>4. DoubledMedian(q, V) = Lower(q, V) + Upper(q, V)
  BY DEF DoubledMedian, Lower, Upper
<1> HIDE DEF k, l
<1>5. Nth(q, V, k) <= Nth(q, V, l)
  BY <1>2, NthGrows
<1>6. Nth(q, V, k) \in Nat \ {0} /\ \E v \in V : q[v] = Nth(q, V, k)
  BY <1>2, NthExists
<1>7. Nth(q, V, l) \in Nat \ {0} /\ \E v \in V : q[v] = Nth(q, V, l)
  BY <1>2, NthExists
<1> QED  BY <1>3, <1>4, <1>5, <1>6, <1>7

\* How many quotes lie on either side of each middle one.
LEMMA MiddleCounts ==
  ASSUME NEW q, NEW V, Quotes(q, V)
  PROVE  /\ Cardinality(V) \in Nat \ {0}
         /\ Cardinality({v \in V : q[v] < Lower(q, V)}) < (Cardinality(V) + 1) \div 2
         /\ Cardinality({v \in V : q[v] <= Lower(q, V)}) >= (Cardinality(V) + 1) \div 2
         /\ Cardinality({v \in V : q[v] < Upper(q, V)}) < (Cardinality(V) + 2) \div 2
         /\ Cardinality({v \in V : q[v] <= Upper(q, V)}) >= (Cardinality(V) + 2) \div 2
<1>1. Cardinality(V) \in Nat \ {0}
  BY FS_CardinalityType, FS_EmptySet DEF Quotes
<1> DEFINE k == (Cardinality(V) + 1) \div 2
           l == (Cardinality(V) + 2) \div 2
<1>2. k \in 1..Cardinality(V) /\ l \in 1..Cardinality(V)
  BY <1>1, MiddlePositions
<1>3. Lower(q, V) = Nth(q, V, k) /\ Upper(q, V) = Nth(q, V, l)
  BY DEF Lower, Upper
<1> HIDE DEF k, l
<1>4. /\ Cardinality({v \in V : q[v] < Nth(q, V, k)}) < k
      /\ Cardinality({v \in V : q[v] <= Nth(q, V, k)}) >= k
  BY <1>2, NthExists
<1>5. /\ Cardinality({v \in V : q[v] < Nth(q, V, l)}) < l
      /\ Cardinality({v \in V : q[v] <= Nth(q, V, l)}) >= l
  BY <1>2, NthExists
<1> QED  BY <1>1, <1>3, <1>4, <1>5 DEF k, l

-----------------------------------------------------------------------------
(* The band. *)

\* A quote of p is within the band around half of r.
InBand(p, r) ==
  /\ (2 * p - r) * 10000 <= MaxDeviation * r
  /\ (r - 2 * p) * 10000 <= MaxDeviation * r

\* The band is at most the whole price.
LEMMA Deviation == MaxDeviation \in Nat /\ MaxDeviation <= 10000
BY PricesAssumption

\* Being within the band, as two linear inequalities.
LEMMA BandEdges ==
  ASSUME NEW p \in Nat, NEW r \in Nat
  PROVE  InBand(p, r) <=> /\ 20000 * p <= (10000 + MaxDeviation) * r
                          /\ (10000 - MaxDeviation) * r <= 20000 * p
<1>1. /\ MaxDeviation * r \in Int
      /\ (10000 + MaxDeviation) * r = 10000 * r + MaxDeviation * r
      /\ (10000 - MaxDeviation) * r = 10000 * r - MaxDeviation * r
  BY Deviation
<1> QED  BY <1>1 DEF InBand

\* What is kept is what lies in the band around the median of all.
LEMMA KeptIs ==
  ASSUME NEW q, NEW V, Quotes(q, V)
  PROVE  LET r == DoubledMedian(q, V)
         IN r \in Nat \ {0} /\ Kept(q, V) = {v \in V : InBand(q[v], r)}
<1> DEFINE r == DoubledMedian(q, V)
           off(v) == IF 2 * q[v] >= r THEN 2 * q[v] - r ELSE r - 2 * q[v]
<1>1. r \in Nat \ {0}
  BY Middles
<1> HIDE DEF r
<1>2. MaxDeviation * r \in Nat
  BY <1>1, Deviation
<1>3. ASSUME NEW v \in V
      PROVE  off(v) * 10000 <= MaxDeviation * r <=> InBand(q[v], r)
  <2>1. q[v] \in Nat
    BY DEF Quotes
  <2> QED  BY <1>1, <1>2, <2>1 DEF InBand
<1>4. Kept(q, V) = {v \in V : off(v) * 10000 <= MaxDeviation * r}
  BY DEF Kept, r
<1>5. Kept(q, V) = {v \in V : InBand(q[v], r)}
  <2> HIDE DEF off
  <2> QED  BY <1>3, <1>4
<1> QED  BY <1>1, <1>5 DEF r

\* Two kept quotes are near their mean.
LEMMA MeanOfKept ==
  ASSUME NEW x \in Nat, NEW y \in Nat, NEW r \in Nat,
         x <= y, InBand(x, r), InBand(y, r)
  PROVE  InBand(x, x + y) /\ InBand(y, x + y)
<1> DEFINE E == 10000 - MaxDeviation
           F == 10000 + MaxDeviation
<1>1. E \in Nat /\ F \in Nat /\ 20000 * y <= F * r /\ E * r <= 20000 * x
  BY BandEdges, Deviation
<1>2. /\ MaxDeviation * (x + y) = MaxDeviation * x + MaxDeviation * y
      /\ MaxDeviation * x \in Nat /\ MaxDeviation * y \in Nat
      /\ y * E = 10000 * y - MaxDeviation * y /\ x * F = 10000 * x + MaxDeviation * x
  BY Deviation
<1> HIDE DEF E, F
<1>3. (20000 * y) * E <= (F * r) * E /\ (E * r) * F <= (20000 * x) * F
  <2>1. 20000 * y \in Int /\ F * r \in Int /\ E * r \in Int /\ 20000 * x \in Int
    BY <1>1
  <2> QED  BY <1>1, <2>1, Order
<1>4. /\ (F * r) * E = (E * r) * F /\ (20000 * y) * E = 20000 * (y * E)
      /\ (20000 * x) * F = 20000 * (x * F) /\ y * E \in Int /\ x * F \in Int
      /\ (E * r) * F \in Int
  BY <1>1
<1>5. y * E <= x * F
  BY <1>3, <1>4
<1> QED  BY <1>2, <1>5 DEF InBand

\* Of a quote that is kept and on the far side of the first median, one nearer to
\* it is within the band.
LEMMA NearTheMiddle ==
  ASSUME NEW x \in Nat, NEW w \in Nat, NEW r \in Nat, InBand(w, r),
         \/ x <= w /\ r <= 2 * x
         \/ w <= x /\ 2 * x <= r
  PROVE  InBand(w, 2 * x)
<1>1. 20000 * w <= (10000 + MaxDeviation) * r /\ (10000 - MaxDeviation) * r <= 20000 * w
  BY BandEdges
<1>2. /\ (10000 + MaxDeviation) * (2 * x) = 20000 * x + MaxDeviation * (2 * x)
      /\ (10000 - MaxDeviation) * (2 * x) = 20000 * x - MaxDeviation * (2 * x)
      /\ MaxDeviation * (2 * x) \in Nat
  BY Deviation
<1>3. CASE x <= w /\ r <= 2 * x
  <2>1. (10000 + MaxDeviation) * r <= (10000 + MaxDeviation) * (2 * x)
    BY <1>3, Deviation
  <2>2. (10000 + MaxDeviation) * r \in Int
    BY Deviation
  <2> QED  BY <1>1, <1>2, <1>3, <2>1, <2>2 DEF InBand
<1>4. CASE w <= x /\ 2 * x <= r
  <2>1. (10000 - MaxDeviation) * (2 * x) <= (10000 - MaxDeviation) * r
    BY <1>4, Deviation
  <2>2. (10000 - MaxDeviation) * r \in Int
    BY Deviation
  <2> QED  BY <1>1, <1>2, <1>4, <2>1, <2>2 DEF InBand
<1> QED  BY <1>3, <1>4

-----------------------------------------------------------------------------
\* If no two quotes of V are further apart than the band, all are kept.
Agree(q, V) == \A v, w \in V : (q[v] - q[w]) * 10000 <= MaxDeviation * q[w]

\* Quotes that agree are all kept.
LEMMA AllKept ==
  ASSUME NEW q, NEW V, Quotes(q, V),
         Agree(q, V)
  PROVE  Kept(q, V) = V
<1>1. PICK x \in V : q[x] = Lower(q, V)
  BY Middles
<1>2. PICK y \in V : q[y] = Upper(q, V)
  BY Middles
<1>3. DoubledMedian(q, V) = q[x] + q[y]
  BY <1>1, <1>2, Middles
<1>4. ASSUME NEW v \in V PROVE InBand(q[v], q[x] + q[y])
  <2>1. /\ (q[v] - q[x]) * 10000 <= MaxDeviation * q[x]
        /\ (q[v] - q[y]) * 10000 <= MaxDeviation * q[y]
        /\ (q[x] - q[v]) * 10000 <= MaxDeviation * q[v]
        /\ (q[y] - q[v]) * 10000 <= MaxDeviation * q[v]
    BY DEF Agree
  <2>2. q[v] \in Nat /\ q[x] \in Nat /\ q[y] \in Nat
    BY DEF Quotes
  <2> DEFINE a == q[v]
             b == q[x]
             c == q[y]
  <2> HIDE DEF a, b, c
  <2>3. /\ MaxDeviation * (b + c) = MaxDeviation * b + MaxDeviation * c
        /\ MaxDeviation * a \in Nat /\ MaxDeviation * b \in Nat /\ MaxDeviation * c \in Nat
    BY <2>2, Deviation DEF a, b, c
  <2>4. (2 * a - (b + c)) * 10000 <= MaxDeviation * (b + c)
    BY <2>1, <2>2, <2>3 DEF a, b, c
  <2>5. ((b + c) - 2 * a) * 10000 <= MaxDeviation * (b + c)
    <3>1. CASE b + c <= 2 * a
      BY <2>2, <2>3, <3>1 DEF a, b, c
    <3>2. CASE 2 * a <= b + c
      <4>1. MaxDeviation * (2 * a) <= MaxDeviation * (b + c)
        <5>1. (2 * a) * MaxDeviation <= (b + c) * MaxDeviation
          BY <2>2, <3>2, Deviation, Order DEF a, b, c
        <5> QED  BY <2>2, <5>1, Deviation DEF a, b, c
      <4>2. MaxDeviation * (2 * a) = 2 * (MaxDeviation * a)
        BY <2>2, Deviation DEF a
      <4> QED  BY <2>1, <2>2, <2>3, <4>1, <4>2 DEF a, b, c
    <3> QED  BY <2>2, <3>1, <3>2 DEF a, b, c
  <2> QED  BY <2>4, <2>5 DEF InBand, a, b, c
<1> QED  BY <1>3, <1>4, KeptIs

-----------------------------------------------------------------------------
(* Corroboration. *)

\* If the middle two are equal, or the same, two quotes are no less and two no more.
LEMMA BothSides ==
  ASSUME NEW q, NEW V, Quotes(q, V), Cardinality(V) >= 2,
         Lower(q, V) = Upper(q, V)
  PROVE  /\ Cardinality({v \in V : q[v] <= Lower(q, V)}) >= 2
         /\ Cardinality({v \in V : q[v] >= Lower(q, V)}) >= 2
<1> DEFINE n == Cardinality(V)
           x == Lower(q, V)
           below == {v \in V : q[v] < x}
           upTo == {v \in V : q[v] <= x}
           from == {v \in V : q[v] >= x}
<1>1. /\ n \in Nat /\ n >= 2 /\ x \in Nat
      /\ Cardinality(below) < (n + 1) \div 2
      /\ Cardinality(upTo) >= (n + 2) \div 2
  <2>1. n \in Nat /\ x \in Nat
    BY Middles, MiddleCounts
  <2>2. Cardinality(below) < (n + 1) \div 2
    BY MiddleCounts
  <2>3. Cardinality({v \in V : q[v] <= Upper(q, V)}) >= (n + 2) \div 2
    BY MiddleCounts
  <2> QED  BY <2>1, <2>2, <2>3
<1>2. below \in SUBSET V /\ upTo \in SUBSET V /\ from = V \ below
  BY <1>1 DEF Quotes
<1>3. /\ Cardinality(below) \in Nat /\ Cardinality(upTo) \in Nat
      /\ Cardinality(from) = n - Cardinality(below)
  BY <1>2, CountInside DEF Quotes
<1> HIDE DEF n, below, upTo, from, x
<1>4. Cardinality(upTo) >= 2
  BY <1>1, <1>3
<1>5. Cardinality(from) >= 2
  BY <1>1, <1>3
<1> QED  BY <1>1, <1>4, <1>5 DEF n, below, upTo, from, x

\* Of two quotes or more, kept around r, two are within the band around the median.
LEMMA TwoAreNear ==
  ASSUME NEW q, NEW V, Quotes(q, V), Cardinality(V) >= 2,
         NEW r \in Nat, \A v \in V : InBand(q[v], r)
  PROVE  \E v, w \in V : /\ v # w
                         /\ InBand(q[v], DoubledMedian(q, V))
                         /\ InBand(q[w], DoubledMedian(q, V))
<1> DEFINE x == Lower(q, V)
           y == Upper(q, V)
<1>1. x \in Nat /\ y \in Nat /\ x <= y /\ DoubledMedian(q, V) = x + y
  BY Middles
<1>2. PICK a \in V : q[a] = x
  BY Middles
<1>3. PICK b \in V : q[b] = y
  BY Middles
<1>4. CASE x # y
  <2>1. InBand(q[a], x + y) /\ InBand(q[b], x + y)
    <3>1. InBand(x, r) /\ InBand(y, r)
      BY <1>2, <1>3
    <3> HIDE DEF x, y
    <3> QED  BY <1>1, <1>2, <1>3, <3>1, MeanOfKept
  <2> QED  BY <1>1, <1>2, <1>3, <1>4, <2>1
<1>5. CASE x = y
  <2>1. PICK side \in SUBSET V :
          /\ Cardinality(side) >= 2
          /\ \A w \in side : \/ x <= q[w] /\ r <= 2 * x
                             \/ q[w] <= x /\ 2 * x <= r
    <3>1. /\ Cardinality({v \in V : q[v] <= x}) >= 2
          /\ Cardinality({v \in V : q[v] >= x}) >= 2
      BY <1>5, BothSides
    <3>2. CASE r <= 2 * x
      <4>1. \A w \in {v \in V : q[v] >= x} : x <= q[w]
        BY <1>1 DEF Quotes
      <4> QED  BY <3>1, <3>2, <4>1
    <3>3. CASE 2 * x <= r
      BY <3>1, <3>3
    <3> QED  BY <1>1, <3>2, <3>3
  <2>2. IsFiniteSet(side)
    BY FS_Subset DEF Quotes
  <2>3. PICK w \in side : w # a
    BY <2>1, <2>2, AnotherMember
  <2>4. InBand(q[w], 2 * x)
    <3>1. q[w] \in Nat /\ InBand(q[w], r)
      BY DEF Quotes
    <3>2. \/ x <= q[w] /\ r <= 2 * x
          \/ q[w] <= x /\ 2 * x <= r
      BY <2>1
    <3> HIDE DEF x
    <3> QED  BY <1>1, <3>1, <3>2, NearTheMiddle
  <2>5. InBand(q[a], 2 * x)
    BY <1>1, <1>2, Deviation DEF InBand
  <2>6. DoubledMedian(q, V) = 2 * x
    BY <1>1, <1>5
  <2> QED  BY <2>3, <2>4, <2>5, <2>6
<1> QED  BY <1>4, <1>5

-----------------------------------------------------------------------------
(* One liar. *)

\* Two quotes of V or more are honest, and between lo and hi.
MostlyHonest(q, V, lo, hi) ==
  /\ Quotes(q, V)
  /\ lo \in Nat /\ hi \in Nat
  /\ \A v \in V \ {Liar} : lo <= q[v] /\ q[v] <= hi
  /\ Cardinality(V \ {Liar}) >= 2

\* All venues but one are honest.
LEMMA HonestCount ==
  ASSUME NEW V, IsFiniteSet(V)
  PROVE  /\ Cardinality(V) \in Nat /\ Cardinality(V \ {Liar}) \in Nat
         /\ Cardinality(V) <= Cardinality(V \ {Liar}) + 1
         /\ Cardinality(V \ {Liar}) <= Cardinality(V)
<1>1. V \ {Liar} \in SUBSET V
  OBVIOUS
<1>2. /\ Cardinality(V) \in Nat /\ Cardinality(V \ {Liar}) \in Nat
      /\ Cardinality(V \ {Liar}) <= Cardinality(V)
  BY <1>1, CountInside
<1>3. CASE Liar \in V
  <2>1. Cardinality(V \ {Liar}) = Cardinality(V) - 1
    BY <1>3, FS_RemoveElement
  <2> QED  BY <1>2, <2>1
<1>4. CASE Liar \notin V
  <2>1. V \ {Liar} = V
    BY <1>4
  <2> QED  BY <1>2, <2>1
<1> QED  BY <1>3, <1>4

\* The liar is outvoted: the median of all is in the honest range.
LEMMA MedianIsHonest ==
  ASSUME NEW q, NEW V, NEW lo, NEW hi, MostlyHonest(q, V, lo, hi)
  PROVE  lo <= Lower(q, V) /\ Upper(q, V) <= hi
<1> DEFINE n == Cardinality(V)
           h == Cardinality(V \ {Liar})
           a == Lower(q, V)
           b == Upper(q, V)
           below == {v \in V : q[v] < b}
           upTo == {v \in V : q[v] <= a}
<1>1. /\ Quotes(q, V) /\ IsFiniteSet(V) /\ n \in Nat /\ h \in Nat /\ h >= 2
      /\ n <= h + 1 /\ h <= n
  BY HonestCount DEF MostlyHonest, Quotes
<1>2. a \in Nat /\ b \in Nat
  BY <1>1, Middles
<1>3. Cardinality(below) < (n + 2) \div 2 /\ Cardinality(upTo) >= (n + 1) \div 2
  BY <1>1, MiddleCounts
<1>4. lo \in Nat /\ hi \in Nat /\ \A v \in V : q[v] \in Nat
  BY DEF MostlyHonest, Quotes
<1>5. below \in SUBSET V /\ upTo \in SUBSET V
  OBVIOUS
<1>6. Cardinality(below) \in Nat /\ IsFiniteSet(below) /\ Cardinality(upTo) \in Nat
      /\ IsFiniteSet(upTo)
  BY <1>1, <1>5, CountInside
<1> HIDE DEF n, h, a, b
<1>7. ASSUME b > hi PROVE FALSE
  <2>1. V \ {Liar} \in SUBSET below
    BY <1>2, <1>4, <1>7 DEF MostlyHonest
  <2> HIDE DEF below
  <2>2. h <= Cardinality(below)
    BY <1>6, <2>1, CountInside DEF h
  <2> QED  BY <1>1, <1>3, <1>6, <2>2
<1>8. ASSUME a < lo PROVE FALSE
  <2>1. V \ {Liar} \in SUBSET (V \ upTo)
    BY <1>2, <1>4, <1>8 DEF MostlyHonest
  <2> HIDE DEF upTo
  <2>2. Cardinality(V \ upTo) = n - Cardinality(upTo) /\ IsFiniteSet(V \ upTo)
    <3>1. V \ upTo \in SUBSET V
      OBVIOUS
    <3> QED  BY <1>1, <1>5, <3>1, CountInside DEF n
  <2>3. h <= n - Cardinality(upTo)
    BY <2>1, <2>2, CountInside DEF h
  <2> QED  BY <1>1, <1>3, <1>6, <2>3
<1> QED  BY <1>2, <1>4, <1>7, <1>8 DEF a, b

\* A quote nearer to the middle than one in the band is in the band.
LEMMA NearerIsKept ==
  ASSUME NEW a \in Nat, NEW b \in Nat, NEW p \in Nat, a <= b, InBand(p, a + b)
  PROVE  b <= p => InBand(b, a + b)
<1>1. MaxDeviation * (a + b) \in Nat
  BY Deviation
<1> QED  BY <1>1 DEF InBand

\* A middle quote is in the band when one further below is.
LEMMA NearerBelowIsKept ==
  ASSUME NEW a \in Nat, NEW b \in Nat, NEW p \in Nat, a <= b, InBand(p, a + b)
  PROVE  p <= a => InBand(a, a + b)
<1>1. MaxDeviation * (a + b) \in Nat
  BY Deviation
<1> QED  BY <1>1 DEF InBand

\* If every honest quote of K is below its lower middle one, or above the upper one,
\* then K is the liar's alone.
LEMMA LiarIsAlone ==
  ASSUME NEW q, NEW K, Quotes(q, K),
         \/ \A v \in K \ {Liar} : q[v] < Lower(q, K)
         \/ \A v \in K \ {Liar} : q[v] > Upper(q, K)
  PROVE  K \ {Liar} = {}
<1> DEFINE m == Cardinality(K)
           h == Cardinality(K \ {Liar})
           below == {v \in K : q[v] < Lower(q, K)}
           upTo == {v \in K : q[v] <= Upper(q, K)}
<1>1. IsFiniteSet(K) /\ m \in Nat /\ h \in Nat /\ m <= h + 1 /\ h <= m
  BY HonestCount DEF Quotes
<1>2. Cardinality(below) < (m + 1) \div 2 /\ Cardinality(upTo) >= (m + 2) \div 2
  BY MiddleCounts
<1>3. below \in SUBSET K /\ upTo \in SUBSET K /\ K \ upTo \in SUBSET K
  OBVIOUS
<1>4. /\ Cardinality(below) \in Nat /\ IsFiniteSet(below) /\ Cardinality(upTo) \in Nat
      /\ IsFiniteSet(K \ upTo) /\ Cardinality(K \ upTo) = m - Cardinality(upTo)
  BY <1>1, <1>3, CountInside
<1>5. Upper(q, K) \in Nat /\ \A v \in K : q[v] \in Nat
  BY Middles DEF Quotes
<1>6. h = 0
  <2>1. CASE \A v \in K \ {Liar} : q[v] < Lower(q, K)
    <3>1. K \ {Liar} \in SUBSET below
      BY <2>1
    <3> HIDE DEF below
    <3>2. h <= Cardinality(below)
      BY <1>4, <3>1, CountInside
    <3> HIDE DEF m, h
    <3> QED  BY <1>1, <1>2, <1>4, <3>2
  <2>2. CASE \A v \in K \ {Liar} : q[v] > Upper(q, K)
    <3>1. K \ {Liar} \in SUBSET (K \ upTo)
      BY <1>5, <2>2
    <3> HIDE DEF upTo
    <3>2. h <= m - Cardinality(upTo)
      BY <1>4, <3>1, CountInside
    <3> HIDE DEF m, h
    <3> QED  BY <1>1, <1>2, <1>4, <3>2
  <2> QED  BY <2>1, <2>2
<1>7. IsFiniteSet(K \ {Liar})
  BY FS_Subset DEF Quotes
<1> QED  BY <1>6, <1>7, FS_EmptySet

\* What the band around an honest median keeps, and how far its median can be.
LEMMA BoundedAbove ==
  ASSUME NEW q, NEW V, NEW lo, NEW hi, MostlyHonest(q, V, lo, hi), Kept(q, V) # {}
  PROVE  DoubledMedian(q, Kept(q, V)) * 20000 <= 2 * hi * (20000 + MaxDeviation)
<1> DEFINE K == Kept(q, V)
           a == Lower(q, V)
           b == Upper(q, V)
           x == Lower(q, K)
           y == Upper(q, K)
<1>1. /\ Quotes(q, V) /\ hi \in Nat
      /\ \A v \in V \ {Liar} : q[v] <= hi
  BY DEF MostlyHonest
<1>2. K = {v \in V : InBand(q[v], a + b)}
  BY <1>1, KeptIs, Middles
<1>3. Quotes(q, K)
  BY <1>1, <1>2, FS_Subset DEF Quotes
<1>4. a \in Nat /\ b \in Nat /\ a <= b /\ b <= hi
  BY <1>1, Middles, MedianIsHonest
<1> HIDE DEF K
<1>5. x \in Nat /\ y \in Nat /\ x <= y /\ DoubledMedian(q, K) = x + y
  BY <1>3, Middles
<1>6. 2 * hi * (20000 + MaxDeviation) = 40000 * hi + 2 * (hi * MaxDeviation)
      /\ hi * MaxDeviation \in Nat
  BY <1>1, Deviation
<1>7. CASE y <= hi
  BY <1>1, <1>5, <1>6, <1>7 DEF K
<1>8. CASE y > hi
  <2>1. PICK v \in K : q[v] = y
    BY <1>3, Middles
  <2>2. InBand(y, a + b)
    BY <1>2, <2>1
  <2>3. PICK w \in V : q[w] = b
    BY <1>1, Middles
  <2> HIDE DEF a, b, x, y
  <2>4. w \in K
    <3>1. b <= y
      BY <1>1, <1>4, <1>5, <1>8
    <3>2. InBand(b, a + b)
      BY <1>4, <1>5, <2>2, <3>1, NearerIsKept
    <3> QED  BY <1>2, <2>3, <3>2
  <2>5. x <= hi
    <3> SUFFICES ASSUME x > hi PROVE FALSE
      BY <1>1, <1>5
    <3>1. \A u \in K \ {Liar} : q[u] < Lower(q, K)
      <4>1. \A u \in K : u \in V /\ q[u] \in Nat
        BY <1>2, <1>3 DEF Quotes
      <4> QED  BY <1>1, <1>5, <4>1 DEF x
    <3>2. K \ {Liar} = {}
      BY <1>3, <3>1, LiarIsAlone
    <3>3. v = w
      BY <2>1, <2>4, <3>2
    <3> QED  BY <1>1, <1>4, <1>5, <1>8, <2>1, <2>3, <3>3
  <2>6. 20000 * y <= 20000 * hi + 2 * (hi * MaxDeviation)
    <3>1. 20000 * y <= (a + b) * (10000 + MaxDeviation)
      <4>1. a + b \in Nat
        BY <1>4
      <4>2. 20000 * y <= (10000 + MaxDeviation) * (a + b)
        BY <1>5, <2>2, <4>1, BandEdges
      <4> QED  BY <4>1, <4>2, Deviation
    <3>2. (a + b) * (10000 + MaxDeviation) <= (2 * hi) * (10000 + MaxDeviation)
      <4>1. a + b \in Int /\ 2 * hi \in Int /\ a + b <= 2 * hi
        BY <1>1, <1>4
      <4>2. 10000 + MaxDeviation \in Int /\ 10000 + MaxDeviation >= 0
        BY Deviation
      <4> QED  BY <4>1, <4>2, Order
    <3>3. (2 * hi) * (10000 + MaxDeviation) = 20000 * hi + 2 * (hi * MaxDeviation)
      BY <1>1, Deviation
    <3>4. (a + b) * (10000 + MaxDeviation) \in Int /\ 20000 * y \in Int
      BY <1>4, <1>5, Deviation
    <3> QED  BY <1>1, <1>6, <3>1, <3>2, <3>3, <3>4
  <2> QED  BY <1>1, <1>5, <1>6, <2>5, <2>6 DEF K
<1> QED  BY <1>1, <1>5, <1>7, <1>8

\* The price is at most half a band below the honest quotes.
LEMMA BoundedBelow ==
  ASSUME NEW q, NEW V, NEW lo, NEW hi, MostlyHonest(q, V, lo, hi), Kept(q, V) # {}
  PROVE  DoubledMedian(q, Kept(q, V)) * 20000 >= 2 * lo * (20000 - MaxDeviation)
<1> DEFINE K == Kept(q, V)
           a == Lower(q, V)
           b == Upper(q, V)
           x == Lower(q, K)
           y == Upper(q, K)
<1>1. /\ Quotes(q, V) /\ lo \in Nat
      /\ \A v \in V \ {Liar} : lo <= q[v]
  BY DEF MostlyHonest
<1>2. K = {v \in V : InBand(q[v], a + b)}
  BY <1>1, KeptIs, Middles
<1>3. Quotes(q, K)
  BY <1>1, <1>2, FS_Subset DEF Quotes
<1>4. a \in Nat /\ b \in Nat /\ a <= b /\ lo <= a
  BY <1>1, Middles, MedianIsHonest
<1> HIDE DEF K
<1>5. x \in Nat /\ y \in Nat /\ x <= y /\ DoubledMedian(q, K) = x + y
  BY <1>3, Middles
<1>6. 2 * lo * (20000 - MaxDeviation) = 40000 * lo - 2 * (lo * MaxDeviation)
      /\ lo * MaxDeviation \in Nat
  BY <1>1, Deviation
<1>7. CASE x >= lo
  BY <1>1, <1>5, <1>6, <1>7 DEF K
<1>8. CASE x < lo
  <2>1. PICK v \in K : q[v] = x
    BY <1>3, Middles
  <2>2. InBand(x, a + b)
    BY <1>2, <2>1
  <2>3. PICK w \in V : q[w] = a
    BY <1>1, Middles
  <2> HIDE DEF a, b, x, y
  <2>4. w \in K
    <3>1. x <= a
      BY <1>1, <1>4, <1>5, <1>8
    <3>2. InBand(a, a + b)
      BY <1>4, <1>5, <2>2, <3>1, NearerBelowIsKept
    <3> QED  BY <1>2, <2>3, <3>2
  <2>5. y >= lo
    <3> SUFFICES ASSUME y < lo PROVE FALSE
      BY <1>1, <1>5
    <3>1. \A u \in K \ {Liar} : q[u] > Upper(q, K)
      <4>1. \A u \in K : u \in V /\ q[u] \in Nat
        BY <1>2, <1>3 DEF Quotes
      <4> QED  BY <1>1, <1>5, <4>1 DEF y
    <3>2. K \ {Liar} = {}
      BY <1>3, <3>1, LiarIsAlone
    <3>3. v = w
      BY <2>1, <2>4, <3>2
    <3> QED  BY <1>1, <1>4, <1>5, <1>8, <2>1, <2>3, <3>3
  <2>6. 20000 * x >= 20000 * lo - 2 * (lo * MaxDeviation)
    <3>1. 20000 * x >= (a + b) * (10000 - MaxDeviation)
      <4>1. a + b \in Nat
        BY <1>4
      <4>2. (10000 - MaxDeviation) * (a + b) <= 20000 * x
        BY <1>5, <2>2, <4>1, BandEdges
      <4> QED  BY <4>1, <4>2, Deviation
    <3>2. (2 * lo) * (10000 - MaxDeviation) <= (a + b) * (10000 - MaxDeviation)
      <4>1. a + b \in Int /\ 2 * lo \in Int /\ 2 * lo <= a + b
        BY <1>1, <1>4
      <4>2. 10000 - MaxDeviation \in Int /\ 10000 - MaxDeviation >= 0
        BY Deviation
      <4> QED  BY <4>1, <4>2, Order
    <3>3. (2 * lo) * (10000 - MaxDeviation) = 20000 * lo - 2 * (lo * MaxDeviation)
      BY <1>1, Deviation
    <3>4. (a + b) * (10000 - MaxDeviation) \in Int /\ 20000 * x \in Int
      BY <1>4, <1>5, Deviation
    <3> QED  BY <1>1, <1>6, <3>1, <3>2, <3>3, <3>4
  <2> QED  BY <1>1, <1>5, <1>6, <2>5, <2>6 DEF K
<1> QED  BY <1>1, <1>5, <1>7, <1>8

-----------------------------------------------------------------------------
(* What reconcile returns. *)

\* Each venue's quote is a price or missing.
Answers(q) == \A v \in Venue : q[v] \in (Nat \ {0}) \cup {NoQuote}

Usable(q) == {v \in Venue : q[v] # NoQuote}

\* The outcomes of reconcile and what each rests on.
LEMMA Reconciled ==
  ASSUME NEW q, Answers(q)
  PROVE  \/ /\ Reconcile(q, Venue) = Rejected
            /\ \/ Cardinality(Usable(q)) < MinSources
               \/ Cardinality(Kept(q, Usable(q))) < MinSources
         \/ /\ Reconcile(q, Venue) = DoubledMedian(q, Kept(q, Usable(q)))
            /\ Reconcile(q, Venue) \in Nat \ {0}
            /\ Quotes(q, Usable(q)) /\ Quotes(q, Kept(q, Usable(q)))
            /\ Cardinality(Kept(q, Usable(q))) >= MinSources
<1> DEFINE U == Usable(q)
           K == Kept(q, U)
<1>1. IsFiniteSet(U)
  BY PricesAssumption, FS_Subset DEF Usable
<1>2. Reconcile(q, Venue) = IF Cardinality(U) < MinSources \/ Cardinality(K) < MinSources
                              THEN Rejected ELSE DoubledMedian(q, K)
  BY DEF Reconcile, Usable
<1>3. CASE Cardinality(U) < MinSources \/ Cardinality(K) < MinSources
  BY <1>2, <1>3
<1>4. CASE ~(Cardinality(U) < MinSources \/ Cardinality(K) < MinSources)
  <2>1. Cardinality(U) \in Nat /\ MinSources \in Nat \ {0}
    BY <1>1, FS_CardinalityType, PricesAssumption
  <2>2. U # {}
    BY <1>4, <2>1, FS_EmptySet
  <2>3. Quotes(q, U)
    BY <1>1, <2>2 DEF Quotes, Usable, Answers
  <2>4. K \in SUBSET U
    BY <2>3, KeptIs
  <2>5. IsFiniteSet(K) /\ Cardinality(K) \in Nat
    BY <1>1, <2>4, CountInside
  <2>6. K # {}
    BY <1>4, <2>1, <2>5, FS_EmptySet
  <2>7. Quotes(q, K)
    BY <2>3, <2>4, <2>5, <2>6 DEF Quotes
  <2>8. DoubledMedian(q, K) \in Nat \ {0}
    BY <2>7, Middles
  <2>9. Cardinality(K) >= MinSources
    BY <1>4, <2>1, <2>5
  <2> QED  BY <1>2, <1>4, <2>3, <2>7, <2>8, <2>9
<1> QED  BY <1>3, <1>4

-----------------------------------------------------------------------------
(* The inductive invariant. *)

\* Honest venues answer honestly, and a result is what reconcile made of all answers.
Reported ==
  /\ \A v \in Venue \ {Liar} : quote[v] \in Honest \cup {NoQuote}
  /\ result # Pending => result = Reconcile(quote, Venue)

PricesInv == TypeOK /\ Reported

\* Quotes are answers of venues.
LEMMA QuotesAreAnswers == TypeOK => Answers(quote)
<1>1. Honest \subseteq Nat \ {0} /\ Forged \subseteq Nat \ {0}
  BY PricesAssumption
<1> QED  BY <1>1 DEF TypeOK, Answers

\* What is reported, by sources.js, is the consensus of the answers that came in.
THEOREM PricesInvHolds == Spec => []PricesInv
<1>1. Init => PricesInv
  BY PricesAssumption DEF Init, PricesInv, TypeOK, Reported
<1>2. PricesInv /\ [Next]_vars => PricesInv'
  <2> SUFFICES ASSUME PricesInv, [Next]_vars PROVE PricesInv'
    OBVIOUS
  <2> USE DEF PricesInv
  <2>1. ASSUME NEW v \in Venue,
               NEW p \in (IF v = Liar THEN Forged ELSE Honest) \cup {NoQuote},
               Answer(v, p)
        PROVE  PricesInv'
    <3>1. result = Pending /\ result' = Pending
      BY <2>1 DEF Answer, TypeOK
    <3>2. TypeOK'
      BY <2>1, <3>1 DEF Answer, TypeOK
    <3>3. Reported'
      BY <2>1, <3>1 DEF Answer, Reported, TypeOK
    <3> QED  BY <3>2, <3>3
  <2>2. CASE Settle
    <3>1. result' = Reconcile(quote, Venue) /\ UNCHANGED <<waiting, quote>> /\ waiting = {}
      BY <2>2 DEF Settle
    <3>2. Reconcile(quote, Venue) \in {Pending, Rejected} \cup Nat
      BY QuotesAreAnswers, Reconciled
    <3>3. TypeOK'
      BY <3>1, <3>2 DEF TypeOK
    <3>4. Reported'
      <4> HIDE DEF Reconcile
      <4>1. Reconcile(quote, Venue)' = Reconcile(quote, Venue)
        BY <3>1
      <4> QED  BY <3>1, <4>1 DEF Reported
    <3> QED  BY <3>3, <3>4
  <2>3. CASE UNCHANGED vars
    <3>1. UNCHANGED <<waiting, quote, result>>
      BY <2>3 DEF vars
    <3>2. Reconcile(quote, Venue)' = Reconcile(quote, Venue)
      BY <3>1
    <3>3. TypeOK'
      BY <3>1 DEF TypeOK
    <3>4. Reported'
      BY <3>1, <3>2 DEF Reported
    <3> QED  BY <3>3, <3>4
  <2> QED  BY <2>1, <2>2, <2>3 DEF Next
<1> QED  BY <1>1, <1>2, PTL DEF Spec

\* The types of collectQuotes and reconcile, and that no price is set while a venue
\* may still answer.
THEOREM PricesAreTyped == Spec => []TypeOK
<1>1. PricesInv => TypeOK
  BY DEF PricesInv
<1> QED  BY <1>1, PricesInvHolds, PTL

\* A price that is set is the median of the quotes kept.
LEMMA PricedIs ==
  ASSUME PricesInv, Priced
  PROVE  /\ result = DoubledMedian(quote, Kept(quote, Quoted))
         /\ result \in Nat \ {0}
         /\ Quotes(quote, Quoted) /\ Quotes(quote, Kept(quote, Quoted))
         /\ Cardinality(Kept(quote, Quoted)) >= MinSources
<1>1. result = Reconcile(quote, Venue) /\ result # Rejected
  BY DEF PricesInv, Reported, Priced
<1>2. Answers(quote)
  BY QuotesAreAnswers DEF PricesInv
<1>3. Usable(quote) = Quoted
  BY DEF Usable, Quoted
<1> QED  BY <1>1, <1>2, <1>3, Reconciled

\* reconcile, for any number of venues of which one may quote what it likes: once two
\* honest ones quote, the price is at most half the deviation band outside the range
\* of the honest quotes.
THEOREM LiarIsOutvoted == Spec => []HonestMajorityBounds
<1>1. PricesInv => HonestMajorityBounds
  <2> SUFFICES ASSUME PricesInv, Priced, Cardinality(Quoted \ {Liar}) >= 2
               PROVE  /\ result * 20000 <= 2 * Highest * (20000 + MaxDeviation)
                      /\ result * 20000 >= 2 * Lowest * (20000 - MaxDeviation)
    BY DEF HonestMajorityBounds
  <2>1. /\ result = DoubledMedian(quote, Kept(quote, Quoted))
        /\ Quotes(quote, Quoted) /\ Kept(quote, Quoted) # {}
    BY PricedIs DEF Quotes
  <2>2. \A v \in Quoted \ {Liar} : Lowest <= quote[v] /\ quote[v] <= Highest
    <3>1. \A v \in Quoted \ {Liar} : quote[v] \in Honest
      BY DEF Quoted, PricesInv, Reported
    <3>2. \A p \in Honest : p \in Lowest..Highest
      BY PricesAssumption
    <3>3. \A p \in Lowest..Highest : Lowest <= p /\ p <= Highest
      BY PricesAssumption
    <3> QED  BY <3>1, <3>2, <3>3
  <2>3. MostlyHonest(quote, Quoted, Lowest, Highest)
    BY <2>1, <2>2, PricesAssumption DEF MostlyHonest
  <2> QED  BY <2>1, <2>3, BoundedAbove, BoundedBelow
<1> QED  BY <1>1, PricesInvHolds, PTL

\* reconcile asks for minSources venues in agreement.  With the methodology's two or
\* more, at least two venues quoted within one band of the price it returns, however
\* far trimming moved the median.
THEOREM NoPriceOfOneVenue ==
  ASSUME MinSources >= 2
  PROVE  Spec => []PriceIsCorroborated
<1>1. PricesInv => PriceIsCorroborated
  <2> SUFFICES ASSUME PricesInv, Priced
               PROVE  Cardinality({v \in Quoted : InBand(quote[v], result)}) >= 2
    BY DEF PriceIsCorroborated, InBand
  <2> DEFINE K == Kept(quote, Quoted)
             r == DoubledMedian(quote, Quoted)
  <2>1. /\ result = DoubledMedian(quote, K)
        /\ Quotes(quote, Quoted) /\ Quotes(quote, K)
        /\ Cardinality(K) >= MinSources
    BY PricedIs
  <2>2. Cardinality(K) >= 2
    <3>1. Cardinality(K) \in Nat
      BY <2>1, FS_CardinalityType DEF Quotes
    <3> HIDE DEF K
    <3> QED  BY <2>1, <3>1, PricesAssumption
  <2>3. r \in Nat /\ K = {v \in Quoted : InBand(quote[v], r)}
    BY <2>1, KeptIs
  <2> HIDE DEF K, r
  <2>4. PICK v \in K, w \in K : v # w /\ InBand(quote[v], result) /\ InBand(quote[w], result)
    <3>1. \A v \in K : InBand(quote[v], r)
      BY <2>3
    <3> QED  BY <2>1, <2>2, <2>3, <3>1, TwoAreNear
  <2> DEFINE near == {u \in Quoted : InBand(quote[u], result)}
  <2>5. v \in near /\ w \in near
    BY <2>3, <2>4
  <2>6. IsFiniteSet(near)
    BY <2>1, FS_Subset DEF Quotes
  <2> HIDE DEF near
  <2>7. Cardinality(near) >= 2
    BY <2>4, <2>5, <2>6, TwoMembers
  <2> QED  BY <2>7 DEF near
<1> QED  BY <1>1, PricesInvHolds, PTL

\* reconcile drops an asset for disagreement only when its venues disagree: if no two
\* usable quotes are further apart than the band, none is trimmed.
THEOREM AgreementPrices == Spec => []AgreementIsPriced
<1>1. PricesInv => AgreementIsPriced
  <2> SUFFICES ASSUME PricesInv, result = Rejected, Cardinality(Quoted) >= MinSources,
                      ~ \E v, w \in Quoted :
                          (quote[v] - quote[w]) * 10000 > MaxDeviation * quote[w]
               PROVE  FALSE
    BY DEF AgreementIsPriced
  <2>1. Answers(quote) /\ Usable(quote) = Quoted
    BY QuotesAreAnswers DEF PricesInv, Usable, Quoted
  <2>2. result = Reconcile(quote, Venue)
    BY DEF PricesInv, Reported, Rejected, Pending
  <2>3. IsFiniteSet(Quoted) /\ Cardinality(Quoted) \in Nat /\ MinSources \in Nat \ {0}
    BY PricesAssumption, FS_Subset, FS_CardinalityType DEF Quoted
  <2>4. Quoted # {}
    BY <2>3, FS_EmptySet
  <2>5. Quotes(quote, Quoted)
    BY <2>1, <2>3, <2>4 DEF Quotes, Answers, Quoted
  <2>6. Agree(quote, Quoted)
    <3>1. ASSUME NEW v \in Quoted, NEW w \in Quoted
          PROVE  (quote[v] - quote[w]) * 10000 <= MaxDeviation * quote[w]
      <4>1. quote[v] \in Nat /\ quote[w] \in Nat
        BY <2>5 DEF Quotes
      <4>2. MaxDeviation * quote[w] \in Int
        BY <4>1, Deviation
      <4> QED  BY <4>1, <4>2
    <3> QED  BY <3>1 DEF Agree
  <2>7. Kept(quote, Quoted) = Quoted
    BY <2>5, <2>6, AllKept
  <2>8. Reconcile(quote, Venue) \in Nat \/ Cardinality(Quoted) < MinSources
    BY <2>1, <2>7, Reconciled
  <2> QED  BY <2>2, <2>3, <2>8 DEF Rejected
<1> QED  BY <1>1, PricesInvHolds, PTL
=============================================================================
