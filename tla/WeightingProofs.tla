-------------------------- MODULE WeightingProofs --------------------------
(***************************************************************************)
(* For every basket, target size and cap, the loop of weight is never cut  *)
(* short by its bound.  Each pass that goes on caps a name that was free,  *)
(* so there are at least as many capped names as passes; after one pass    *)
(* per name none is free, and only a free name can be over the cap.  What  *)
(* names weigh does not matter to the argument.                            *)
(***************************************************************************)
EXTENDS Weighting, FoldProofs

\* The state of the loop: a pass has been paid for with a capped name each.
WeightInv ==
  /\ Len(mcap) \in Nat
  /\ capped \subseteq Names
  /\ pass \in Nat
  /\ pass <= Cardinality(capped)
  /\ step = "idle" => capped = {} /\ pass = 0
  /\ BoundNeverBites

-----------------------------------------------------------------------------
\* Sets of names are finite, with no more members than there are names.
LEMMA CappedIsFinite ==
  ASSUME NEW n \in Nat, NEW S \in SUBSET (1..n)
  PROVE  /\ IsFiniteSet(S)
         /\ Cardinality(S) \in Nat
         /\ Cardinality(S) <= n
         /\ Cardinality(S) = n => S = 1..n
<1>1. IsFiniteSet(1..n) /\ Cardinality(1..n) = n
  BY FS_Interval
<1>2. IsFiniteSet(S) /\ Cardinality(S) <= n /\ (Cardinality(S) = n => S = 1..n)
  BY <1>1, FS_Subset
<1> QED  BY <1>2, FS_CardinalityType

\* Adding a new member, whatever else is added, makes a finite set larger.
LEMMA MoreAreCapped ==
  ASSUME NEW n \in Nat, NEW S \in SUBSET (1..n), NEW T \in SUBSET (1..n),
         T \cap S = {}, T # {}
  PROVE  Cardinality(S \cup T) >= Cardinality(S) + 1
<1>1. PICK t \in T : t \notin S
  OBVIOUS
<1>2. IsFiniteSet(S) /\ Cardinality(S) \in Nat
  BY CappedIsFinite
<1>3. Cardinality(S \cup {t}) = Cardinality(S) + 1
  BY <1>1, <1>2, FS_AddElement
<1>4. IsFiniteSet(S \cup T)
  <2>1. S \cup T \in SUBSET (1..n)
    OBVIOUS
  <2> QED  BY <2>1, CappedIsFinite
<1>5. S \cup {t} \in SUBSET (S \cup T)
  BY <1>1
<1>6. Cardinality(S \cup {t}) <= Cardinality(S \cup T)
  BY <1>4, <1>5, FS_Subset
<1> QED
  <2>1. Cardinality(S \cup T) \in Nat
    BY <1>4, FS_CardinalityType
  <2> QED  BY <1>2, <1>3, <1>6, <2>1

\* A name over the cap is not capped yet.
LEMMA BreachingIsFree == Breaching \subseteq Names /\ Breaching \cap capped = {}
  BY DEF Breaching, Free

-----------------------------------------------------------------------------
\* The counting invariant holds initially,
LEMMA InitInv == WeightInit => WeightInv
<1> SUFFICES ASSUME WeightInit PROVE WeightInv
  OBVIOUS
<1>1. Len(mcap) \in Nat /\ capped = {} /\ pass = 0 /\ step = "idle"
  BY DEF WeightInit
<1>2. Cardinality(capped) = 0
  BY <1>1, FS_EmptySet
<1> QED  BY <1>1, <1>2 DEF WeightInv, BoundNeverBites

\* The names over the cap depend on the basket and on the capped names alone.
LEMMA SameBreaching ==
  ASSUME UNCHANGED <<mcap, capped>>
  PROVE  Breaching' = Breaching /\ Names' = Names
  BY DEF Breaching, Free, Names, Num, Den, TotalOf, Remaining

\* a pass that caps names keeps it,
LEMMA CapInv ==
  ASSUME WeightInv, Cap
  PROVE  WeightInv'
<1>1. /\ capped' = capped \cup Breaching /\ pass' = pass + 1
      /\ UNCHANGED <<mcap, step>> /\ step = "cap" /\ Breaching # {}
  BY DEF Cap
<1>2. Names' = Names /\ Names = 1..Len(mcap)
  BY <1>1 DEF Names
<1>3. capped' \subseteq Names'
  BY <1>1, <1>2, BreachingIsFree DEF WeightInv
<1>4. Cardinality(capped') >= Cardinality(capped) + 1
  BY <1>1, <1>2, BreachingIsFree, MoreAreCapped DEF WeightInv
<1>5. Cardinality(capped) \in Nat /\ Cardinality(capped') \in Nat
  BY <1>1, <1>2, <1>3, CappedIsFinite DEF WeightInv
<1> QED  BY <1>1, <1>3, <1>4, <1>5 DEF WeightInv, BoundNeverBites

\* When the bound of passes is used up every name is capped.
LEMMA StopInv ==
  ASSUME WeightInv, Stop
  PROVE  WeightInv'
<1>1. /\ UNCHANGED <<mcap, capped, pass>> /\ step' = "round"
      /\ Breaching = {} \/ pass = Len(mcap)
  BY DEF Stop
<1>2. Breaching = {}
  <2>1. CASE Breaching = {}
    BY <2>1
  <2>2. CASE pass = Len(mcap)
    <3>1. Cardinality(capped) = Len(mcap) /\ capped = 1..Len(mcap)
      BY <2>2, CappedIsFinite DEF WeightInv, Names
    <3> QED  BY <3>1, BreachingIsFree DEF Names
  <2> QED  BY <1>1, <2>1, <2>2
<1>3. Breaching' = {} /\ Names' = Names
  BY <1>1, <1>2, SameBreaching
<1> QED  BY <1>1, <1>3 DEF WeightInv, BoundNeverBites

\* and so does every step.
LEMMA StepInv == WeightInv /\ [WeightNext]_weightVars => WeightInv'
<1> SUFFICES ASSUME WeightInv, [WeightNext]_weightVars PROVE WeightInv'
  OBVIOUS
<1>1. CASE Begin
  <2>1. Len(mcap') \in Nat /\ UNCHANGED <<capped, pass>> /\ step = "idle" /\ step' = "cap"
    BY <1>1 DEF Begin
  <2> QED  BY <2>1 DEF WeightInv, BoundNeverBites
<1>2. CASE Refuse
  <2>1. UNCHANGED <<mcap, capped, pass>> /\ step' = "refused"
    BY <1>2 DEF Refuse
  <2> QED  BY <2>1, SameBreaching DEF WeightInv, BoundNeverBites
<1>3. CASE Cap
  BY <1>3, CapInv
<1>4. CASE Stop
  BY <1>4, StopInv
<1>5. CASE ToBasisPoints
  <2>1. UNCHANGED <<mcap, capped, pass>> /\ step = "round" /\ step' = "done"
    BY <1>5 DEF ToBasisPoints
  <2> QED  BY <2>1, SameBreaching DEF WeightInv, BoundNeverBites
<1>6. CASE UNCHANGED weightVars
  <2>1. UNCHANGED <<mcap, capped, pass, step>>
    BY <1>6 DEF weightVars
  <2> QED  BY <2>1, SameBreaching DEF WeightInv, BoundNeverBites
<1> QED  BY <1>1, <1>2, <1>3, <1>4, <1>5, <1>6 DEF WeightNext, Weigh

\* Whatever the capitalisations and the cap, the loop of weight ends because no
\* name is over the cap, never because its bound of one pass per name is reached.
THEOREM LoopEndsOfItself == WeightSpec => []BoundNeverBites
<1>1. WeightSpec => []WeightInv
  BY InitInv, StepInv, PTL DEF WeightSpec
<1>2. WeightInv => BoundNeverBites
  BY DEF WeightInv
<1> QED  BY <1>1, <1>2, PTL

-----------------------------------------------------------------------------
(* The weights.  Every pass takes more from the names over the cap than it *)
(* gives them, so what is left for the others stays positive, and their    *)
(* scale only grows.                                                       *)

\* After the first pass and after every other: some name is free and has
\* something left for it, and a capped name would be at the cap or over it at
\* the present scale.
Waterfill ==
  /\ Len(mcap) > 0
  /\ Free # {}
  /\ Remaining > 0
  /\ \A i \in capped : mcap[i] * Remaining >= CapBps * TotalOf(Free)

\* BpsAreFaithful, with the fold as a sum.
Faithful ==
  step = "done" =>
    /\ SumOf(bps, Names) = TotalBps
    /\ \A i \in Names :
         LET off == 2 * (bps[i] * Den(i) - Num(i))
             slack == (IF i = 1 THEN Len(mcap) - 1 ELSE 1) * Den(i)
         IN -slack <= off /\ off <= slack

FillInv ==
  /\ WeightTypeOK
  /\ WeightInv
  /\ \A i \in Names : mcap[i] <= mcap[1]
  /\ step = "idle" => capped = {} /\ pass = 0
  /\ step # "idle" => Waterfill
  /\ Faithful

\* TotalOf is a sum.
LEMMA TotalIsSum == \A S : TotalOf(S) = SumOf(mcap, S)
BY DEF TotalOf, SumOver, SumOf

\* What the provers need to know of products.
LEMMA ProductOrder ==
  /\ \A a, b, c \in Int : a <= b /\ c >= 0 => a * c <= b * c
  /\ \A a, b, c \in Int : a * c <= b * c /\ c > 0 => a <= b
  /\ \A a, b, c \in Int : a * c < b * c /\ c >= 0 => a < b
OBVIOUS

\* One pass: the share of the capped was more than the caps of their number.
LEMMA PassArithmetic ==
  ASSUME NEW r \in Int, NEW t \in Int, NEW c \in Int, NEW k \in Int, NEW b \in Int,
         r > 0, t > 0, b <= t, c * k * t < b * r
  PROVE  /\ r - c * k > 0
         /\ r * (t - b) <= (r - c * k) * t
<1> DEFINE ck == c * k
<1>1. ck \in Int /\ ck * t < b * r
  OBVIOUS
<1> HIDE DEF ck
<1>2. b * r <= t * r
  BY ProductOrder
<1>3. ck * t < r * t
  <2>1. t * r = r * t /\ ck * t \in Int /\ b * r \in Int /\ r * t \in Int
    BY <1>1
  <2> QED  BY <1>1, <1>2, <2>1
<1>4. ck < r
  BY <1>1, <1>3, ProductOrder
<1>5. r * (t - b) = r * t - b * r /\ (r - ck) * t = r * t - ck * t
  BY <1>1
<1>6. r * (t - b) <= (r - ck) * t
  <2>1. ck * t \in Int /\ b * r \in Int /\ r * t \in Int
    BY <1>1
  <2> QED  BY <1>1, <1>5, <2>1
<1> QED  BY <1>1, <1>4, <1>6 DEF ck

\* A name at or over the cap at one scale is so at a higher one.
LEMMA ScaleGrows ==
  ASSUME NEW m \in Int, NEW c \in Int, NEW r \in Int, NEW t \in Int,
         NEW r1 \in Int, NEW t1 \in Int,
         m > 0, t > 0, t1 >= 0, r * t1 <= r1 * t, c * t <= m * r
  PROVE  c * t1 <= m * r1
<1>1. (c * t) * t1 <= (m * r) * t1
  BY ProductOrder
<1>2. (r * t1) * m <= (r1 * t) * m
  BY ProductOrder
<1>3. (m * r) * t1 = (r * t1) * m /\ (r1 * t) * m = (m * r1) * t /\ (c * t) * t1 = (c * t1) * t
  OBVIOUS
<1>4. (c * t1) * t <= (m * r1) * t
  BY <1>1, <1>2, <1>3
<1> QED  BY <1>4, ProductOrder

-----------------------------------------------------------------------------
\* Capitalisations are positive, and so is their sum over any names.
LEMMA TotalIsPositive ==
  ASSUME mcap \in Seq(Nat \ {0}), NEW S \in SUBSET Names
  PROVE  /\ OfNumbers(mcap, S)
         /\ \A i \in S : mcap[i] \in Nat \ {0}
         /\ TotalOf(S) \in Nat
         /\ S # {} => TotalOf(S) > 0
<1>1. Len(mcap) \in Nat /\ \A i \in Names : mcap[i] \in Nat \ {0}
  BY DEF Names
<1>2. OfNumbers(mcap, S)
  BY <1>1, CappedIsFinite DEF Names, OfNumbers
<1> DEFINE zero == [i \in S |-> 0]
<1>3. OfNumbers(zero, S) /\ SumOf(zero, S) = 0
  <2>1. \A i \in S : zero[i] = 0
    OBVIOUS
  <2>2. IsFiniteSet(S) /\ Cardinality(S) \in Nat
    BY <1>1, CappedIsFinite DEF Names
  <2> HIDE DEF zero
  <2> QED  BY <2>1, <2>2, SumConstant
<1>4. \A i \in S : zero[i] <= mcap[i] /\ zero[i] < mcap[i]
  BY <1>1
<1> HIDE DEF zero
<1>5. SumOf(zero, S) <= SumOf(mcap, S) /\ (S # {} => SumOf(zero, S) < SumOf(mcap, S))
  BY <1>2, <1>3, <1>4, SumAtMost, SumBelow
<1> QED  BY <1>1, <1>2, <1>3, <1>5, SumInt, TotalIsSum

\* A smaller set has no larger total, and what it lacks has the rest.
LEMMA TotalOfRest ==
  ASSUME mcap \in Seq(Nat \ {0}), NEW S \in SUBSET Names, NEW B \in SUBSET S
  PROVE  TotalOf(S) = TotalOf(B) + TotalOf(S \ B) /\ TotalOf(B) <= TotalOf(S)
<1>1. TotalOf(S) = TotalOf(B) + TotalOf(S \ B)
  <2>1. OfNumbers(mcap, S)
    BY TotalIsPositive
  <2>2. SumOf(mcap, S) = SumOf(mcap, B) + SumOf(mcap, S \ B)
    BY <2>1, SumSplit
  <2> QED  BY <2>2, TotalIsSum
<1>2. TotalOf(S) \in Nat /\ TotalOf(B) \in Nat /\ TotalOf(S \ B) \in Nat
  BY TotalIsPositive
<1> QED  BY <1>1, <1>2

\* If each name of a set is over the cap, so is the set.
LEMMA BreachingTotal ==
  ASSUME mcap \in Seq(Nat \ {0}), NEW B \in SUBSET Names, B # {},
         NEW r \in Int, NEW c \in Int, NEW t \in Int,
         \A i \in B : c * t < mcap[i] * r
  PROVE  c * Cardinality(B) * t < TotalOf(B) * r
<1> DEFINE g == [i \in B |-> c * t]
           h == [i \in B |-> r * mcap[i]]
<1>1. IsFiniteSet(B) /\ Cardinality(B) \in Nat /\ c * t \in Int
  BY CappedIsFinite DEF Names
<1>2. OfNumbers(g, B) /\ SumOf(g, B) = (c * t) * Cardinality(B)
  <2>1. \A i \in B : g[i] = c * t
    OBVIOUS
  <2> HIDE DEF g
  <2> QED  BY <1>1, <2>1, SumConstant
<1>3. OfNumbers(mcap, B) /\ SumOf(mcap, B) \in Int
  BY TotalIsPositive, SumInt
<1>4. OfNumbers(h, B) /\ SumOf(h, B) = r * SumOf(mcap, B)
  BY <1>3, SumTimes
<1>5. SumOf(g, B) < SumOf(h, B)
  <2>1. \A i \in B : g[i] < h[i]
    <3>1. \A i \in B : mcap[i] \in Int /\ r * mcap[i] = mcap[i] * r
      BY <1>3 DEF OfNumbers
    <3> QED  BY <3>1
  <2> HIDE DEF g, h
  <2> QED  BY <1>2, <1>4, <2>1, SumBelow
<1>6. /\ (c * t) * Cardinality(B) = c * Cardinality(B) * t
      /\ r * SumOf(mcap, B) = SumOf(mcap, B) * r
  BY <1>1, <1>3
<1> QED  BY <1>2, <1>4, <1>5, <1>6, TotalIsSum

\* Names apart are counted apart.
LEMMA CountOfUnion ==
  ASSUME NEW n \in Nat, NEW S \in SUBSET (1..n), NEW T \in SUBSET (1..n), S \cap T = {}
  PROVE  /\ Cardinality(S \cup T) = Cardinality(S) + Cardinality(T)
         /\ Cardinality(S) \in Nat /\ Cardinality(T) \in Nat
<1>1. IsFiniteSet(S) /\ IsFiniteSet(T) /\ IsFiniteSet(S \cap T)
      /\ Cardinality(S) \in Nat /\ Cardinality(T) \in Nat /\ Cardinality(S \cap T) = 0
  BY CappedIsFinite, FS_EmptySet
<1>2. Cardinality(S \cup T) = Cardinality(S) + Cardinality(T) - Cardinality(S \cap T)
  BY <1>1, FS_Union
<1> QED  BY <1>1, <1>2

\* A pass that caps names keeps Waterfill.
LEMMA CapFills ==
  ASSUME WeightTypeOK, Waterfill, Cap
  PROVE  Waterfill'
<1> DEFINE B == Breaching
           k == Cardinality(B)
           R == Remaining
           T == TotalOf(Free)
<1>1. /\ mcap \in Seq(Nat \ {0}) /\ Len(mcap) \in Nat /\ capped \in SUBSET Names
      /\ mcap' = mcap /\ capped' = capped \cup B /\ B # {} /\ Satisfiable
      /\ TotalBps \in Nat /\ CapBps \in Nat \ {0}
  BY WeightingAssumption DEF WeightTypeOK, Cap
<1>2. /\ Free \in SUBSET Names /\ B \in SUBSET Free /\ B \in SUBSET Names
      /\ Free' = Free \ B /\ Names' = Names
  BY <1>1 DEF Free, Breaching, Names
<1>3. /\ T \in Nat /\ T > 0 /\ TotalOf(B) \in Nat /\ TotalOf(Free \ B) \in Nat
      /\ T = TotalOf(B) + TotalOf(Free \ B)
  BY <1>1, <1>2, TotalIsPositive, TotalOfRest DEF Waterfill
<1>4. Cardinality(capped \cup B) = Cardinality(capped) + k
      /\ Cardinality(capped) \in Nat /\ k \in Nat
  <2>1. /\ Len(mcap) \in Nat /\ capped \in SUBSET (1..Len(mcap))
        /\ B \in SUBSET (1..Len(mcap)) /\ capped \cap B = {}
    BY <1>1, <1>2, BreachingIsFree DEF Names
  <2> HIDE DEF B
  <2> QED  BY <2>1, CountOfUnion
<1>5. R \in Int /\ R > 0
  BY <1>1, <1>4 DEF Remaining, Waterfill
<1>6. Remaining' = R - CapBps * k /\ TotalOf(Free)' = TotalOf(Free \ B)
  <2>1. Remaining' = TotalBps - CapBps * Cardinality(capped \cup B)
    BY <1>1 DEF Remaining
  <2>2. CapBps * (Cardinality(capped) + k) = CapBps * Cardinality(capped) + CapBps * k
    BY <1>1, <1>4, Distributes
  <2>3. CapBps * Cardinality(capped) \in Int /\ CapBps * k \in Int
    BY <1>1, <1>4
  <2>4. TotalOf(Free)' = TotalOf(Free \ B)
    <3>1. TotalOf(Free)' = SumOver(mcap', Free')
      BY DEF TotalOf
    <3> QED  BY <1>1, <1>2, <3>1 DEF TotalOf
  <2> QED  BY <1>1, <1>4, <2>1, <2>2, <2>3, <2>4 DEF Remaining
<1>7. \A i \in B : CapBps * T < mcap[i] * R
  BY <1>2 DEF Breaching, Num, Den, Free
<1>8. CapBps * k * T < TotalOf(B) * R
  <2>1. /\ mcap \in Seq(Nat \ {0}) /\ B \in SUBSET Names /\ B # {}
        /\ R \in Int /\ CapBps \in Int /\ T \in Int
    BY <1>1, <1>2, <1>3, <1>5
  <2> HIDE DEF R, T, B
  <2> QED  BY <1>7, <2>1, BreachingTotal, Zenon
<1>9. R - CapBps * k > 0 /\ R * (T - TotalOf(B)) <= (R - CapBps * k) * T
  <2>1. /\ R \in Int /\ T \in Int /\ CapBps \in Int /\ k \in Int /\ TotalOf(B) \in Int
        /\ R > 0 /\ T > 0 /\ TotalOf(B) <= T
    BY <1>1, <1>3, <1>4, <1>5
  <2> HIDE DEF R, T, B, k
  <2> QED  BY <1>8, <2>1, PassArithmetic, Zenon
<1>10. Free' # {}
  <2> SUFFICES ASSUME Free' = {} PROVE FALSE
    OBVIOUS
  <2>1. capped \cup B = 1..Len(mcap)
    BY <1>1, <1>2 DEF Free, Names
  <2>2. Cardinality(capped \cup B) = Len(mcap)
    <3>1. Cardinality(1..Len(mcap)) = Len(mcap)
      BY <1>1, FS_Interval
    <3> QED  BY <2>1, <3>1
  <2>3. Remaining' = TotalBps - CapBps * Len(mcap)
    BY <1>1, <2>2 DEF Remaining
  <2>4. CapBps * Len(mcap) \in Int /\ CapBps * Len(mcap) >= TotalBps
    BY <1>1 DEF Satisfiable
  <2> QED  BY <1>1, <1>6, <1>9, <2>3, <2>4
<1>11. ASSUME NEW i \in capped \cup B
       PROVE  CapBps * TotalOf(Free \ B) <= mcap[i] * (R - CapBps * k)
  <2>1. mcap[i] \in Nat \ {0}
    BY <1>1, <1>2, TotalIsPositive
  <2>2. CapBps * T <= mcap[i] * R
    <3>1. CapBps * T \in Int /\ mcap[i] * R \in Int
      BY <1>1, <1>3, <1>5, <2>1
    <3> QED  BY <1>7, <3>1 DEF Waterfill
  <2>3. T - TotalOf(B) = TotalOf(Free \ B) /\ R - CapBps * k \in Int
    BY <1>1, <1>3, <1>4, <1>5
  <2>4. /\ mcap[i] \in Int /\ CapBps \in Int /\ R \in Int /\ T \in Int
        /\ R - CapBps * k \in Int /\ TotalOf(Free \ B) \in Int
        /\ mcap[i] > 0 /\ T > 0 /\ TotalOf(Free \ B) >= 0
        /\ R * TotalOf(Free \ B) <= (R - CapBps * k) * T
    BY <1>1, <1>3, <1>5, <1>9, <2>1, <2>3
  <2> HIDE DEF R, T, B, k
  <2> QED  BY <2>2, <2>4, ScaleGrows, Zenon
<1>12. /\ Len(mcap') > 0 /\ Remaining' > 0
       /\ \A i \in capped' : mcap'[i] * Remaining' >= CapBps * TotalOf(Free)'
  <2>1. \A i \in capped \cup B :
          CapBps * TotalOf(Free \ B) \in Int /\ mcap[i] * (R - CapBps * k) \in Int
    <3>1. \A i \in capped \cup B : mcap[i] \in Nat
      BY <1>1, <1>2, TotalIsPositive
    <3>2. R - CapBps * k \in Int /\ TotalOf(Free \ B) \in Int /\ CapBps \in Int
      BY <1>1, <1>3, <1>4, <1>5
    <3> HIDE DEF R, T, B, k
    <3> QED  BY <3>1, <3>2
  <2> QED  BY <1>1, <1>6, <1>9, <1>11, <2>1 DEF Waterfill
<1> QED  BY <1>10, <1>12 DEF Waterfill

-----------------------------------------------------------------------------
(* The rounding to basis points. *)

\* Rounding halves up is off by half a unit at most.
LEMMA HalfUp ==
  ASSUME NEW a \in Nat, NEW b \in Nat \ {0}, NEW q, q = (2 * a + b) \div (2 * b)
  PROVE  q \in Nat /\ 2 * (b * q) <= 2 * a + b /\ 2 * a - b <= 2 * (b * q)
<1>1. \A x \in Nat, y \in Nat \ {0} :
        x \div y \in Nat /\ y * (x \div y) <= x /\ x < y * (x \div y) + y
  OBVIOUS
<1>2. 2 * a + b \in Nat /\ 2 * b \in Nat \ {0}
  OBVIOUS
<1>3. q \in Nat /\ (2 * b) * q <= 2 * a + b /\ 2 * a + b < (2 * b) * q + 2 * b
  BY <1>1, <1>2
<1>4. b * q \in Int /\ (2 * b) * q = 2 * (b * q)
  <2>1. \A x, y \in Int : x * y \in Int /\ (2 * x) * y = 2 * (x * y)
    OBVIOUS
  <2>2. b \in Int /\ q \in Int
    BY <1>3
  <2> QED  BY <2>1, <2>2, Zenon
<1> QED  BY <1>3, <1>4

\* A finite set of names has one that rounds to no less than any other.
LEMMA LargestExists ==
  ASSUME NEW f, NEW n \in Nat \ {0}, \A i \in 1..n : f[i] \in Nat
  PROVE  \E i \in 1..n : /\ \A j \in 1..n : f[j] <= f[i]
                         /\ \A j \in 1..(i - 1) : f[j] < f[i]
<1> DEFINE Bound == {b \in Nat : \A j \in 1..n : f[j] <= b}
           Top(b) == {i \in 1..n : f[i] = b}
<1>1. Bound # {}
  <2>1. OfNumbers(f, 1..n) /\ IsFiniteSet(1..n)
    BY FS_Interval DEF OfNumbers
  <2>2. SumOf(f, 1..n) \in Nat /\ \A j \in 1..n : f[j] <= SumOf(f, 1..n)
    BY <2>1, SumBounds
  <2> QED  BY <2>2
<1>2. PICK b \in Bound : \A c \in Bound : b <= c
  <2>1. Bound \in SUBSET Nat
    OBVIOUS
  <2> HIDE DEF Bound
  <2> QED  BY <1>1, <2>1, Least
<1>3. Top(b) # {}
  <2> SUFFICES ASSUME Top(b) = {} PROVE FALSE
    OBVIOUS
  <2>1. \A j \in 1..n : f[j] \in Nat /\ f[j] <= b /\ f[j] # b /\ b \in Nat
    BY <1>2
  <2>2. b - 1 \in Nat
    <3>1. f[1] \in Nat /\ f[1] <= b /\ f[1] # b /\ b \in Nat
      BY <2>1
    <3> QED  BY <3>1
  <2>3. b - 1 \in Bound
    BY <2>1, <2>2
  <2> QED  BY <1>2, <2>2, <2>3
<1>4. PICK i \in Top(b) : \A j \in Top(b) : i <= j
  <2>1. Top(b) \in SUBSET Nat
    OBVIOUS
  <2> HIDE DEF Top
  <2> QED  BY <1>3, <2>1, Least
<1>5. \A j \in 1..(i - 1) : f[j] < f[i]
  BY <1>2, <1>4
<1> QED  BY <1>2, <1>4, <1>5

\* Each weight is a fraction, and is rounded to the nearest basis point.
LEMMA WeightsAreFractions ==
  ASSUME WeightTypeOK, Waterfill, NEW i \in Names
  PROVE  /\ Num(i) \in Nat /\ Den(i) \in Nat \ {0}
         /\ Rounded(i) \in Nat
         /\ 2 * (Den(i) * Rounded(i)) <= 2 * Num(i) + Den(i)
         /\ 2 * Num(i) - Den(i) <= 2 * (Den(i) * Rounded(i))
         /\ i \in capped => Rounded(i) = CapBps
<1>1. /\ mcap \in Seq(Nat \ {0}) /\ capped \in SUBSET Names /\ Free \in SUBSET Names
      /\ Len(mcap) \in Nat /\ TotalBps \in Nat /\ CapBps \in Nat
  BY WeightingAssumption DEF WeightTypeOK, Free
<1>2. Cardinality(capped) \in Nat
  BY <1>1, CappedIsFinite DEF Names
<1>3. Remaining \in Nat
  <2>1. CapBps * Cardinality(capped) \in Int
    BY <1>1, <1>2
  <2> QED  BY <1>1, <2>1 DEF Waterfill, Remaining
<1>4. TotalOf(Free) \in Nat \ {0} /\ mcap[i] \in Nat
  <2>1. TotalOf(Free) \in Nat /\ TotalOf(Free) > 0
    BY <1>1, TotalIsPositive DEF Waterfill
  <2> QED  BY <1>1, <2>1 DEF Names
<1>5. Num(i) \in Nat /\ Den(i) \in Nat \ {0}
  BY <1>1, <1>3, <1>4 DEF Num, Den
<1>6. /\ Rounded(i) \in Nat
      /\ 2 * (Den(i) * Rounded(i)) <= 2 * Num(i) + Den(i)
      /\ 2 * Num(i) - Den(i) <= 2 * (Den(i) * Rounded(i))
  <2>1. Rounded(i) = (2 * Num(i) + Den(i)) \div (2 * Den(i))
    BY DEF Rounded
  <2> QED  BY <1>5, <2>1, HalfUp
<1>7. i \in capped => Rounded(i) = CapBps
  BY <1>1, <1>6 DEF Num, Den
<1> QED  BY <1>5, <1>6, <1>7

\* Rounded weights are numbers, one for each name.
LEMMA RoundedAreNumbers ==
  ASSUME WeightTypeOK, Waterfill
  PROVE  /\ Len(mcap) \in Nat \ {0} /\ Len(mcap) <= MaxNames /\ Names = 1..Len(mcap)
         /\ capped \in SUBSET Names /\ Free = Names \ capped
         /\ DOMAIN RoundedBps = Names
         /\ \A i \in Names : RoundedBps[i] = Rounded(i) /\ Rounded(i) \in Nat
         /\ \A S \in SUBSET Names : OfNumbers(RoundedBps, S)
<1>1. Len(mcap) \in Nat \ {0} /\ Len(mcap) <= MaxNames /\ capped \in SUBSET Names
  BY WeightingAssumption DEF WeightTypeOK, Waterfill
<1>2. \A i \in Names : RoundedBps[i] = Rounded(i) /\ Rounded(i) \in Nat
  BY WeightsAreFractions DEF RoundedBps
<1>3. ASSUME NEW S \in SUBSET Names PROVE OfNumbers(RoundedBps, S)
  BY <1>1, <1>2, CappedIsFinite DEF Names, OfNumbers
<1> QED  BY <1>1, <1>2, <1>3 DEF Names, Free, RoundedBps

\* Free names share what remains by capitalisation, and each is rounded by half a
\* basis point at most: so are any of them together, half for each.
LEMMA FreeAreClose ==
  ASSUME WeightTypeOK, Waterfill, NEW S \in SUBSET Free
  PROVE  LET q == SumOf(RoundedBps, S)
             D == TotalOf(Free)
             n == Cardinality(S)
         IN /\ q \in Int /\ D \in Nat \ {0} /\ n \in Nat /\ TotalOf(S) \in Nat
            /\ 2 * (D * q) <= 2 * (Remaining * TotalOf(S)) + D * n
            /\ 2 * (Remaining * TotalOf(S)) - D * n <= 2 * (D * q)
<1> DEFINE q == SumOf(RoundedBps, S)
           n == Cardinality(S)
           D == TotalOf(Free)
           T == TotalOf(S)
           R == Remaining
           one == [i \in S |-> 1]
           mid == [i \in S |-> (2 * D) * RoundedBps[i]]
           top == [i \in S |-> (2 * R) * mcap[i] + D * one[i]]
           low == [i \in S |-> (2 * R) * mcap[i] + (-D) * one[i]]
<1>1. /\ mcap \in Seq(Nat \ {0}) /\ capped \in SUBSET Names /\ Free \in SUBSET Names
      /\ S \in SUBSET Names /\ Len(mcap) \in Nat /\ IsFiniteSet(S) /\ n \in Nat
      /\ D \in Nat \ {0} /\ T \in Nat /\ R \in Int
  <2>1. /\ mcap \in Seq(Nat \ {0}) /\ capped \in SUBSET Names /\ Free \in SUBSET Names
        /\ S \in SUBSET Names /\ Len(mcap) \in Nat
    BY DEF WeightTypeOK, Free
  <2>2. IsFiniteSet(S) /\ n \in Nat /\ Cardinality(capped) \in Nat
    BY <2>1, CappedIsFinite DEF Names
  <2>3. D \in Nat /\ D > 0 /\ T \in Nat
    BY <2>1, TotalIsPositive DEF Waterfill
  <2>4. R \in Int
    BY <2>2, WeightingAssumption DEF Remaining
  <2> QED  BY <2>1, <2>2, <2>3, <2>4
<1>2. OfNumbers(mcap, S) /\ SumOf(mcap, S) = T /\ \A i \in S : mcap[i] \in Int
  BY <1>1, TotalIsPositive, TotalIsSum
<1>3. OfNumbers(RoundedBps, S) /\ q \in Int /\ \A i \in S : RoundedBps[i] \in Int
  BY <1>1, RoundedAreNumbers, SumInt
<1>4. OfNumbers(one, S) /\ SumOf(one, S) = n
  <2>1. \A i \in S : one[i] = 1
    OBVIOUS
  <2> HIDE DEF one
  <2>2. OfNumbers(one, S) /\ SumOf(one, S) = 1 * n
    BY <1>1, <2>1, SumConstant
  <2> QED  BY <1>1, <2>2
<1>5. ASSUME NEW i \in S
      PROVE  mid[i] <= top[i] /\ low[i] <= mid[i]
  <2>1. /\ Num(i) = mcap[i] * R /\ Den(i) = D /\ RoundedBps[i] = Rounded(i) /\ i \in Names
        /\ Rounded(i) \in Nat
    BY <1>1, RoundedAreNumbers DEF Num, Den, Free
  <2>2. /\ 2 * (D * Rounded(i)) <= 2 * (mcap[i] * R) + D
        /\ 2 * (mcap[i] * R) - D <= 2 * (D * Rounded(i))
    BY <2>1, WeightsAreFractions
  <2>3. /\ mid[i] = (2 * D) * Rounded(i)
        /\ top[i] = (2 * R) * mcap[i] + D * 1
        /\ low[i] = (2 * R) * mcap[i] + (-D) * 1
    BY <2>1
  <2>4. \A x, y \in Int : (2 * x) * y = 2 * (x * y) /\ x * y = y * x /\ x * y \in Int
    OBVIOUS
  <2>5. mcap[i] \in Int
    BY <1>2
  <2> HIDE DEF mid, top, low, D, R
  <2>6. /\ (2 * D) * Rounded(i) = 2 * (D * Rounded(i)) /\ D * Rounded(i) \in Int
        /\ (2 * R) * mcap[i] = 2 * (mcap[i] * R) /\ mcap[i] * R \in Int
    BY <1>1, <2>1, <2>4, <2>5
  <2> QED  BY <1>1, <2>2, <2>3, <2>6
<1>6. OfNumbers(mid, S) /\ SumOf(mid, S) = (2 * D) * q
  <2>1. 2 * D \in Int
    BY <1>1
  <2> HIDE DEF D
  <2> QED  BY <1>3, <2>1, SumTimes
<1>7. /\ OfNumbers(top, S) /\ SumOf(top, S) = (2 * R) * T + D * n
      /\ OfNumbers(low, S) /\ SumOf(low, S) = (2 * R) * T + (-D) * n
  <2>1. 2 * R \in Int /\ D \in Int /\ -D \in Int
    BY <1>1
  <2> HIDE DEF R, D, T, one, n
  <2>2. OfNumbers(top, S) /\ SumOf(top, S) = (2 * R) * T + D * n
    BY <1>2, <1>4, <2>1, SumLinear
  <2>3. OfNumbers(low, S) /\ SumOf(low, S) = (2 * R) * T + (-D) * n
    BY <1>2, <1>4, <2>1, SumLinear
  <2> QED  BY <2>2, <2>3
<1>8. SumOf(mid, S) <= SumOf(top, S) /\ SumOf(low, S) <= SumOf(mid, S)
  <2> HIDE DEF mid, top, low
  <2> QED  BY <1>5, <1>6, <1>7, SumAtMost
<1>9. (2 * D) * q <= (2 * R) * T + D * n /\ (2 * R) * T + (-D) * n <= (2 * D) * q
  BY <1>6, <1>7, <1>8
<1> HIDE DEF q, n, D, T, R
<1>10. /\ (2 * D) * q = 2 * (D * q) /\ (2 * R) * T = 2 * (R * T) /\ (-D) * n = -(D * n)
       /\ D * q \in Int /\ R * T \in Int /\ D * n \in Int
  BY <1>1, <1>3
<1>11. 2 * (D * q) <= 2 * (R * T) + D * n /\ 2 * (R * T) - D * n <= 2 * (D * q)
  BY <1>9, <1>10
<1> QED  BY <1>1, <1>3, <1>11 DEF q, n, D, T, R

\* All of them together have what remains, so their errors alone make the residual.
LEMMA AllFreeAreClose ==
  ASSUME WeightTypeOK, Waterfill
  PROVE  LET q == SumOf(RoundedBps, Free)
         IN /\ 2 * q <= 2 * Remaining + Cardinality(Free)
            /\ 2 * Remaining - Cardinality(Free) <= 2 * q
<1> DEFINE q == SumOf(RoundedBps, Free)
           n == Cardinality(Free)
           D == TotalOf(Free)
           R == Remaining
<1>1. /\ q \in Int /\ D \in Nat \ {0} /\ n \in Nat
      /\ 2 * (D * q) <= 2 * (R * D) + D * n
      /\ 2 * (R * D) - D * n <= 2 * (D * q)
  <2>1. Free \in SUBSET Free
    OBVIOUS
  <2> QED  BY <2>1, FreeAreClose
<1>2. R \in Int
  <2>1. Len(mcap) \in Nat /\ capped \in SUBSET (1..Len(mcap))
    BY DEF WeightTypeOK, Names
  <2>2. Cardinality(capped) \in Nat
    BY <2>1, CappedIsFinite
  <2> QED  BY <2>2, WeightingAssumption DEF Remaining
<1> HIDE DEF q, n, D, R
<1>3. /\ 2 * (D * q) = (2 * q) * D /\ 2 * (R * D) + D * n = (2 * R + n) * D
      /\ 2 * (R * D) - D * n = (2 * R - n) * D
  BY <1>1, <1>2
<1>4. (2 * q) * D <= (2 * R + n) * D /\ (2 * R - n) * D <= (2 * q) * D
  BY <1>1, <1>3
<1>5. 2 * q <= 2 * R + n /\ 2 * R - n <= 2 * q
  <2>1. 2 * q \in Int /\ 2 * R + n \in Int /\ 2 * R - n \in Int /\ D \in Int /\ D > 0
    BY <1>1, <1>2
  <2> QED  BY <1>4, <2>1, ProductOrder
<1> QED  BY <1>5 DEF q, n, R

\* The residual is at most half a basis point per name.
LEMMA ResidualIsSmall ==
  ASSUME WeightTypeOK, Waterfill
  PROVE  /\ Residual \in Int
         /\ 2 * Residual <= Len(mcap) /\ -Len(mcap) <= 2 * Residual
         /\ SumOf(RoundedBps, Names) = TotalBps - Residual
         /\ Residual = Remaining - SumOf(RoundedBps, Free) /\ Remaining \in Int
         /\ 2 * Residual <= Cardinality(Free) /\ -Cardinality(Free) <= 2 * Residual
<1> DEFINE q == SumOf(RoundedBps, Free)
           n == Cardinality(Free)
           c == Cardinality(capped)
<1>1. /\ Len(mcap) \in Nat /\ Names = 1..Len(mcap)
      /\ capped \in SUBSET Names /\ Free = Names \ capped /\ Free \in SUBSET Names
      /\ DOMAIN RoundedBps = Names /\ CapBps \in Int /\ TotalBps \in Int
  BY WeightingAssumption, RoundedAreNumbers
<1>2. /\ n \in Nat /\ n <= Len(mcap) /\ c \in Nat /\ IsFiniteSet(capped)
  BY <1>1, CappedIsFinite
<1>3. OfNumbers(RoundedBps, Names) /\ OfNumbers(RoundedBps, Free)
  BY <1>1, RoundedAreNumbers
<1>4. SumOf(RoundedBps, capped) = CapBps * c
  <2>1. \A i \in capped : RoundedBps[i] = CapBps
    BY <1>1, RoundedAreNumbers, WeightsAreFractions
  <2> QED  BY <1>1, <1>2, <2>1, SumConstant
<1>5. SumOf(RoundedBps, Names) = CapBps * c + q
  <2>1. SumOf(RoundedBps, Names) = SumOf(RoundedBps, capped)
                                     + SumOf(RoundedBps, Names \ capped)
    <3>1. capped \in SUBSET Names
      BY <1>1
    <3> QED  BY <1>3, <3>1, SumSplit
  <2> QED  BY <1>1, <1>4, <2>1
<1>6. Residual = TotalBps - SumOf(RoundedBps, Names)
  BY <1>1, FoldSeqIsSum DEF Residual
<1>7. q \in Int /\ CapBps * c \in Int
  BY <1>1, <1>2, <1>3, SumInt
<1>8. Residual = Remaining - q /\ Remaining \in Int
  BY <1>1, <1>5, <1>6, <1>7 DEF Remaining
<1>9. 2 * q <= 2 * Remaining + n /\ 2 * Remaining - n <= 2 * q
  BY AllFreeAreClose
<1> HIDE DEF q, n, c
<1>10. /\ Residual \in Int /\ 2 * Residual <= Len(mcap) /\ -Len(mcap) <= 2 * Residual
       /\ 2 * Residual <= n /\ -n <= 2 * Residual
  BY <1>1, <1>2, <1>7, <1>8, <1>9
<1>11. SumOf(RoundedBps, Names) \in Int
  BY <1>5, <1>7
<1> QED  BY <1>1, <1>6, <1>8, <1>10, <1>11 DEF q, n

\* The residual goes to a name whose weight is largest.
LEMMA LargestIsLargest ==
  ASSUME WeightTypeOK, Waterfill
  PROVE  Largest \in Names /\ \A j \in Names : Rounded(j) <= Rounded(Largest)
<1>1. /\ Len(mcap) \in Nat \ {0} /\ Names = 1..Len(mcap)
      /\ \A i \in 1..Len(mcap) : RoundedBps[i] = Rounded(i) /\ RoundedBps[i] \in Nat
  BY RoundedAreNumbers
<1>2. \E i \in Names : /\ \A j \in Names : RoundedBps[j] <= RoundedBps[i]
                       /\ \A j \in 1..(i - 1) : RoundedBps[j] < RoundedBps[i]
  BY <1>1, LargestExists
<1>3. PICK i \in Names : /\ \A j \in Names : RoundedBps[j] <= RoundedBps[i]
                         /\ \A j \in 1..(i - 1) : RoundedBps[j] < RoundedBps[i]
  BY <1>2
<1>4. \A j \in 1..(i - 1) : j \in Names
  BY <1>1
<1>5. /\ \A j \in Names : Rounded(j) <= Rounded(i)
      /\ \A j \in 1..(i - 1) : Rounded(j) < Rounded(i)
  BY <1>1, <1>3, <1>4
<1> QED  BY <1>5 DEF Largest

\* Rounding keeps the order.
LEMMA QuotientsGrow ==
  ASSUME NEW x \in Nat, NEW y \in Nat, x <= y, NEW d \in Nat \ {0}
  PROVE  x \div d <= y \div d
<1> DEFINE q == x \div d
           r == y \div d
<1>1. /\ q \in Nat /\ d * q <= x /\ x < d * q + d
      /\ r \in Nat /\ d * r <= y /\ y < d * r + d
  OBVIOUS
<1> HIDE DEF q, r
<1>2. q * d < (r + 1) * d
  <2>1. d * q = q * d /\ d * r + d = (r + 1) * d /\ q * d \in Int /\ (r + 1) * d \in Int
    BY <1>1
  <2> QED  BY <1>1, <2>1
<1>3. q < r + 1
  <2>1. q \in Int /\ r + 1 \in Int /\ d \in Int /\ d >= 0
    BY <1>1
  <2> QED  BY <1>2, <2>1, ProductOrder
<1> QED  BY <1>1, <1>3 DEF q, r

\* What is at the cap or under it is not rounded over it, nor the other way round.
LEMMA CapIsKept ==
  ASSUME NEW m \in Nat, NEW d \in Nat \ {0}, NEW q \in Nat, NEW c \in Nat,
         2 * (d * q) <= 2 * m + d, 2 * m - d <= 2 * (d * q)
  PROVE  /\ m <= c * d => q <= c
         /\ c * d <= m => c <= q
<1>1. /\ 2 * (d * q) = (2 * q) * d /\ d * q \in Int /\ c * d \in Int
      /\ 2 * (c * d) + d = (2 * c + 1) * d /\ 2 * (c * d) - d = (2 * c - 1) * d
  OBVIOUS
<1>2. ASSUME m <= c * d PROVE q <= c
  <2>1. (2 * q) * d <= (2 * c + 1) * d
    BY <1>1, <1>2
  <2>2. 2 * q <= 2 * c + 1
    BY <2>1, ProductOrder
  <2> QED  BY <2>2
<1>3. ASSUME c * d <= m PROVE c <= q
  <2>1. (2 * c - 1) * d <= (2 * q) * d
    BY <1>1, <1>3
  <2>2. 2 * c - 1 <= 2 * q
    BY <2>1, ProductOrder
  <2> QED  BY <2>2
<1> QED  BY <1>2, <1>3

\* The name with the largest rounded weight is the first, the largest by
\* capitalisation: the others tie with it at most.
LEMMA LargestIsFirst ==
  ASSUME WeightTypeOK, Waterfill, Breaching = {}, \A i \in Names : mcap[i] <= mcap[1]
  PROVE  Largest = 1
<1>1. /\ Names = 1..Len(mcap) /\ 1 \in Names /\ capped \in SUBSET Names /\ CapBps \in Nat
      /\ Free = Names \ capped /\ mcap \in Seq(Nat \ {0}) /\ Len(mcap) \in Nat
  BY WeightingAssumption, RoundedAreNumbers DEF WeightTypeOK
<1>2. \A i \in Names : mcap[i] \in Nat
  BY <1>1
<1>3. Remaining \in Nat /\ TotalOf(Free) \in Nat \ {0}
  <2>1. Cardinality(capped) \in Nat
    BY <1>1, CappedIsFinite
  <2>2. Remaining \in Int
    BY <2>1, WeightingAssumption DEF Remaining
  <2>3. TotalOf(Free) \in Nat /\ TotalOf(Free) > 0
    BY <1>1, TotalIsPositive DEF Waterfill
  <2> QED  BY <2>2, <2>3 DEF Waterfill
<1>4. ASSUME NEW i \in Names PROVE Rounded(i) <= Rounded(1)
  <2>1. /\ Num(i) \in Nat /\ Den(i) \in Nat \ {0} /\ Rounded(i) \in Nat
        /\ 2 * (Den(i) * Rounded(i)) <= 2 * Num(i) + Den(i)
        /\ 2 * Num(i) - Den(i) <= 2 * (Den(i) * Rounded(i))
        /\ i \in capped => Rounded(i) = CapBps
    BY WeightsAreFractions
  <2>2. /\ Num(1) \in Nat /\ Den(1) \in Nat \ {0} /\ Rounded(1) \in Nat
        /\ 2 * (Den(1) * Rounded(1)) <= 2 * Num(1) + Den(1)
        /\ 2 * Num(1) - Den(1) <= 2 * (Den(1) * Rounded(1))
        /\ 1 \in capped => Rounded(1) = CapBps
    BY <1>1, WeightsAreFractions
  <2>3. CASE i \in capped /\ 1 \in capped
    BY <2>1, <2>2, <2>3
  <2>4. CASE i \notin capped /\ 1 \in capped
    <3>1. Num(i) <= CapBps * Den(i)
      <4>1. i \in Free /\ i \notin Breaching
        BY <1>1, <2>4
      <4>2. ~(Num(i) > CapBps * Den(i))
        BY <4>1, Zenon DEF Breaching
      <4>3. CapBps * Den(i) \in Int
        BY <1>1, <2>1
      <4> QED  BY <2>1, <4>2, <4>3
    <3>2. Rounded(i) <= CapBps
      BY <1>1, <2>1, <3>1, CapIsKept
    <3> QED  BY <2>2, <2>4, <3>2
  <2>5. mcap[i] * Remaining <= mcap[1] * Remaining
    BY <1>1, <1>2, <1>3, ProductOrder
  <2>6. CASE i \in capped /\ 1 \notin capped
    <3>1. Num(1) = mcap[1] * Remaining /\ Den(1) = TotalOf(Free)
      BY <2>6 DEF Num, Den
    <3>2. mcap[i] * Remaining >= CapBps * TotalOf(Free)
      BY <2>6 DEF Waterfill
    <3>3. /\ mcap[i] * Remaining \in Int /\ mcap[1] * Remaining \in Int
          /\ CapBps * TotalOf(Free) \in Int
      BY <1>1, <1>2, <1>3
    <3>4. CapBps * Den(1) <= Num(1)
      BY <2>5, <3>1, <3>2, <3>3
    <3>5. CapBps <= Rounded(1)
      BY <1>1, <2>2, <3>4, CapIsKept
    <3> QED  BY <2>1, <2>6, <3>5
  <2>7. CASE i \notin capped /\ 1 \notin capped
    <3>1. /\ Num(1) = mcap[1] * Remaining /\ Num(i) = mcap[i] * Remaining
          /\ Den(1) = Den(i)
      BY <2>7 DEF Num, Den
    <3>2. 2 * Num(i) + Den(i) <= 2 * Num(1) + Den(i)
      BY <2>1, <2>2, <2>5, <3>1
    <3>3. (2 * Num(i) + Den(i)) \div (2 * Den(i)) <= (2 * Num(1) + Den(i)) \div (2 * Den(i))
      <4>1. /\ 2 * Num(i) + Den(i) \in Nat /\ 2 * Num(1) + Den(i) \in Nat
            /\ 2 * Den(i) \in Nat \ {0}
        BY <2>1, <2>2
      <4> QED  BY <3>2, <4>1, QuotientsGrow
    <3> QED  BY <3>1, <3>3 DEF Rounded
  <2> QED  BY <2>3, <2>4, <2>6, <2>7
<1>5. /\ Largest \in Names
      /\ \A j \in 1..(Largest - 1) : Rounded(j) < Rounded(Largest)
  <2>1. \A j \in 1..(1 - 1) : Rounded(j) < Rounded(1)
    OBVIOUS
  <2> QED  BY <1>1, <1>4, <2>1 DEF Largest
<1>6. ASSUME Largest # 1 PROVE FALSE
  <2>1. 1 \in 1..(Largest - 1)
    BY <1>1, <1>5, <1>6
  <2>2. Rounded(1) < Rounded(Largest) /\ Rounded(Largest) <= Rounded(1)
    BY <1>4, <1>5, <2>1
  <2>3. Rounded(1) \in Nat /\ Rounded(Largest) \in Nat
    BY <1>1, <1>5, RoundedAreNumbers
  <2> QED  BY <2>2, <2>3
<1> QED  BY <1>6

\* There is enough in the largest name to take the residual from.
LEMMA ResidualFits ==
  ASSUME WeightTypeOK, Waterfill
  PROVE  Rounded(Largest) + Residual \in Nat
<1> DEFINE m == Rounded(Largest)
           n == Len(mcap)
           r == Residual
<1>1. /\ n \in Nat \ {0} /\ n <= MaxNames /\ Names = 1..n
      /\ MaxNames \in Nat /\ TotalBps \in Nat /\ MaxNames * (MaxNames - 1) <= 2 * TotalBps
  BY WeightingAssumption, RoundedAreNumbers
<1>2. m \in Nat /\ \A j \in Names : RoundedBps[j] <= m
  BY LargestIsLargest, RoundedAreNumbers
<1>3. /\ r \in Int /\ 2 * r <= n /\ -n <= 2 * r
      /\ SumOf(RoundedBps, Names) = TotalBps - r
  BY ResidualIsSmall
<1>4. TotalBps - r <= m * n
  <2> DEFINE g == [i \in Names |-> m]
  <2>1. OfNumbers(g, Names) /\ SumOf(g, Names) = m * Cardinality(Names)
    <3>1. IsFiniteSet(Names) /\ m \in Int /\ \A i \in Names : g[i] = m
      BY <1>1, <1>2, FS_Interval
    <3> HIDE DEF g, m
    <3> QED  BY <3>1, SumConstant
  <2>2. Cardinality(Names) = n
    <3>1. Cardinality(1..n) = n
      <4>1. n \in Nat
        BY <1>1
      <4> HIDE DEF n
      <4> QED  BY <4>1, IntervalCount
    <3> QED  BY <1>1, <3>1
  <2>3. OfNumbers(RoundedBps, Names) /\ \A i \in Names : RoundedBps[i] <= g[i]
    BY <1>2, RoundedAreNumbers
  <2> HIDE DEF g
  <2>4. SumOf(RoundedBps, Names) <= SumOf(g, Names)
    BY <2>1, <2>3, SumAtMost
  <2> QED  BY <1>3, <2>1, <2>2, <2>4
<1> HIDE DEF m, n, r
<1>5. ASSUME m + r < 0 PROVE FALSE
  <2>1. m * n <= (-r - 1) * n
    BY <1>1, <1>2, <1>3, <1>5, ProductOrder
  <2>2. 2 * ((-r - 1) * n) <= (n - 2) * n
    <3>1. (2 * (-r - 1)) * n <= (n - 2) * n
      BY <1>1, <1>3, ProductOrder
    <3>2. (2 * (-r - 1)) * n = 2 * ((-r - 1) * n)
      BY <1>1, <1>3
    <3> QED  BY <3>1, <3>2
  <2>3. (n - 2) * n = n * (n - 1) - n /\ n * (n - 1) \in Int
    BY <1>1
  <2>4. n * (n - 1) <= MaxNames * (MaxNames - 1)
    <3>1. n * (n - 1) <= MaxNames * (n - 1)
      BY <1>1, ProductOrder
    <3>2. (n - 1) * MaxNames <= (MaxNames - 1) * MaxNames
      BY <1>1, ProductOrder
    <3> QED  BY <1>1, <3>1, <3>2
  <2>5. m * n \in Int /\ (-r - 1) * n \in Int /\ MaxNames * (MaxNames - 1) \in Int
    BY <1>1, <1>2, <1>3
  <2> QED  BY <1>1, <1>2, <1>3, <1>4, <1>5, <2>1, <2>2, <2>3, <2>4, <2>5
<1> QED  BY <1>2, <1>3, <1>5 DEF m, r

\* Names without the first are one fewer.
LEMMA CountWithoutFirst ==
  ASSUME NEW n \in Nat, NEW S \in SUBSET (1..n), 1 \notin S, n > 0
  PROVE  Cardinality(S) \in Nat /\ Cardinality(S) <= n - 1
<1>1. IsFiniteSet(S) /\ Cardinality(S) \in Nat
  BY CappedIsFinite
<1>2. Cardinality(S \cup {1}) = Cardinality(S) + 1
  BY <1>1, FS_AddElement
<1>3. S \cup {1} \in SUBSET (1..n)
  OBVIOUS
<1>4. Cardinality(S \cup {1}) <= n
  BY <1>3, CappedIsFinite
<1> QED  BY <1>1, <1>2, <1>4

\* The first name is off by what all the others were rounded by.
LEMMA FirstTakesTheRest ==
  ASSUME WeightTypeOK, Waterfill
  PROVE  LET off == 2 * ((Rounded(1) + Residual) * Den(1) - Num(1))
             slack == (Len(mcap) - 1) * Den(1)
         IN -slack <= off /\ off <= slack
<1> DEFINE n == Len(mcap)
           R == Remaining
           D == TotalOf(Free)
           r == Residual
<1>1. /\ Names = 1..n /\ 1 \in Names /\ n \in Nat /\ n > 0 /\ Free \in SUBSET Names
      /\ Free = Names \ capped /\ mcap \in Seq(Nat \ {0}) /\ capped \in SUBSET Names
  BY RoundedAreNumbers DEF WeightTypeOK
<1>2. /\ r \in Int /\ r = R - SumOf(RoundedBps, Free) /\ R \in Int
      /\ 2 * r <= Cardinality(Free) /\ -Cardinality(Free) <= 2 * r
  BY ResidualIsSmall
<1>3. CASE 1 \in capped
  <2>1. Rounded(1) = CapBps /\ Num(1) = CapBps /\ Den(1) = 1 /\ CapBps \in Int
    BY <1>1, <1>3, WeightsAreFractions, WeightingAssumption DEF Num, Den
  <2>2. Cardinality(Free) \in Nat /\ Cardinality(Free) <= n - 1
    <3>1. Free \in SUBSET (1..n) /\ 1 \notin Free
      BY <1>1, <1>3
    <3> HIDE DEF n
    <3> QED  BY <1>1, <3>1, CountWithoutFirst
  <2> HIDE DEF r, n
  <2>3. /\ 2 * ((CapBps + r) * 1 - CapBps) = 2 * r
        /\ (n - 1) * 1 = n - 1
    BY <1>1, <1>2, <2>1
  <2>4. -(n - 1) <= 2 * r /\ 2 * r <= n - 1
    BY <1>1, <1>2, <2>2
  <2> QED  BY <2>1, <2>3, <2>4 DEF r, n
<1>4. CASE 1 \notin capped
  <2> DEFINE S == Free \ {1}
             q == SumOf(RoundedBps, S)
             T == TotalOf(S)
             k == Cardinality(S)
             m == mcap[1]
             p == Rounded(1)
  <2>1. 1 \in Free /\ S \in SUBSET Free /\ Num(1) = m * R /\ Den(1) = D
    BY <1>1, <1>4 DEF Num, Den
  <2>2. /\ q \in Int /\ D \in Nat \ {0} /\ k \in Nat /\ T \in Nat
        /\ 2 * (D * q) <= 2 * (R * T) + D * k
        /\ 2 * (R * T) - D * k <= 2 * (D * q)
    <3>1. S \in SUBSET Free
      BY <2>1
    <3> HIDE DEF S
    <3> QED  BY <3>1, FreeAreClose
  <2>3. k <= n - 1
    <3>1. S \in SUBSET (1..n) /\ 1 \notin S
      BY <1>1
    <3> HIDE DEF S, n
    <3> QED  BY <1>1, <3>1, CountWithoutFirst
  <2>4. SumOf(RoundedBps, Free) = p + q /\ p \in Int
    <3>1. OfNumbers(RoundedBps, Free) /\ RoundedBps[1] = p /\ p \in Int
      BY <1>1, RoundedAreNumbers
    <3>2. SumOf(RoundedBps, Free) = RoundedBps[1] + SumOf(RoundedBps, Free \ {1})
      <4>1. Free \in SUBSET Free
        OBVIOUS
      <4> QED  BY <2>1, <3>1, <4>1, SumStep
    <3> QED  BY <3>1, <3>2
  <2>5. D = m + T /\ m \in Int
    <3>1. OfNumbers(mcap, Free) /\ m \in Int
      BY <1>1, TotalIsPositive
    <3>2. SumOf(mcap, Free) = mcap[1] + SumOf(mcap, Free \ {1})
      <4>1. Free \in SUBSET Free
        OBVIOUS
      <4> QED  BY <2>1, <3>1, <4>1, SumStep
    <3> QED  BY <3>1, <3>2, TotalIsSum
  <2> HIDE DEF S, q, T, k, m, p, n, R, D, r
  <2>6. p + r = R - q
    BY <1>2, <2>2, <2>4
  <2>7. (R - q) * D - m * R = R * T - D * q
    <3>1. (R - q) * D = R * D - q * D /\ q * D = D * q /\ m * R = R * m
          /\ R * D \in Int /\ D * q \in Int /\ R * m \in Int /\ R * T \in Int
      BY <1>2, <2>2, <2>5
    <3>2. R * D = R * m + R * T
      <4>1. T \in Int
        BY <2>2
      <4> QED  BY <1>2, <2>5, <4>1, Distributes
    <3> QED  BY <3>1, <3>2
  <2>8. D * k <= (n - 1) * D
    <3>1. k * D <= (n - 1) * D
      BY <1>1, <2>2, <2>3, ProductOrder
    <3> QED  BY <2>2, <3>1
  <2>9. /\ D * q \in Int /\ R * T \in Int /\ D * k \in Int /\ (n - 1) * D \in Int
    BY <1>1, <1>2, <2>2
  <2>10. /\ -((n - 1) * D) <= 2 * (R * T - D * q)
         /\ 2 * (R * T - D * q) <= (n - 1) * D
    BY <2>2, <2>8, <2>9
  <2>11. /\ -((n - 1) * D) <= 2 * ((p + r) * D - m * R)
         /\ 2 * ((p + r) * D - m * R) <= (n - 1) * D
    BY <2>6, <2>7, <2>10
  <2> QED  BY <2>1, <2>11 DEF n, D, p, r
<1> QED  BY <1>3, <1>4

\* What is published sums to the total and is rounded to the nearest, the first
\* name apart.
LEMMA PublishedIsFaithful ==
  ASSUME WeightTypeOK, Waterfill, Breaching = {}, \A i \in Names : mcap[i] <= mcap[1],
         NEW b, b = [RoundedBps EXCEPT ![Largest] = @ + Residual]
  PROVE  /\ b \in Seq(Nat) /\ Len(b) = Len(mcap)
         /\ SumOf(b, Names) = TotalBps
         /\ \A i \in Names :
              LET off == 2 * (b[i] * Den(i) - Num(i))
                  slack == (IF i = 1 THEN Len(mcap) - 1 ELSE 1) * Den(i)
              IN -slack <= off /\ off <= slack
<1>1. /\ Len(mcap) \in Nat \ {0} /\ Names = 1..Len(mcap) /\ DOMAIN RoundedBps = Names
      /\ \A i \in Names : RoundedBps[i] = Rounded(i) /\ Rounded(i) \in Nat
      /\ OfNumbers(RoundedBps, Names) /\ TotalBps \in Int
  BY RoundedAreNumbers, WeightingAssumption
<1>2. Largest = 1 /\ 1 \in Names
  BY <1>1, LargestIsFirst
<1>3. Residual \in Int /\ SumOf(RoundedBps, Names) = TotalBps - Residual
  BY ResidualIsSmall
<1>4. /\ DOMAIN b = Names
      /\ b[1] = Rounded(1) + Residual
      /\ \A i \in Names \ {1} : b[i] = Rounded(i)
      /\ b = [i \in Names |-> b[i]]
  BY <1>1, <1>2 DEF RoundedBps
<1>5. \A i \in Names : b[i] \in Nat
  BY <1>1, <1>2, <1>4, ResidualFits
<1>6. b \in [1..Len(mcap) -> Nat]
  BY <1>1, <1>4, <1>5
<1>7. b \in Seq(Nat) /\ Len(b) = Len(mcap)
  BY <1>1, <1>6
<1>8. SumOf(b, Names) = TotalBps
  <2>1. RoundedBps \in [Names -> Int]
    BY <1>1 DEF RoundedBps
  <2>2. IsFiniteSet(Names) /\ Residual \in Int
    BY <1>1, <1>3 DEF OfNumbers
  <2>3. SumOf(b, Names) = SumOf(RoundedBps, Names) + Residual
    BY <1>2, <2>1, <2>2, SumExcept
  <2> QED  BY <1>1, <1>3, <2>3
<1>9. ASSUME NEW i \in Names
      PROVE  LET off == 2 * (b[i] * Den(i) - Num(i))
                 slack == (IF i = 1 THEN Len(mcap) - 1 ELSE 1) * Den(i)
             IN -slack <= off /\ off <= slack
  <2>1. CASE i = 1
    <3>1. LET off == 2 * (b[1] * Den(1) - Num(1))
              slack == (Len(mcap) - 1) * Den(1)
          IN -slack <= off /\ off <= slack
      BY <1>4, FirstTakesTheRest
    <3> QED  BY <2>1, <3>1
  <2>2. CASE i # 1
    <3> DEFINE d == Den(i)
               q == Rounded(i)
               m == Num(i)
    <3>1. /\ m \in Nat /\ d \in Nat \ {0} /\ q \in Nat
          /\ 2 * (d * q) <= 2 * m + d
          /\ 2 * m - d <= 2 * (d * q)
      BY WeightsAreFractions
    <3>2. b[i] = q
      BY <1>4, <2>2
    <3> HIDE DEF d, q, m
    <3>3. q * d = d * q /\ d * q \in Int /\ 1 * d = d
      BY <3>1
    <3>4. -(1 * d) <= 2 * (q * d - m) /\ 2 * (q * d - m) <= 1 * d
      BY <3>1, <3>3
    <3> QED  BY <2>2, <3>2, <3>4 DEF d, m
  <2> QED  BY <2>1, <2>2
<1> QED  BY <1>7, <1>8, <1>9

-----------------------------------------------------------------------------
\* FillInv holds initially,
LEMMA FillInit == WeightInit => FillInv
<1> SUFFICES ASSUME WeightInit PROVE FillInv
  OBVIOUS
<1>1. mcap = <<>> /\ capped = {} /\ pass = 0 /\ step = "idle" /\ bps = <<>>
  BY DEF WeightInit
<1>2. WeightTypeOK
  BY <1>1, WeightingAssumption DEF WeightTypeOK
<1>3. Names = {}
  BY <1>1 DEF Names
<1> QED  BY <1>1, <1>2, <1>3, InitInv DEF FillInv, Faithful

\* What never grows is never above where it began.
LEMMA FirstIsMost ==
  ASSUME NEW s \in Seq(Nat \ {0}), \A i \in 2..Len(s) : s[i] <= s[i - 1]
  PROVE  \A i \in 1..Len(s) : s[i] <= s[1]
<1> DEFINE Above == {i \in 1..Len(s) : ~(s[i] <= s[1])}
<1>1. Len(s) \in Nat /\ \A i \in 1..Len(s) : s[i] \in Nat
  OBVIOUS
<1>2. ASSUME Above # {} PROVE FALSE
  <2>1. Above \in SUBSET Nat
    BY <1>1
  <2>2. PICK i \in Above : \A j \in Above : i <= j
    <3> HIDE DEF Above
    <3> QED  BY <1>2, <2>1, Least
  <2>3. i \in 2..Len(s) /\ i - 1 \in 1..Len(s) /\ 1 \in 1..Len(s)
    BY <1>1, <2>2
  <2>4. i - 1 \notin Above
    BY <2>1, <2>2, <2>3
  <2>5. s[i] <= s[i - 1] /\ s[i - 1] <= s[1]
    BY <2>3, <2>4
  <2> QED  BY <1>1, <2>2, <2>3, <2>5
<1> QED  BY <1>2

\* The input is a basket with nothing capped, which satisfies all there is.
LEMMA FillBegin ==
  ASSUME FillInv, Begin
  PROVE  /\ WeightTypeOK' /\ Waterfill' /\ Faithful' /\ step' # "idle"
         /\ \A i \in Names' : mcap'[i] <= mcap'[1]
<1>1. /\ mcap' \in Seq(Nat \ {0}) /\ Len(mcap') \in 1..MaxNames
      /\ capped' = {} /\ pass' = 0 /\ step = "idle" /\ step' = "cap"
      /\ bps' \in Seq(Nat) /\ Len(bps') = 0
  BY DEF FillInv, Begin, WeightTypeOK
<1>2. WeightTypeOK'
  BY <1>1 DEF WeightTypeOK
<1>3. Free' # {} /\ Remaining' > 0
  <2>1. Free' = 1..Len(mcap')
    BY <1>1 DEF Free, Names
  <2>2. Cardinality(capped') = 0
    BY <1>1, FS_EmptySet
  <2>3. Remaining' = TotalBps - CapBps * 0
    BY <2>2 DEF Remaining
  <2> QED  BY <1>1, <2>1, <2>3, WeightingAssumption
<1>4. Faithful'
  BY <1>1 DEF Faithful
<1>5. Waterfill'
  BY <1>1, <1>3 DEF Waterfill
<1>6. Names' = 1..Len(mcap') /\ \A i \in 2..Len(mcap') : mcap'[i] <= mcap'[i - 1]
  BY DEF Begin, Names
<1>7. \A i \in 1..Len(mcap') : mcap'[i] <= mcap'[1]
  BY <1>1, <1>6, FirstIsMost
<1> QED  BY <1>1, <1>2, <1>4, <1>5, <1>6, <1>7

\* The weights depend on the basket and on the capped names alone.
LEMMA SameWeights ==
  ASSUME UNCHANGED <<mcap, capped>>
  PROVE  /\ Waterfill' <=> Waterfill
         /\ Names' = Names /\ mcap' = mcap
         /\ \A i : Num(i)' = Num(i) /\ Den(i)' = Den(i)
BY DEF Waterfill, Free, Names, Num, Den, TotalOf, Remaining

\* no step breaks it,
LEMMA FillStep == FillInv /\ [WeightNext]_weightVars => FillInv'
<1> SUFFICES ASSUME FillInv, [WeightNext]_weightVars PROVE FillInv'
  OBVIOUS
<1> USE DEF FillInv
<1>0. WeightInv'
  BY StepInv
<1>1. CASE Begin
  BY <1>0, <1>1, FillBegin
<1>2. CASE Refuse
  <2>1. /\ UNCHANGED <<mcap, capped, pass, bps>> /\ step' = "refused" /\ step = "cap"
    BY <1>2 DEF Refuse
  <2>2. WeightTypeOK'
    BY <2>1 DEF WeightTypeOK, Names
  <2> QED  BY <1>0, <2>1, <2>2, SameWeights DEF Faithful
<1>3. CASE Cap
  <2>1. /\ capped' = capped \cup Breaching /\ pass' = pass + 1 /\ pass < Len(mcap)
        /\ UNCHANGED <<mcap, step, bps>> /\ step = "cap"
    BY <1>3 DEF Cap
  <2>2. WeightTypeOK'
    BY <2>1, BreachingIsFree DEF WeightTypeOK, Names
  <2>3. Waterfill'
    BY <1>3, <2>1, CapFills
  <2>4. Names' = Names
    BY <2>1 DEF Names
  <2> QED  BY <1>0, <2>1, <2>2, <2>3, <2>4 DEF Faithful
<1>4. CASE Stop
  <2>1. UNCHANGED <<mcap, capped, pass, bps>> /\ step' = "round" /\ step = "cap"
    BY <1>4 DEF Stop
  <2>2. WeightTypeOK'
    BY <2>1 DEF WeightTypeOK, Names
  <2> QED  BY <1>0, <2>1, <2>2, SameWeights DEF Faithful
<1>5. CASE ToBasisPoints
  <2>1. /\ UNCHANGED <<mcap, capped, pass>> /\ step' = "done" /\ step = "round"
        /\ bps' = [RoundedBps EXCEPT ![Largest] = @ + Residual]
    BY <1>5 DEF ToBasisPoints
  <2>2. /\ bps' \in Seq(Nat) /\ Len(bps') = Len(mcap)
        /\ SumOf(bps', Names) = TotalBps
        /\ \A i \in Names :
             LET off == 2 * (bps'[i] * Den(i) - Num(i))
                 slack == (IF i = 1 THEN Len(mcap) - 1 ELSE 1) * Den(i)
             IN -slack <= off /\ off <= slack
    <3>1. Breaching = {} /\ Waterfill
      BY <2>1 DEF WeightInv, BoundNeverBites
    <3> QED  BY <2>1, <3>1, PublishedIsFaithful
  <2>3. WeightTypeOK'
    BY <2>1, <2>2 DEF WeightTypeOK, Names
  <2>4. Faithful'
    <3>1. Names' = Names /\ mcap' = mcap /\ \A i : Num(i)' = Num(i) /\ Den(i)' = Den(i)
      BY <2>1, SameWeights
    <3>2. \A i \in Names' :
            LET off == 2 * (bps'[i] * Den(i)' - Num(i)')
                slack == (IF i = 1 THEN Len(mcap') - 1 ELSE 1) * Den(i)'
            IN -slack <= off /\ off <= slack
      BY <2>2, <3>1
    <3> QED  BY <2>2, <3>1, <3>2 DEF Faithful
  <2> QED  BY <1>0, <2>1, <2>3, <2>4, SameWeights
<1>6. CASE UNCHANGED weightVars
  <2>1. UNCHANGED <<mcap, capped, pass, step, bps>>
    BY <1>6 DEF weightVars
  <2>2. WeightTypeOK'
    BY <2>1 DEF WeightTypeOK, Names
  <2>3. Faithful'
    BY <2>1 DEF Faithful, Names, Num, Den, TotalOf, Free, Remaining
  <2> QED  BY <1>0, <2>1, <2>2, <2>3, SameWeights
<1> QED  BY <1>1, <1>2, <1>3, <1>4, <1>5, <1>6 DEF WeightNext, Weigh

\* and so it holds throughout.
LEMMA FillHolds == WeightSpec => []FillInv
BY FillInit, FillStep, PTL DEF WeightSpec

\* No basis point is negative: what the residual takes from the largest name, that
\* name has.  And no more names or passes than there is room for.
THEOREM WeightsAreTyped == WeightSpec => []WeightTypeOK
<1>1. FillInv => WeightTypeOK
  BY DEF FillInv
<1> QED  BY <1>1, FillHolds, PTL

\* Whatever the basket and the cap, capping never gives away all there is, at no
\* pass of the loop: some name is free, and something is left for it.
THEOREM CappedLeaveTheRest == WeightSpec => []WeightsAddToOne
<1>1. FillInv => WeightsAddToOne
  BY DEF FillInv, Waterfill, WeightsAddToOne
<1> QED  BY <1>1, FillHolds, PTL

\* Every pass raises the scale of the free names, so a name that was rightly capped
\* in one pass still is at the end.
THEOREM CappingIsNeeded == WeightSpec => []NoneCappedInVain
<1>1. FillInv => NoneCappedInVain
  BY DEF FillInv, Waterfill, NoneCappedInVain
<1> QED  BY <1>1, FillHolds, PTL

\* Whatever the basket and the cap, the published basis points sum to the total,
\* each is its weight rounded to the nearest, and the one that is not is that of
\* the largest name, off by at most half a basis point for each other name.
THEOREM BpsFollowWeights == WeightSpec => []BpsAreFaithful
<1>1. FillInv => BpsAreFaithful
  <2> SUFFICES ASSUME FillInv, step = "done"
               PROVE  /\ FoldSeq(+, 0, bps) = TotalBps
                      /\ \A i \in Names :
                           LET off == 2 * (bps[i] * Den(i) - Num(i))
                               slack == (IF i = 1 THEN Len(mcap) - 1 ELSE 1) * Den(i)
                           IN -slack <= off /\ off <= slack
    BY Zenon DEF BpsAreFaithful
  <2>1. Faithful /\ DOMAIN bps = Names
    BY DEF FillInv, WeightTypeOK, Names
  <2>2. FoldSeq(+, 0, bps) = SumOf(bps, DOMAIN bps)
    BY FoldSeqIsSum
  <2>3. SumOf(bps, DOMAIN bps) = TotalBps
    BY <2>1 DEF Faithful
  <2>4. FoldSeq(+, 0, bps) = TotalBps
    BY <2>2, <2>3, Zenon
  <2> QED  BY <2>1, <2>4, Zenon DEF Faithful
<1> QED  BY <1>1, FillHolds, PTL
=============================================================================
