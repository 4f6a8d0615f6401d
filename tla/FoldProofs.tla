----------------------------- MODULE FoldProofs -----------------------------
(***************************************************************************)
(* Facts about folds of the community modules, for every finite set: they  *)
(* follow their recursion, and a sum may be taken in any order.            *)
(*                                                                         *)
(* An induction here is the choice of a least counterexample: the library  *)
(* proves that the numbers, and the finite subsets of a set, are well      *)
(* founded, and says so of sets (WFMin), which the provers can instantiate *)
(* with the set of counterexamples.                                        *)
(***************************************************************************)
EXTENDS Integers, Sequences, SequencesExt, FiniteSetTheorems,
        WellFoundedInduction, TLAPS

\* A set of numbers that is not empty has a least member.
LEMMA Least ==
  ASSUME NEW T \in SUBSET Nat, T # {}
  PROVE  \E n \in T : \A m \in T : n <= m
<1>1. PICK n \in T : \A m \in T : ~(<<m, n>> \in OpToRel(<, Nat))
  BY NatLessThanWellFounded, WFMin
<1>2. \A m \in T : ~(m < n)
  BY <1>1 DEF OpToRel
<1> QED  BY <1>2

\* There are n numbers from 1 to n.
LEMMA IntervalCount == \A n \in Nat : IsFiniteSet(1..n) /\ Cardinality(1..n) = n
BY FS_Interval

\* Induction over the numbers, for a set of them.
LEMMA NatSetInduction ==
  ASSUME NEW F, 0 \in F, \A n \in Nat : n \in F => n + 1 \in F
  PROVE  \A n \in Nat : n \in F
<1> DEFINE Bad == {n \in Nat : n \notin F}
<1> SUFFICES ASSUME Bad # {} PROVE FALSE
  OBVIOUS
<1>1. PICK n \in Bad : \A m \in Bad : n <= m
  <2>1. Bad \in SUBSET Nat
    OBVIOUS
  <2> HIDE DEF Bad
  <2> QED  BY <2>1, Least
<1>2. n # 0 /\ n - 1 \in Nat /\ n - 1 \notin Bad
  BY <1>1
<1> QED  BY <1>1, <1>2

\* A set of subsets of a finite set that has each subset as soon as it has all
\* the smaller ones has them all.
LEMMA SubsetInduction ==
  ASSUME NEW S, IsFiniteSet(S), NEW F,
         \A T \in SUBSET S : (\A U \in SUBSET T : U # T => U \in F) => T \in F
  PROVE  \A T \in SUBSET S : T \in F
<1>1. IsWellFoundedOn(StrictSubsetOrdering(S), SUBSET S)
  <2>1. FiniteSubsetsOf(S) = SUBSET S
    BY FS_FiniteSubsetsOfFinite
  <2>2. IsWellFoundedOn(StrictSubsetOrdering(S), FiniteSubsetsOf(S))
    BY FS_StrictSubsetOrderingWellFounded
  <2> QED  BY <2>1, <2>2
<1> DEFINE Bad == {T \in SUBSET S : T \notin F}
<1> SUFFICES ASSUME Bad # {} PROVE FALSE
  OBVIOUS
<1>2. PICK T \in Bad : \A U \in Bad : ~(<<U, T>> \in StrictSubsetOrdering(S))
  <2>1. Bad \subseteq SUBSET S
    OBVIOUS
  <2> HIDE DEF Bad
  <2> QED  BY <1>1, <2>1, WFMin
<1>3. \A U \in SUBSET T : U # T => U \in F
  BY <1>2 DEF StrictSubsetOrdering
<1> QED  BY <1>2, <1>3

-----------------------------------------------------------------------------
(* Recursion over the subsets of a finite set. *)

\* h is the recursion that takes the member ch[T] of T first, from base by G.
IsRecursion(h, S, base, ch, G) ==
  h = [T \in SUBSET S |->
         IF T = {} THEN base ELSE G[<<ch[T], h[T \ {ch[T]}]>>]]

\* A function on subsets may be defined by taking one element away.
LEMMA RecursionExists ==
  ASSUME NEW S, IsFiniteSet(S), NEW V, NEW base \in V, NEW ch, NEW G,
         \A T \in SUBSET S : T # {} => ch[T] \in T,
         \A x \in S, v \in V : G[<<x, v>>] \in V
  PROVE  \E h \in [SUBSET S -> V] : IsRecursion(h, S, base, ch, G)
<1> DEFINE Small(n) == {T \in SUBSET S : Cardinality(T) <= n}
           Fn(h, n) ==
             /\ h \in [Small(n) -> V]
             /\ \A T \in Small(n) :
                  h[T] = IF T = {} THEN base ELSE G[<<ch[T], h[T \ {ch[T]}]>>]
           F == {n \in Nat : \E h : Fn(h, n)}
<1>1. \A T \in SUBSET S : IsFiniteSet(T) /\ Cardinality(T) \in Nat
                          /\ Cardinality(T) <= Cardinality(S)
  BY FS_Subset, FS_CardinalityType
<1>2. \A T \in SUBSET S : T # {} =>
        T \ {ch[T]} \in SUBSET S /\ Cardinality(T \ {ch[T]}) = Cardinality(T) - 1
  BY <1>1, FS_RemoveElement
<1>3. \A T \in SUBSET S : Cardinality(T) = 0 <=> T = {}
  BY <1>1, FS_EmptySet
<1>4. 0 \in F
  <2> DEFINE h == [T \in Small(0) |-> base]
  <2>1. \A T \in Small(0) : T = {}
    BY <1>1, <1>3
  <2>2. Fn(h, 0)
    BY <2>1
  <2> QED  BY <2>2
<1>5. ASSUME NEW n \in Nat, n \in F PROVE n + 1 \in F
  <2>1. PICK h : Fn(h, n)
    BY <1>5
  <2> DEFINE g == [T \in Small(n + 1) |->
                     IF T \in Small(n) THEN h[T] ELSE G[<<ch[T], h[T \ {ch[T]}]>>]]
  <2>2. \A T \in Small(n + 1) : T # {} => T \ {ch[T]} \in Small(n)
    BY <1>1, <1>2
  <2>3. {} \in Small(n) /\ \A T \in Small(n) : T \in Small(n + 1)
    BY <1>1, <1>3
  <2>4. g \in [Small(n + 1) -> V]
    BY <2>1, <2>2, <2>3
  <2>5. \A T \in Small(n) : g[T] = h[T]
    BY <2>3
  <2>6. ASSUME NEW T \in Small(n + 1)
        PROVE  g[T] = IF T = {} THEN base ELSE G[<<ch[T], g[T \ {ch[T]}]>>]
    BY <2>1, <2>2, <2>3, <2>5
  <2>7. Fn(g, n + 1)
    BY <2>4, <2>6
  <2>8. \E k : Fn(k, n + 1)
    <3> HIDE DEF Fn, g
    <3> QED  BY <2>7
  <2> HIDE DEF Fn, g
  <2> QED  BY <2>8
<1>6. Cardinality(S) \in F
  <2> HIDE DEF F
  <2> QED  BY <1>1, <1>4, <1>5, NatSetInduction
<1>7. PICK h : Fn(h, Cardinality(S))
  BY <1>6
<1>8. Small(Cardinality(S)) = SUBSET S
  BY <1>1
<1>9. /\ h \in [SUBSET S -> V]
      /\ \A T \in SUBSET S :
           h[T] = IF T = {} THEN base ELSE G[<<ch[T], h[T \ {ch[T]}]>>]
  BY <1>7, <1>8
<1>10. IsRecursion(h, S, base, ch, G)
  BY <1>9 DEF IsRecursion
<1> QED  BY <1>9, <1>10

-----------------------------------------------------------------------------
(* Sums of a function over a finite set. *)

SumOf(f, S) == MapThenSumSet(LAMBDA i : f[i], S)

\* f has a number for every member of S.
OfNumbers(f, S) == IsFiniteSet(S) /\ \A x \in S : f[x] \in Int

\* The recursion that MapThenSumSet stands for.
LEMMA SumRecursion ==
  ASSUME NEW f, NEW S, OfNumbers(f, S)
  PROVE  LET ch == [T \in SUBSET S |-> CHOOSE x \in T : TRUE]
             G  == [p \in S \X Int |-> f[p[1]] + p[2]]
         IN \E h \in [SUBSET S -> Int] :
              /\ IsRecursion(h, S, 0, ch, G)
              /\ \A T \in SUBSET S : SumOf(f, T) = h[T]
<1> DEFINE ch == [T \in SUBSET S |-> CHOOSE x \in T : TRUE]
           G  == [p \in S \X Int |-> f[p[1]] + p[2]]
<1>1. \A T \in SUBSET S : T # {} => ch[T] \in T
  OBVIOUS
<1>2. \A x \in S, v \in Int : G[<<x, v>>] = f[x] + v /\ G[<<x, v>>] \in Int
  BY DEF OfNumbers
<1>3. PICK h \in [SUBSET S -> Int] : IsRecursion(h, S, 0, ch, G)
  <2>1. /\ IsFiniteSet(S) /\ 0 \in Int
        /\ \A x \in S, v \in Int : G[<<x, v>>] \in Int
    BY <1>2 DEF OfNumbers
  <2> HIDE DEF ch, G
  <2> QED  BY <1>1, <2>1, RecursionExists
<1>4. ASSUME NEW T \in SUBSET S PROVE SumOf(f, T) = h[T]
  <2> DEFINE k == [U \in SUBSET T |-> h[U]]
             Is(w) == w = [s \in SUBSET T |->
                            IF s = {} THEN 0
                            ELSE f[CHOOSE x \in s : TRUE]
                                   + w[s \ {CHOOSE x \in s : TRUE}]]
  <2>1. SumOf(f, T) = (CHOOSE w : Is(w))[T]
    BY DEF SumOf, MapThenSumSet, MapThenFoldSet
  <2>2. \A U \in SUBSET T : h[U] = IF U = {} THEN 0
                                   ELSE f[CHOOSE x \in U : TRUE]
                                          + h[U \ {CHOOSE x \in U : TRUE}]
    <3> SUFFICES ASSUME NEW U \in SUBSET T
                 PROVE  h[U] = IF U = {} THEN 0
                               ELSE f[CHOOSE x \in U : TRUE]
                                      + h[U \ {CHOOSE x \in U : TRUE}]
      OBVIOUS
    <3>1. h[U] = IF U = {} THEN 0 ELSE G[<<ch[U], h[U \ {ch[U]}]>>]
      BY <1>3 DEF IsRecursion
    <3>2. U # {} => ch[U] \in S /\ h[U \ {ch[U]}] \in Int
      BY <1>1, <1>3
    <3>3. ch[U] = CHOOSE x \in U : TRUE
      OBVIOUS
    <3> HIDE DEF ch, G
    <3> QED  BY <1>2, <3>1, <3>2, <3>3
  <2>3. Is(k)
    BY <2>2
  <2> DEFINE g == CHOOSE w : Is(w)
  <2>4. Is(g)
    <3> HIDE DEF Is, k
    <3> QED  BY <2>3
  <2> DEFINE F == {U \in SUBSET T : g[U] = h[U]}
  <2>5. \A U \in SUBSET T : g[U] = IF U = {} THEN 0
                                   ELSE f[CHOOSE x \in U : TRUE]
                                          + g[U \ {CHOOSE x \in U : TRUE}]
    <3> HIDE DEF g
    <3> QED  BY <2>4
  <2>6. ASSUME NEW U \in SUBSET T, \A W \in SUBSET U : W # U => W \in F
        PROVE  U \in F
    <3>1. U # {} => U \ {CHOOSE x \in U : TRUE} \in SUBSET U
                    /\ U \ {CHOOSE x \in U : TRUE} # U
      OBVIOUS
    <3>2. U # {} => g[U \ {CHOOSE x \in U : TRUE}] = h[U \ {CHOOSE x \in U : TRUE}]
      BY <2>6, <3>1
    <3> HIDE DEF g
    <3> QED  BY <2>2, <2>5, <3>2
  <2>7. IsFiniteSet(T)
    BY FS_Subset DEF OfNumbers
  <2> HIDE DEF F
  <2>8. \A U \in SUBSET T : U \in F
    BY <2>6, <2>7, SubsetInduction
  <2>9. g[T] = h[T]
    BY <2>8 DEF F
  <2> QED  BY <2>1, <2>9
<1> QED  BY <1>3, <1>4

\* An empty sum is 0.
LEMMA SumEmpty == \A f : SumOf(f, {}) = 0
<1> SUFFICES ASSUME NEW f PROVE SumOf(f, {}) = 0
  OBVIOUS
<1>1. OfNumbers(f, {})
  BY FS_EmptySet DEF OfNumbers
<1>2. \E h \in [SUBSET {} -> Int] :
        /\ \E ch, G : IsRecursion(h, {}, 0, ch, G)
        /\ \A T \in SUBSET {} : SumOf(f, T) = h[T]
  BY <1>1, SumRecursion
<1> QED  BY <1>2 DEF IsRecursion

\* The sum is the member the fold takes first plus the sum of the others.
LEMMA SumPick ==
  ASSUME NEW f, NEW S, OfNumbers(f, S), NEW T \in SUBSET S
  PROVE  /\ SumOf(f, T) \in Int
         /\ T # {} => \E c \in T : SumOf(f, T) = f[c] + SumOf(f, T \ {c})
<1> DEFINE ch == [U \in SUBSET S |-> CHOOSE x \in U : TRUE]
           G  == [p \in S \X Int |-> f[p[1]] + p[2]]
<1>1. PICK h \in [SUBSET S -> Int] :
        /\ IsRecursion(h, S, 0, ch, G)
        /\ \A U \in SUBSET S : SumOf(f, U) = h[U]
  BY SumRecursion
<1>2. ASSUME T # {} PROVE \E c \in T : SumOf(f, T) = f[c] + SumOf(f, T \ {c})
  <2>1. ch[T] \in T /\ T \ {ch[T]} \in SUBSET S
    BY <1>2
  <2>2. h[T] = G[<<ch[T], h[T \ {ch[T]}]>>] /\ h[T \ {ch[T]}] \in Int
    <3> HIDE DEF ch, G
    <3> QED  BY <1>1, <1>2, <2>1 DEF IsRecursion
  <2>3. h[T] = f[ch[T]] + h[T \ {ch[T]}]
    <3> HIDE DEF ch
    <3> QED  BY <2>1, <2>2
  <2> HIDE DEF ch, G
  <2> QED  BY <1>1, <2>1, <2>3
<1> QED  BY <1>1, <1>2

\* Any member may be taken first.
LEMMA SumStep ==
  ASSUME NEW f, NEW S, OfNumbers(f, S), NEW T \in SUBSET S, NEW x \in T
  PROVE  SumOf(f, T) = f[x] + SumOf(f, T \ {x})
<1> DEFINE F == {U \in SUBSET S : \A y \in U : SumOf(f, U) = f[y] + SumOf(f, U \ {y})}
<1>1. ASSUME NEW U \in SUBSET S, \A W \in SUBSET U : W # U => W \in F
      PROVE  U \in F
  <2> SUFFICES ASSUME NEW y \in U PROVE SumOf(f, U) = f[y] + SumOf(f, U \ {y})
    OBVIOUS
  <2>1. PICK c \in U : SumOf(f, U) = f[c] + SumOf(f, U \ {c})
    BY SumPick
  <2>2. CASE c = y
    BY <2>1, <2>2
  <2>3. CASE c # y
    <3>1. U \ {c} \in F /\ U \ {y} \in F
      BY <1>1
    <3>2. SumOf(f, U \ {c}) = f[y] + SumOf(f, (U \ {c}) \ {y})
      BY <2>3, <3>1
    <3>3. SumOf(f, U \ {y}) = f[c] + SumOf(f, (U \ {y}) \ {c})
      BY <2>3, <3>1
    <3>4. (U \ {c}) \ {y} = (U \ {y}) \ {c}
      OBVIOUS
    <3>6. SumOf(f, U \ {c}) = f[y] + SumOf(f, (U \ {y}) \ {c})
      BY <3>2, <3>4
    <3>5. f[c] \in Int /\ f[y] \in Int /\ SumOf(f, (U \ {y}) \ {c}) \in Int
      BY SumPick DEF OfNumbers
    <3> QED  BY <2>1, <3>3, <3>5, <3>6
  <2> QED  BY <2>2, <2>3
<1> HIDE DEF F
<1>2. \A U \in SUBSET S : U \in F
  BY <1>1, SubsetInduction DEF OfNumbers
<1> QED  BY <1>2 DEF F

\* Sums of integers are integers.
LEMMA SumInt ==
  ASSUME NEW f, NEW S, OfNumbers(f, S), NEW T \in SUBSET S
  PROVE  SumOf(f, T) \in Int
BY SumPick

-----------------------------------------------------------------------------
(* What a sum preserves. *)

\* Induction over finite sets, one element at a time.
LEMMA MemberInduction ==
  ASSUME NEW S, IsFiniteSet(S), NEW F, {} \in F,
         \A T \in SUBSET S : \A x \in T : T \ {x} \in F => T \in F
  PROVE  S \in F
<1>1. ASSUME NEW T \in SUBSET S, \A U \in SUBSET T : U # T => U \in F
      PROVE  T \in F
  <2>1. CASE T = {}
    BY <2>1
  <2>2. ASSUME NEW x \in T PROVE T \in F
    <3>1. T \ {x} \in SUBSET T /\ T \ {x} # T
      OBVIOUS
    <3>2. T \ {x} \in F
      BY <1>1, <3>1
    <3> QED  BY <3>2
  <2> QED  BY <2>1, <2>2
<1>2. \A T \in SUBSET S : T \in F
  BY <1>1, SubsetInduction
<1> QED  BY <1>2

\* Products of integers distribute.
LEMMA Distributes == \A a, b, c \in Int : a * (b + c) = a * b + a * c /\ a * b \in Int
OBVIOUS

\* The sum of a combination is the combination of the sums.
LEMMA SumLinear ==
  ASSUME NEW f, NEW g, NEW S, OfNumbers(f, S), OfNumbers(g, S),
         NEW a \in Int, NEW b \in Int
  PROVE  LET h == [x \in S |-> a * f[x] + b * g[x]]
         IN OfNumbers(h, S) /\ SumOf(h, S) = a * SumOf(f, S) + b * SumOf(g, S)
<1> DEFINE h == [x \in S |-> a * f[x] + b * g[x]]
           F == {T \in SUBSET S : SumOf(h, T) = a * SumOf(f, T) + b * SumOf(g, T)}
<1>1. OfNumbers(h, S) /\ \A x \in S : h[x] = a * f[x] + b * g[x]
  BY Distributes DEF OfNumbers
<1> HIDE DEF h
<1>2. {} \in F
  BY SumEmpty
<1>3. ASSUME NEW T \in SUBSET S, NEW x \in T, T \ {x} \in F PROVE T \in F
  <2> DEFINE sf == SumOf(f, T \ {x})
             sg == SumOf(g, T \ {x})
  <2>1. /\ SumOf(f, T) = f[x] + sf /\ SumOf(g, T) = g[x] + sg
        /\ SumOf(h, T) = h[x] + (a * sf + b * sg)
    BY <1>1, <1>3, SumStep
  <2>2. sf \in Int /\ sg \in Int /\ f[x] \in Int /\ g[x] \in Int
    BY SumInt DEF OfNumbers
  <2> HIDE DEF sf, sg
  <2>3. /\ a * (f[x] + sf) = a * f[x] + a * sf /\ b * (g[x] + sg) = b * g[x] + b * sg
        /\ a * f[x] \in Int /\ a * sf \in Int /\ b * g[x] \in Int /\ b * sg \in Int
    BY <2>2, Distributes
  <2>4. h[x] + (a * sf + b * sg) = a * (f[x] + sf) + b * (g[x] + sg)
    BY <1>1, <2>3
  <2> QED  BY <2>1, <2>4
<1> HIDE DEF F
<1>4. S \in F
  BY <1>2, <1>3, MemberInduction DEF OfNumbers
<1> QED  BY <1>1, <1>4 DEF F, h

\* A sum of smaller terms is no larger.
LEMMA SumAtMost ==
  ASSUME NEW f, NEW g, NEW S, OfNumbers(f, S), OfNumbers(g, S),
         \A x \in S : f[x] <= g[x]
  PROVE  SumOf(f, S) <= SumOf(g, S)
<1> DEFINE F == {T \in SUBSET S : SumOf(f, T) <= SumOf(g, T)}
<1>1. {} \in F
  BY SumEmpty
<1>2. ASSUME NEW T \in SUBSET S, NEW x \in T, T \ {x} \in F PROVE T \in F
  <2>1. /\ SumOf(f, T) = f[x] + SumOf(f, T \ {x})
        /\ SumOf(g, T) = g[x] + SumOf(g, T \ {x})
    BY SumStep
  <2>2. /\ SumOf(f, T \ {x}) \in Int /\ SumOf(g, T \ {x}) \in Int
        /\ f[x] \in Int /\ g[x] \in Int /\ f[x] <= g[x]
        /\ SumOf(f, T \ {x}) <= SumOf(g, T \ {x})
    BY <1>2, SumInt DEF OfNumbers
  <2> QED  BY <2>1, <2>2
<1> HIDE DEF F
<1>3. S \in F
  BY <1>1, <1>2, MemberInduction DEF OfNumbers
<1> QED  BY <1>3 DEF F

\* A sum of strictly smaller numbers is strictly smaller, unless it is empty.
LEMMA SumBelow ==
  ASSUME NEW f, NEW g, NEW S, OfNumbers(f, S), OfNumbers(g, S), S # {},
         \A x \in S : f[x] < g[x]
  PROVE  SumOf(f, S) < SumOf(g, S)
<1>1. PICK x \in S : TRUE
  OBVIOUS
<1>2. OfNumbers(f, S \ {x}) /\ OfNumbers(g, S \ {x})
  BY FS_Subset DEF OfNumbers
<1>3. f[x] \in Int /\ g[x] \in Int /\ \A y \in S \ {x} : f[y] <= g[y]
  BY DEF OfNumbers
<1>4. SumOf(f, S \ {x}) <= SumOf(g, S \ {x})
  BY <1>2, <1>3, SumAtMost
<1>5. SumOf(f, S) = f[x] + SumOf(f, S \ {x}) /\ SumOf(g, S) = g[x] + SumOf(g, S \ {x})
  BY SumStep
<1> QED  BY <1>3, <1>4, <1>5, SumInt

\* A sum of equal terms is a product.
LEMMA SumConstant ==
  ASSUME NEW f, NEW S, IsFiniteSet(S), NEW k \in Int, \A x \in S : f[x] = k
  PROVE  OfNumbers(f, S) /\ SumOf(f, S) = k * Cardinality(S)
<1> DEFINE F == {T \in SUBSET S : SumOf(f, T) = k * Cardinality(T)}
<1>1. OfNumbers(f, S)
  BY DEF OfNumbers
<1>2. {} \in F
  BY SumEmpty, FS_EmptySet
<1>3. ASSUME NEW T \in SUBSET S, NEW x \in T, T \ {x} \in F PROVE T \in F
  <2>1. SumOf(f, T) = k + k * Cardinality(T \ {x})
    BY <1>1, <1>3, SumStep
  <2>2. IsFiniteSet(T)
    BY FS_Subset
  <2>3. Cardinality(T) \in Nat /\ Cardinality(T \ {x}) = Cardinality(T) - 1
    BY <2>2, FS_RemoveElement, FS_CardinalityType
  <2>4. \A n \in Int : k + k * (n - 1) = k * n
    OBVIOUS
  <2> QED  BY <2>1, <2>3, <2>4
<1> HIDE DEF F
<1>4. S \in F
  BY <1>2, <1>3, MemberInduction
<1> QED  BY <1>1, <1>4 DEF F

\* A sum of terms that are not negative is not negative.
LEMMA SumNonNegative ==
  ASSUME NEW f, NEW S, OfNumbers(f, S), \A x \in S : f[x] >= 0
  PROVE  SumOf(f, S) \in Nat
<1> DEFINE zero == [x \in S |-> 0]
<1>1. OfNumbers(zero, S) /\ SumOf(zero, S) = 0
  <2>1. \A x \in S : zero[x] = 0
    OBVIOUS
  <2>2. IsFiniteSet(S) /\ Cardinality(S) \in Nat
    BY FS_CardinalityType DEF OfNumbers
  <2> HIDE DEF zero
  <2> QED  BY <2>1, <2>2, SumConstant
<1>2. \A x \in S : zero[x] <= f[x]
  OBVIOUS
<1> HIDE DEF zero
<1>3. SumOf(zero, S) <= SumOf(f, S)
  BY <1>1, <1>2, SumAtMost
<1> QED  BY <1>1, <1>3, SumInt

\* No term is larger than the sum.
LEMMA SumBounds ==
  ASSUME NEW f, NEW S, OfNumbers(f, S), \A x \in S : f[x] >= 0
  PROVE  SumOf(f, S) \in Nat /\ \A x \in S : f[x] <= SumOf(f, S)
<1>1. SumOf(f, S) \in Nat
  BY SumNonNegative
<1>2. ASSUME NEW x \in S PROVE f[x] <= SumOf(f, S)
  <2>1. SumOf(f, S) = f[x] + SumOf(f, S \ {x})
    BY SumStep
  <2>2. OfNumbers(f, S \ {x}) /\ \A y \in S \ {x} : f[y] >= 0
    BY FS_Subset DEF OfNumbers
  <2>3. SumOf(f, S \ {x}) \in Nat /\ f[x] \in Int
    BY <2>2, SumNonNegative DEF OfNumbers
  <2> QED  BY <2>1, <2>3
<1> QED  BY <1>1, <1>2

\* Equal terms have equal sums.
LEMMA SumSame ==
  ASSUME NEW f, NEW g, NEW S, OfNumbers(f, S), \A x \in S : g[x] = f[x]
  PROVE  OfNumbers(g, S) /\ SumOf(g, S) = SumOf(f, S)
<1>1. OfNumbers(g, S)
  BY DEF OfNumbers
<1>2. \A x \in S : f[x] <= g[x] /\ g[x] <= f[x]
  BY DEF OfNumbers
<1>3. SumOf(f, S) <= SumOf(g, S)
  BY <1>1, <1>2, SumAtMost
<1>4. SumOf(g, S) <= SumOf(f, S)
  BY <1>1, <1>2, SumAtMost
<1> QED  BY <1>1, <1>3, <1>4, SumInt

\* A factor of every term is a factor of the sum.
LEMMA SumTimes ==
  ASSUME NEW f, NEW S, OfNumbers(f, S), NEW a \in Int
  PROVE  LET h == [x \in S |-> a * f[x]]
         IN OfNumbers(h, S) /\ SumOf(h, S) = a * SumOf(f, S)
<1> DEFINE h == [x \in S |-> a * f[x]]
           k == [x \in S |-> a * f[x] + 0 * f[x]]
<1>1. OfNumbers(k, S) /\ SumOf(k, S) = a * SumOf(f, S) + 0 * SumOf(f, S)
  <2>1. 0 \in Int
    OBVIOUS
  <2> QED  BY <2>1, SumLinear
<1>2. \A x \in S : h[x] = k[x]
  BY Distributes DEF OfNumbers
<1> HIDE DEF h, k
<1>3. OfNumbers(h, S) /\ SumOf(h, S) = SumOf(k, S)
  BY <1>1, <1>2, SumSame
<1>4. SumOf(f, S) \in Int /\ a * SumOf(f, S) \in Int
  BY SumInt
<1> QED  BY <1>1, <1>3, <1>4 DEF h

\* What is moved out of a set leaves its sum.
LEMMA SumSplit ==
  ASSUME NEW f, NEW S, OfNumbers(f, S), NEW A \in SUBSET S
  PROVE  SumOf(f, S) = SumOf(f, A) + SumOf(f, S \ A)
<1> DEFINE F == {T \in SUBSET A : SumOf(f, S) = SumOf(f, T) + SumOf(f, S \ T)}
<1>1. {} \in F
  <2>1. S \ {} = S /\ SumOf(f, S) \in Int
    BY SumInt
  <2> QED  BY <2>1, SumEmpty
<1>2. ASSUME NEW T \in SUBSET A, NEW x \in T, T \ {x} \in F PROVE T \in F
  <2>1. SumOf(f, T) = f[x] + SumOf(f, T \ {x})
    BY SumStep
  <2>2. (S \ (T \ {x})) \ {x} = S \ T /\ x \in S \ (T \ {x})
    OBVIOUS
  <2>3. SumOf(f, S \ (T \ {x})) = f[x] + SumOf(f, S \ T)
    <3>1. SumOf(f, S \ (T \ {x})) = f[x] + SumOf(f, (S \ (T \ {x})) \ {x})
      BY <2>2, SumStep
    <3> QED  BY <2>2, <3>1
  <2>4. f[x] \in Int /\ SumOf(f, S \ T) \in Int /\ SumOf(f, T \ {x}) \in Int
    BY SumInt DEF OfNumbers
  <2> QED  BY <1>2, <2>1, <2>3, <2>4
<1> HIDE DEF F
<1>3. IsFiniteSet(A)
  BY FS_Subset DEF OfNumbers
<1>4. A \in F
  BY <1>1, <1>2, <1>3, MemberInduction
<1> QED  BY <1>4 DEF F

\* What is added to one term is added to the sum.
LEMMA SumExcept ==
  ASSUME NEW S, IsFiniteSet(S), NEW f \in [S -> Int], NEW x \in S, NEW d \in Int
  PROVE  SumOf([f EXCEPT ![x] = @ + d], S) = SumOf(f, S) + d
<1> DEFINE g == [f EXCEPT ![x] = @ + d]
<1>1. /\ OfNumbers(f, S) /\ OfNumbers(g, S) /\ OfNumbers(f, S \ {x})
      /\ g[x] = f[x] + d /\ \A y \in S \ {x} : g[y] = f[y]
  BY FS_Subset DEF OfNumbers
<1> HIDE DEF g
<1>2. SumOf(g, S \ {x}) = SumOf(f, S \ {x})
  BY <1>1, SumSame
<1>3. SumOf(f, S) = f[x] + SumOf(f, S \ {x}) /\ SumOf(g, S) = g[x] + SumOf(g, S \ {x})
  BY <1>1, SumStep
<1>4. f[x] \in Int /\ SumOf(f, S \ {x}) \in Int
  BY <1>1, SumInt DEF OfNumbers
<1>5. SumOf(g, S) = SumOf(f, S) + d
  BY <1>1, <1>2, <1>3, <1>4
<1> QED  BY <1>5 DEF g

\* Folding a function with + is its sum.
LEMMA FoldFunctionIsSum == \A f : FoldFunction(+, 0, f) = SumOf(f, DOMAIN f)
BY DEF FoldFunction, FoldFunctionOnSet, SumOf, MapThenSumSet, MapThenFoldSet

\* FoldSeq with + is the sum over the positions.
LEMMA FoldSeqIsSum == \A s : FoldSeq(+, 0, s) = SumOf(s, DOMAIN s)
BY DEF FoldSeq, FoldFunction, FoldFunctionOnSet, SumOf, MapThenSumSet, MapThenFoldSet

-----------------------------------------------------------------------------
(* Folds of a sequence from the left. *)

\* Taking the largest away from 1..k leaves 1..k - 1.
LEMMA LastOfInterval ==
  \A k \in Nat \ {0} : /\ 1..k # {} /\ Max(1..k) = k
                       /\ (1..k) \ {Max(1..k)} = 1..(k - 1)
<1> SUFFICES ASSUME NEW k \in Nat \ {0}
             PROVE  /\ 1..k # {} /\ Max(1..k) = k
                    /\ (1..k) \ {Max(1..k)} = 1..(k - 1)
  OBVIOUS
<1>1. k \in 1..k /\ \A y \in 1..k : k >= y
  OBVIOUS
<1>2. \A x \in 1..k : (\A y \in 1..k : x >= y) => x = k
  BY <1>1
<1>3. Max(1..k) = k
  BY <1>1, <1>2 DEF Max
<1> QED  BY <1>1, <1>3

\* The maximum of some numbers is one of them.
LEMMA MaxIsMember ==
  ASSUME NEW n \in Nat, NEW T \in SUBSET (1..n), T # {}
  PROVE  Max(T) \in T /\ \A y \in T : Max(T) >= y
<1> DEFINE Above == {k \in Nat : \A y \in T : k >= y}
<1>1. PICK k \in Above : \A l \in Above : k <= l
  <2>1. n \in Above /\ Above \in SUBSET Nat
    OBVIOUS
  <2> HIDE DEF Above
  <2> QED  BY <2>1, Least
<1>2. k \in T
  <2> SUFFICES ASSUME k \notin T PROVE FALSE
    OBVIOUS
  <2>1. k \in Nat /\ \A y \in T : y \in Nat /\ y >= 1 /\ k >= y /\ y # k
    BY <1>1
  <2>2. \A y \in T : k - 1 >= y
    BY <2>1
  <2>3. k - 1 \in Nat
    <3>1. PICK y \in T : TRUE
      OBVIOUS
    <3> QED  BY <2>1, <3>1
  <2>4. k - 1 \in Above
    BY <2>2, <2>3
  <2>5. k <= k - 1
    BY <1>1, <2>4
  <2> QED  BY <2>1, <2>5
<1>3. \E x \in T : \A y \in T : x >= y
  BY <1>1, <1>2
<1> QED  BY <1>3 DEF Max

\* The recursion FoldLeft stands for, with G[<<k, v>>] for op(v, seq[k]).
IsLeftRecursion(h, n, base, G) ==
  \A T \in SUBSET (1..n) :
    h[T] = IF T = {} THEN base ELSE G[<<Max(T), h[T \ {Max(T)}]>>]

\* A fold from the left, as a recursion over 1..n.
LEMMA LeftRecursion ==
  ASSUME NEW n \in Nat, NEW V, NEW base \in V, NEW G,
         \A k \in 1..n, v \in V : G[<<k, v>>] \in V
  PROVE  \E h \in [SUBSET (1..n) -> V] : IsLeftRecursion(h, n, base, G)
<1> DEFINE ch == [T \in SUBSET (1..n) |-> Max(T)]
<1>1. \A T \in SUBSET (1..n) : T # {} => ch[T] \in T
  BY MaxIsMember
<1>2. IsFiniteSet(1..n)
  BY IntervalCount
<1>3. \A T \in SUBSET (1..n) : ch[T] = Max(T)
  OBVIOUS
<1> HIDE DEF ch
<1>4. PICK h \in [SUBSET (1..n) -> V] : IsRecursion(h, 1..n, base, ch, G)
  BY <1>1, <1>2, RecursionExists
<1>5. ASSUME NEW T \in SUBSET (1..n)
      PROVE  h[T] = IF T = {} THEN base ELSE G[<<Max(T), h[T \ {Max(T)}]>>]
  BY <1>3, <1>4 DEF IsRecursion
<1> QED  BY <1>5 DEF IsLeftRecursion

\* FoldLeft with + adds one element after the other.
LEMMA FoldLeftAdds ==
  ASSUME NEW s \in Seq(Int)
  PROVE  \E a : /\ a[0] = 0
                /\ \A k \in 1..Len(s) : a[k] = a[k - 1] + s[k]
                /\ FoldLeft(+, 0, s) = a[Len(s)]
<1> DEFINE n == Len(s)
           Is(w) == w = [T \in SUBSET (1..n) |->
                           IF T = {} THEN 0 ELSE w[T \ {Max(T)}] + s[Max(T)]]
           G == [p \in (1..n) \X Int |-> p[2] + s[p[1]]]
           g == CHOOSE w : Is(w)
<1>1. n \in Nat /\ DOMAIN s = 1..n /\ \A k \in 1..n : s[k] \in Int
  OBVIOUS
<1>2. \A k \in 1..n, v \in Int : G[<<k, v>>] = v + s[k] /\ G[<<k, v>>] \in Int
  BY <1>1
<1>3. FoldLeft(+, 0, s) = g[1..n]
  BY <1>1 DEF FoldLeft, MapThenFoldSet
<1>4. \E w : Is(w)
  <2>1. PICK h \in [SUBSET (1..n) -> Int] : IsLeftRecursion(h, n, 0, G)
    <3>1. /\ n \in Nat /\ 0 \in Int
          /\ \A k \in 1..n, v \in Int : G[<<k, v>>] \in Int
      BY <1>1, <1>2
    <3> HIDE DEF G, n
    <3> QED  BY <3>1, LeftRecursion
  <2>2. ASSUME NEW T \in SUBSET (1..n)
        PROVE  h[T] = IF T = {} THEN 0 ELSE h[T \ {Max(T)}] + s[Max(T)]
    <3>1. T # {} => Max(T) \in 1..n /\ h[T \ {Max(T)}] \in Int
      BY <1>1, <2>1, MaxIsMember
    <3> HIDE DEF G, n
    <3> QED  BY <1>2, <2>1, <3>1 DEF IsLeftRecursion
  <2>3. h = [T \in SUBSET (1..n) |->
               IF T = {} THEN 0 ELSE h[T \ {Max(T)}] + s[Max(T)]]
    <3> HIDE DEF n
    <3> QED  BY <2>2
  <2> QED  BY <2>3
<1>5. Is(g)
  <2> HIDE DEF Is
  <2> QED  BY <1>4
<1> HIDE DEF g, n, G
<1> DEFINE a == [k \in 0..n |-> g[1..k]]
<1>6. a[0] = 0
  <2>1. 1..0 = {} /\ {} \in SUBSET (1..n) /\ 0 \in 0..n
    BY <1>1
  <2>2. g[{}] = 0
    BY <1>5, <2>1
  <2> QED  BY <2>1, <2>2
<1>7. ASSUME NEW k \in 1..n PROVE a[k] = a[k - 1] + s[k]
  <2>1. k \in Nat \ {0} /\ 1..k \in SUBSET (1..n) /\ k \in 0..n /\ k - 1 \in 0..n
    BY <1>1
  <2>2. g[1..k] = g[(1..k) \ {Max(1..k)}] + s[Max(1..k)]
    BY <1>5, <2>1, LastOfInterval
  <2>3. g[1..k] = g[1..(k - 1)] + s[k]
    BY <2>1, <2>2, LastOfInterval
  <2> QED  BY <2>1, <2>3
<1>8. a[n] = g[1..n]
  BY <1>1
<1> HIDE DEF a
<1> QED  BY <1>3, <1>6, <1>7, <1>8 DEF n
=============================================================================
