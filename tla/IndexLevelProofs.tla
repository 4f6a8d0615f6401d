-------------------------- MODULE IndexLevelProofs --------------------------
(***************************************************************************)
(* For every set of names, every price and every weight vector: the state  *)
(* an epoch leaves behind is one the next can divide by, and the level     *)
(* moves with the prices of what is held, whatever is bought and sold: it  *)
(* is the chained index of ChainedIndex.                                   *)
(*                                                                         *)
(* The first part shows that fractions in lowest terms may be reasoned     *)
(* about by cross-multiplication.                                          *)
(***************************************************************************)
EXTENDS IndexLevel, FoldProofs

Pos == Nat \ {0}

\* Products of positive numbers are positive, and commute and associate.
LEMMA Products ==
  /\ \A a, b \in Pos : a * b \in Pos
  /\ \A a, b \in Int : a * b \in Int /\ a * b = b * a
  /\ \A a, b, c \in Int : (a * b) * c = a * (b * c)
BY DEF Pos

\* A positive factor can be cancelled.
LEMMA Cancel == \A a, b \in Int, c \in Pos : /\ a * c = b * c => a = b
                                            /\ a * c <= b * c <=> a <= b
BY DEF Pos

-----------------------------------------------------------------------------
(* Common divisors. *)

Common(m, n) == {d \in Pos : \E a, b \in Nat : a * d = m /\ b * d = n}

\* Common divisors are bounded, so there is a greatest.
LEMMA CommonIsBounded ==
  ASSUME NEW m \in Nat, NEW n \in Nat, m # 0 \/ n # 0
  PROVE  /\ Common(m, n) \in SUBSET (1..(m + n))
         /\ 1 \in Common(m, n)
         /\ Max(Common(m, n)) \in Common(m, n)
         /\ \A d \in Common(m, n) : Max(Common(m, n)) >= d
<1>1. ASSUME NEW d \in Common(m, n) PROVE d \in 1..(m + n)
  <2>1. PICK a \in Nat, b \in Nat : a * d = m /\ b * d = n
    BY DEF Common
  <2>2. d \in Pos /\ (a >= 1 \/ b >= 1)
    BY <2>1 DEF Common, Pos
  <2>3. a >= 1 => d <= a * d
    BY <2>2 DEF Pos
  <2>4. b >= 1 => d <= b * d
    BY <2>2 DEF Pos
  <2> QED  BY <2>1, <2>2, <2>3, <2>4 DEF Pos
<1>2. 1 \in Common(m, n)
  <2>1. m * 1 = m /\ n * 1 = n /\ 1 \in Pos
    BY DEF Pos
  <2> QED  BY <2>1 DEF Common
<1>3. Common(m, n) \in SUBSET (1..(m + n)) /\ Common(m, n) # {} /\ m + n \in Nat
  BY <1>1, <1>2
<1> QED  BY <1>2, <1>3, MaxIsMember

\* m and n have the common divisors of n and m % n.
LEMMA Euclid ==
  ASSUME NEW m \in Nat, NEW n \in Pos
  PROVE  /\ m % n \in Nat /\ m % n < n
         /\ Common(m, n) = Common(n, m % n)
<1> DEFINE q == m \div n
           r == m % n
<1>1. q \in Nat /\ r \in Nat /\ r < n /\ m = n * q + r
  BY DEF Pos
<1> HIDE DEF q, r
<1>2. ASSUME NEW d \in Common(m, n) PROVE d \in Common(n, r)
  <2>1. PICK a \in Nat, b \in Nat : a * d = m /\ b * d = n
    BY DEF Common
  <2>2. d \in Pos
    BY DEF Common
  <2> DEFINE c == a - b * q
  <2>3. c \in Int /\ c * d = a * d - (b * d) * q
    BY <1>1, <2>2 DEF Pos
  <2> HIDE DEF c
  <2>4. c * d = r
    <3>1. (b * d) * q = n * q /\ n * q \in Int
      BY <1>1, <2>1 DEF Pos
    <3>2. c * d = m - n * q
      BY <2>1, <2>3, <3>1
    <3> QED  BY <1>1, <3>1, <3>2
  <2>5. c >= 0
    BY <1>1, <2>2, <2>3, <2>4 DEF Pos
  <2> QED  BY <2>1, <2>2, <2>3, <2>4, <2>5 DEF Common
<1>3. ASSUME NEW d \in Common(n, r) PROVE d \in Common(m, n)
  <2>1. PICK a \in Nat, b \in Nat : a * d = n /\ b * d = r
    BY DEF Common
  <2>2. d \in Pos
    BY DEF Common
  <2> DEFINE c == a * q + b
  <2>3. c \in Nat /\ c * d = (a * d) * q + b * d
    BY <1>1, <2>2 DEF Pos
  <2>4. c * d = m
    BY <1>1, <2>1, <2>3
  <2> HIDE DEF c
  <2> QED  BY <2>1, <2>2, <2>3, <2>4 DEF Common
<1> QED  BY <1>1, <1>2, <1>3 DEF q, r

\* gcd, which is defined by its recursion, is the greatest of them.
Greatest(m, n) == IF m = 0 /\ n = 0 THEN 0 ELSE Max(Common(m, n))

\* The greatest common divisor satisfies Euclid's recursion.
LEMMA GreatestRecursion ==
  ASSUME NEW m \in Nat, NEW n \in Nat
  PROVE  Greatest(m, n) = IF n = 0 THEN m ELSE Greatest(n, m % n)
<1>1. CASE n # 0
  BY <1>1, Euclid DEF Greatest, Pos
<1>2. CASE n = 0 /\ m # 0
  <2>1. m \in Common(m, 0)
    <3>1. 1 * m = m /\ 0 * m = 0 /\ m \in Pos
      BY <1>2 DEF Pos
    <3> QED  BY <3>1 DEF Common
  <2>2. ASSUME NEW d \in Common(m, 0) PROVE d <= m
    <3>1. PICK a \in Nat : a * d = m
      BY DEF Common
    <3>2. d \in Pos
      BY DEF Common
    <3>3. a >= 1
      BY <1>2, <3>1, <3>2 DEF Pos
    <3>4. d <= a * d
      BY <3>2, <3>3 DEF Pos
    <3> QED  BY <3>1, <3>4
  <2>3. Max(Common(m, 0)) >= m /\ Max(Common(m, 0)) <= m /\ Max(Common(m, 0)) \in Pos
    <3>1. Max(Common(m, 0)) \in Common(m, 0) /\ Max(Common(m, 0)) >= m
      BY <1>2, <2>1, CommonIsBounded
    <3> QED  BY <2>2, <3>1 DEF Common
  <2> QED  BY <1>2, <2>3 DEF Greatest, Pos
<1>3. CASE n = 0 /\ m = 0
  BY <1>3 DEF Greatest
<1> QED  BY <1>1, <1>2, <1>3

\* So that is what gcd computes.
LEMMA GcdIsGreatest == \A m, n \in Nat : gcd[<<m, n>>] = Greatest(m, n)
<1> DEFINE Is(w) == w = [p \in Nat \X Nat |-> IF p[2] = 0 THEN p[1] ELSE w[<<p[2], p[1] % p[2]>>]]
           G == [p \in Nat \X Nat |-> Greatest(p[1], p[2])]
<1>1. Is(G)
  <2>1. ASSUME NEW p \in Nat \X Nat
        PROVE  Greatest(p[1], p[2]) = IF p[2] = 0 THEN p[1] ELSE G[<<p[2], p[1] % p[2]>>]
    <3>1. p[2] # 0 => p[1] % p[2] \in Nat
      OBVIOUS
    <3>2. p[2] # 0 => G[<<p[2], p[1] % p[2]>>] = Greatest(p[2], p[1] % p[2])
      BY <3>1
    <3> HIDE DEF G
    <3> QED  BY <3>2, GreatestRecursion
  <2>2. G = [p \in Nat \X Nat |-> IF p[2] = 0 THEN p[1] ELSE G[<<p[2], p[1] % p[2]>>]]
    BY <2>1
  <2> QED  BY <2>2
<1>2. Is(gcd)
  <2>1. gcd = CHOOSE w : Is(w)
    BY DEF gcd
  <2> HIDE DEF Is, G
  <2> QED  BY <1>1, <2>1
<1>3. \A m, n \in Nat : gcd[<<m, n>>] = IF n = 0 THEN m ELSE gcd[<<n, m % n>>]
  <2> HIDE DEF G
  <2> QED  BY <1>2
<1> HIDE DEF Is, G
<1> DEFINE Bad == {n \in Nat : \E m \in Nat : gcd[<<m, n>>] # Greatest(m, n)}
<1> SUFFICES ASSUME Bad # {} PROVE FALSE
  OBVIOUS
<1>4. PICK n \in Bad : \A k \in Bad : n <= k
  <2>1. Bad \in SUBSET Nat
    OBVIOUS
  <2> HIDE DEF Bad
  <2> QED  BY <2>1, Least
<1>5. PICK m \in Nat : gcd[<<m, n>>] # Greatest(m, n)
  BY <1>4
<1>6. n \in Nat /\ n # 0
  BY <1>3, <1>4, <1>5, GreatestRecursion
<1>7. m % n \in Nat /\ m % n < n
  BY <1>6, Euclid DEF Pos
<1>8. gcd[<<n, m % n>>] = Greatest(n, m % n)
  BY <1>4, <1>6, <1>7
<1> QED  BY <1>3, <1>5, <1>6, <1>8, GreatestRecursion

-----------------------------------------------------------------------------
(* Fractions. *)

\* f is the ratio of m to n.
Ratio(f, m, n) == f[1] \in Pos /\ f[2] \in Pos /\ f[1] * n = m * f[2]

\* Division without a remainder.
LEMMA QuotientIs ==
  ASSUME NEW a \in Nat, NEW d \in Pos
  PROVE  (a * d) \div d = a
<1> DEFINE q == (a * d) \div d
           r == (a * d) % d
<1>1. a * d \in Nat
  BY DEF Pos
<1>2. q \in Nat /\ r \in Nat /\ r < d /\ a * d = d * q + r
  BY <1>1 DEF Pos
<1> HIDE DEF q, r
<1>3. (a - q) * d = r
  BY <1>2 DEF Pos
<1>4. ~(a - q >= 1)
  <2> SUFFICES ASSUME a - q >= 1 PROVE FALSE
    OBVIOUS
  <2>1. (a - q) * d >= d
    BY <1>2 DEF Pos
  <2> QED  BY <1>2, <1>3, <2>1 DEF Pos
<1>5. ~(a - q <= -1)
  <2> SUFFICES ASSUME a - q <= -1 PROVE FALSE
    OBVIOUS
  <2>1. (a - q) * d <= -d
    BY <1>2 DEF Pos
  <2> QED  BY <1>2, <1>3, <2>1 DEF Pos
<1>6. q = a
  BY <1>2, <1>4, <1>5
<1> QED  BY <1>6 DEF q

\* Frac(m, n) stands for the ratio of m to n.
LEMMA FracIs ==
  ASSUME NEW m \in Pos, NEW n \in Pos
  PROVE  Ratio(Frac(m, n), m, n)
<1> DEFINE g == gcd[<<m, n>>]
<1>1. g \in Common(m, n)
  <2>1. m \in Nat /\ n \in Nat /\ m # 0
    BY DEF Pos
  <2>2. g = Max(Common(m, n))
    BY <2>1, GcdIsGreatest DEF Greatest
  <2> QED  BY <2>1, <2>2, CommonIsBounded
<1> HIDE DEF g
<1>2. PICK a \in Nat, b \in Nat : a * g = m /\ b * g = n
  BY <1>1 DEF Common
<1>3. g \in Pos
  BY <1>1 DEF Common
<1>4. m \div g = a /\ n \div g = b
  BY <1>2, <1>3, QuotientIs
<1>5. a # 0 /\ b # 0
  BY <1>2, <1>3 DEF Pos
<1>6. a * n = m * b
  <2>1. a * (b * g) = (a * g) * b
    BY <1>3 DEF Pos
  <2> QED  BY <1>2, <2>1
<1>7. Frac(m, n) = <<a, b>>
  BY <1>4 DEF Frac, g
<1> QED  BY <1>5, <1>6, <1>7 DEF Ratio, Pos

\* Cross-multiplication of what two fractions stand for.
LEMMA CrossProducts ==
  ASSUME NEW f, NEW g, NEW m \in Pos, NEW n \in Pos, NEW p \in Pos, NEW q \in Pos,
         Ratio(f, m, n), Ratio(g, p, q)
  PROVE  /\ (f[1] * g[1]) * (n * q) = (m * p) * (f[2] * g[2])
         /\ AtMost(f, g) <=> m * q <= p * n
<1> DEFINE a == f[1]
           b == f[2]
           c == g[1]
           d == g[2]
<1>1. a \in Pos /\ b \in Pos /\ c \in Pos /\ d \in Pos /\ a * n = m * b /\ c * q = p * d
  BY DEF Ratio
<1>2. AtMost(f, g) <=> a * d <= c * b
  BY DEF AtMost
<1> HIDE DEF a, b, c, d
<1>3. (a * c) * (n * q) = (m * p) * (b * d)
  <2>1. (a * c) * (n * q) = (a * n) * (c * q) /\ (m * p) * (b * d) = (m * b) * (p * d)
    BY <1>1 DEF Pos
  <2> QED  BY <1>1, <2>1
<1>4. (a * d) * (n * q) = (m * q) * (b * d) /\ (c * b) * (n * q) = (p * n) * (b * d)
  <2>1. (a * d) * (n * q) = (a * n) * (d * q) /\ (m * q) * (b * d) = (m * b) * (d * q)
    BY <1>1 DEF Pos
  <2>2. (c * b) * (n * q) = (c * q) * (b * n) /\ (p * n) * (b * d) = (p * d) * (b * n)
    BY <1>1 DEF Pos
  <2> QED  BY <1>1, <2>1, <2>2
<1>5. /\ a * d \in Int /\ c * b \in Int /\ n * q \in Pos /\ m * q \in Int /\ p * n \in Int
      /\ b * d \in Pos
  BY <1>1, Products DEF Pos
<1>6. a * d <= c * b <=> (a * d) * (n * q) <= (c * b) * (n * q)
  BY <1>5, Cancel
<1>7. m * q <= p * n <=> (m * q) * (b * d) <= (p * n) * (b * d)
  BY <1>5, Cancel
<1> QED  BY <1>2, <1>3, <1>4, <1>6, <1>7 DEF a, b, c, d

\* A fraction of fractions is the fraction of what they stand for.
LEMMA RatioOfRatio ==
  ASSUME NEW f, NEW k \in Pos, NEW l \in Pos, NEW m \in Pos, NEW n \in Pos,
         Ratio(f, k, l), k * n = m * l
  PROVE  Ratio(f, m, n)
<1> DEFINE a == f[1]
           b == f[2]
<1>1. a \in Pos /\ b \in Pos /\ a * l = k * b
  BY DEF Ratio
<1> HIDE DEF a, b
<1>2. (a * n) * l = (m * b) * l
  <2>1. (a * n) * l = (a * l) * n /\ (k * b) * n = (k * n) * b /\ (m * l) * b = (m * b) * l
    BY <1>1 DEF Pos
  <2> QED  BY <1>1, <2>1
<1>3. a * n \in Int /\ m * b \in Int /\ l \in Pos
  BY <1>1 DEF Pos
<1>4. a * n = m * b
  BY <1>2, <1>3, Cancel
<1> QED  BY <1>1, <1>4 DEF Ratio, a, b

\* Times multiplies ratios.
LEMMA TimesIs ==
  ASSUME NEW f, NEW g, NEW m \in Pos, NEW n \in Pos, NEW p \in Pos, NEW q \in Pos,
         Ratio(f, m, n), Ratio(g, p, q)
  PROVE  /\ m * p \in Pos /\ n * q \in Pos
         /\ Ratio(Times(f, g), m * p, n * q)
<1> DEFINE k == f[1] * g[1]
           l == f[2] * g[2]
<1>1. k * (n * q) = (m * p) * l
  BY CrossProducts
<1>2. k \in Pos /\ l \in Pos /\ m * p \in Pos /\ n * q \in Pos
  BY Products DEF Ratio
<1>3. Times(f, g) = Frac(k, l)
  BY DEF Times
<1> HIDE DEF k, l
<1>4. Ratio(Times(f, g), k, l)
  BY <1>2, <1>3, FracIs
<1> QED  BY <1>1, <1>2, <1>4, RatioOfRatio

\* Over divides ratios.
LEMMA OverIs ==
  ASSUME NEW f, NEW g, NEW m \in Pos, NEW n \in Pos, NEW p \in Pos, NEW q \in Pos,
         Ratio(f, m, n), Ratio(g, p, q)
  PROVE  /\ m * q \in Pos /\ n * p \in Pos
         /\ Ratio(Over(f, g), m * q, n * p)
<1> DEFINE h == <<g[2], g[1]>>
<1>1. h[1] = g[2] /\ h[2] = g[1]
  OBVIOUS
<1>2. Ratio(h, q, p)
  BY <1>1, Products DEF Ratio, Pos
<1>3. Over(f, g) = Times(f, h)
  <2>1. f[2] * g[1] = g[1] * f[2]
    BY Products DEF Ratio, Pos
  <2> QED  BY <1>1, <2>1 DEF Over, Times
<1> HIDE DEF h
<1> QED  BY <1>2, <1>3, TimesIs

-----------------------------------------------------------------------------
(* Baskets. *)

\* Total is a sum.
LEMMA TotalIs == \A f : Total(f) = SumOf(f, DOMAIN f)
BY FoldFunctionIsSum DEF Total

\* Positive terms have a positive total.
LEMMA TotalIsPositive ==
  ASSUME NEW f, IsFiniteSet(DOMAIN f), DOMAIN f # {}, \A x \in DOMAIN f : f[x] \in Pos
  PROVE  OfNumbers(f, DOMAIN f) /\ Total(f) \in Pos
<1>1. OfNumbers(f, DOMAIN f) /\ \A x \in DOMAIN f : f[x] >= 0
  BY DEF OfNumbers, Pos
<1>2. SumOf(f, DOMAIN f) \in Nat /\ \A x \in DOMAIN f : f[x] <= SumOf(f, DOMAIN f)
  BY <1>1, SumBounds
<1>3. PICK x \in DOMAIN f : TRUE
  OBVIOUS
<1>4. f[x] \in Nat /\ f[x] > 0 /\ f[x] <= SumOf(f, DOMAIN f)
  BY <1>2, <1>3 DEF Pos
<1> QED  BY <1>1, <1>2, <1>4, TotalIs DEF Pos

\* The notional buys whole units of everything, worth their part of it.
LEMMA UnitsAreExact ==
  ASSUME NEW p \in Price, NEW k \in 1..Parts
  PROVE  LET u == (Notional * k) \div (Parts * p)
         IN u \in Pos /\ (u * p) * Parts = Notional * k
<1> DEFINE d == Parts * p
           e == Notional \div d
<1>1. d \in Pos /\ Notional \in Pos /\ Notional % d = 0 /\ k \in Pos /\ p \in Pos /\ Parts \in Pos
  BY IndexLevelAssumption, Products DEF Pos
<1> HIDE DEF d
<1>2. e \in Nat /\ Notional = d * e
  BY <1>1 DEF Pos
<1> HIDE DEF e
<1>3. e \in Pos
  BY <1>1, <1>2 DEF Pos
<1>4. Notional * k = (e * k) * d /\ e * k \in Pos
  <2>1. (d * e) * k = (e * k) * d
    BY <1>1, <1>2 DEF Pos
  <2> QED  BY <1>1, <1>2, <1>3, <2>1, Products
<1>5. ((e * k) * d) \div d = e * k
  BY <1>1, <1>4, QuotientIs DEF Pos
<1>6. ((e * k) * p) * Parts = (e * k) * d
  BY <1>1, <1>4, Products DEF Pos, d
<1> QED  BY <1>4, <1>5, <1>6 DEF d

\* A basket of names with a price, held in whole units.
Holding(b) ==
  /\ DOMAIN b \subseteq Symbol /\ DOMAIN b # {}
  /\ \A s \in DOMAIN b : b[s].units \in Pos /\ b[s].lastPrice \in Price

\* Units that are bought are positive, each with today's price.
LEMMA BoughtIsHolding ==
  ASSUME TypeOK, NEW w \in Weights, w # <<>>
  PROVE  LET b == UnitsForWeights(w)
         IN /\ Holding(b)
            /\ \A s \in DOMAIN b : b[s].lastPrice = price[s]
<1> DEFINE b == UnitsForWeights(w)
<1>1. PICK S \in SUBSET Priced : w \in [S -> 1..Parts]
  BY DEF Weights, WeightsOver
<1>2. S # {}
  <2> SUFFICES ASSUME S = {} PROVE FALSE
    OBVIOUS
  <2>1. w = <<>>
    BY <1>1
  <2> QED  BY <2>1
<1>3. DOMAIN w = S
  BY <1>1
<1>4. ASSUME NEW s \in S
      PROVE  price[s] \in Price /\ w[s] \in 1..Parts /\ s \in Symbol
  BY <1>1 DEF TypeOK, Priced
<1>5. DOMAIN b = S
  BY <1>3 DEF UnitsForWeights
<1>6. ASSUME NEW s \in S
      PROVE  /\ b[s].units = (Notional * w[s]) \div (Parts * price[s])
             /\ b[s].lastPrice = price[s]
  BY <1>3, <1>6 DEF UnitsForWeights
<1> HIDE DEF b
<1>7. \A s \in S : b[s].units \in Pos
  BY <1>4, <1>6, UnitsAreExact
<1>8. Holding(b) /\ \A s \in DOMAIN b : b[s].lastPrice = price[s]
  BY <1>2, <1>4, <1>5, <1>6, <1>7 DEF Holding
<1> QED  BY <1>8 DEF b

\* What a basket is worth, at any positive prices.
LEMMA WorthIsPositive ==
  ASSUME NEW b, Holding(b), NEW at, \A s \in DOMAIN b : at[s] \in Pos
  PROVE  LET f == [s \in DOMAIN b |-> at[s] * b[s].units]
         IN OfNumbers(f, DOMAIN b) /\ Total(f) = SumOf(f, DOMAIN b) /\ Total(f) \in Pos
<1> DEFINE f == [s \in DOMAIN b |-> at[s] * b[s].units]
<1>1. \A s \in DOMAIN b : f[s] \in Pos
  BY Products DEF Holding
<1>2. DOMAIN f = DOMAIN b
  OBVIOUS
<1>3. IsFiniteSet(DOMAIN b) /\ DOMAIN b # {}
  BY IndexLevelAssumption, FS_Subset DEF Holding
<1> HIDE DEF f
<1>4. OfNumbers(f, DOMAIN f) /\ Total(f) \in Pos
  BY <1>1, <1>2, <1>3, TotalIsPositive
<1>5. OfNumbers(f, DOMAIN b) /\ Total(f) = SumOf(f, DOMAIN b) /\ Total(f) \in Pos
  BY <1>2, <1>4, TotalIs
<1> QED  BY <1>5 DEF f

Marks == [s \in DOMAIN basket |-> Mark(s)]
LastPrices(b) == [s \in DOMAIN b |-> b[s].lastPrice]

\* Each name of the basket has a price or a last price.
LEMMA MarksArePrices ==
  ASSUME TypeOK, epoch # NoEpoch
  PROVE  /\ Holding(basket)
         /\ \A s \in DOMAIN basket : Mark(s) \in Pos /\ basket[s].lastPrice \in Pos
<1>1. Holding(basket)
  BY DEF TypeOK, Holding, Pos
<1>2. \A s \in DOMAIN basket : Mark(s) \in Price
  BY DEF TypeOK, Mark, Priced
<1>3. Price \subseteq Pos
  BY IndexLevelAssumption DEF Pos
<1> QED  BY <1>1, <1>2, <1>3 DEF Holding

\* A basket is worth something, then and now.
LEMMA CapsArePositive ==
  ASSUME TypeOK, epoch # NoEpoch
  PROVE  PreviousCap \in Pos /\ SavedCap \in Pos
<1>1. Holding(basket) /\ \A s \in DOMAIN basket : Mark(s) \in Pos /\ basket[s].lastPrice \in Pos
  BY MarksArePrices
<1>2. /\ \A s \in DOMAIN basket : Marks[s] = Mark(s) /\ Marks[s] \in Pos
      /\ \A s \in DOMAIN basket : /\ LastPrices(basket)[s] = basket[s].lastPrice
                                 /\ LastPrices(basket)[s] \in Pos
  BY <1>1 DEF Marks, LastPrices
<1>3. /\ Total([s \in DOMAIN basket |-> Marks[s] * basket[s].units]) \in Pos
      /\ Total([s \in DOMAIN basket |-> LastPrices(basket)[s] * basket[s].units]) \in Pos
  BY <1>1, <1>2, WorthIsPositive
<1>4. /\ PreviousCap = Total([s \in DOMAIN basket |-> Marks[s] * basket[s].units])
      /\ SavedCap = Total([s \in DOMAIN basket |-> LastPrices(basket)[s] * basket[s].units])
  BY <1>2 DEF PreviousCap, SavedCap
<1> QED  BY <1>3, <1>4

\* A whole number as a fraction.
LEMMA WholeIs == \A n \in Pos : Ratio(Frac(n, 1), n, 1)
BY FracIs DEF Pos

\* The divisor of an epoch, in terms of what the basket is worth.
LEMMA DivisorIs ==
  ASSUME TypeOK, NEW w \in Weights, w # <<>>
  PROVE  LET b == UnitsForWeights(w)
         IN /\ TotalCap(b) \in Pos
            /\ epoch = NoEpoch => Ratio(DivisorFor(b), TotalCap(b), BaseLevel)
            /\ epoch # NoEpoch =>
                 /\ Ratio(PreviousLevel, PreviousCap * divisor[2], divisor[1])
                 /\ Ratio(DivisorFor(b), TotalCap(b) * divisor[1], PreviousCap * divisor[2])
            /\ Positive(DivisorFor(b))
<1> DEFINE b == UnitsForWeights(w)
           T == TotalCap(b)
           P == PreviousCap
<1>1. Holding(b) /\ \A s \in DOMAIN b : b[s].lastPrice = price[s]
  BY BoughtIsHolding
<1>2. T \in Pos
  <2>1. \A s \in DOMAIN b : price[s] \in Pos
    BY <1>1, IndexLevelAssumption DEF Holding, Pos
  <2> HIDE DEF b
  <2>2. Total([s \in DOMAIN b |-> price[s] * b[s].units]) \in Pos
    BY <1>1, <2>1, WorthIsPositive
  <2> QED  BY <2>2 DEF TotalCap
<1>3. CASE epoch = NoEpoch
  <2>1. DivisorFor(b) = Frac(T, BaseLevel) /\ BaseLevel \in Pos
    BY <1>3, IndexLevelAssumption DEF DivisorFor, Pos
  <2> HIDE DEF b, T
  <2>2. Ratio(DivisorFor(b), T, BaseLevel)
    BY <1>2, <2>1, FracIs
  <2>3. Positive(DivisorFor(b))
    BY <2>2 DEF Ratio, Positive, Pos
  <2> QED  BY <1>2, <1>3, <2>2, <2>3 DEF T, b
<1>4. CASE epoch # NoEpoch
  <2>1. P \in Pos
    BY <1>4, CapsArePositive
  <2>2. Ratio(divisor, divisor[1], divisor[2]) /\ divisor[1] \in Pos /\ divisor[2] \in Pos
    BY DEF TypeOK, Positive, Ratio, Pos
  <2>3. DivisorFor(b) = Over(Frac(T, 1), PreviousLevel) /\ PreviousLevel = Over(Frac(P, 1), divisor)
    BY <1>4 DEF DivisorFor, PreviousLevel
  <2> HIDE DEF b, T, P
  <2>4. Ratio(PreviousLevel, P * divisor[2], 1 * divisor[1])
    BY <2>1, <2>2, <2>3, WholeIs, OverIs DEF Pos
  <2>5. 1 * divisor[1] = divisor[1] /\ P * divisor[2] \in Pos
    BY <2>1, <2>2, Products DEF Pos
  <2>6. Ratio(DivisorFor(b), T * divisor[1], 1 * (P * divisor[2]))
    <3>1. Ratio(PreviousLevel, P * divisor[2], divisor[1])
      BY <2>4, <2>5
    <3>2. Ratio(Frac(T, 1), T, 1) /\ 1 \in Pos
      BY <1>2, WholeIs DEF Pos
    <3> QED  BY <1>2, <2>2, <2>3, <2>5, <3>1, <3>2, OverIs
  <2>7. 1 * (P * divisor[2]) = P * divisor[2]
    BY <2>5 DEF Pos
  <2>8. Positive(DivisorFor(b))
    BY <2>6 DEF Ratio, Positive, Pos
  <2>9. /\ Ratio(PreviousLevel, P * divisor[2], divisor[1])
        /\ Ratio(DivisorFor(b), T * divisor[1], P * divisor[2])
    BY <2>4, <2>5, <2>6, <2>7
  <2> QED  BY <1>2, <1>4, <2>8, <2>9 DEF P, T, b
<1> QED  BY <1>3, <1>4

-----------------------------------------------------------------------------
\* unitsForWeights and the divisors: every epoch leaves behind units, prices and a
\* divisor that are positive, so the next one never divides by nothing.
THEOREM LevelIsTyped == Spec => []TypeOK
<1>1. Init => TypeOK
  <2>1. Positive(Frac(1, 1))
    BY WholeIs DEF Ratio, Positive, Pos
  <2> QED  BY <2>1, IndexLevelAssumption DEF Init, TypeOK, NoEpoch
<1>2. TypeOK /\ [Next]_vars => TypeOK'
  <2> SUFFICES ASSUME TypeOK, [Next]_vars PROVE TypeOK'
    OBVIOUS
  <2>1. ASSUME NEW s \in Symbol, NEW p \in Price \cup {NoPrice}, Move(s, p)
        PROVE  TypeOK'
    BY <2>1 DEF Move, TypeOK, Positive
  <2>2. ASSUME NEW w \in Weights, Rebalance(w) PROVE TypeOK'
    <3> DEFINE b == UnitsForWeights(w)
    <3>1. /\ epoch < MaxEpoch /\ w # <<>> /\ epoch' = epoch + 1 /\ basket' = b
          /\ divisor' = DivisorFor(b) /\ value' > 0 /\ price' = price
      BY <2>2 DEF Rebalance
    <3>2. Holding(b)
      BY <3>1, BoughtIsHolding
    <3>3. Positive(DivisorFor(b))
      BY <3>1, DivisorIs
    <3> HIDE DEF b
    <3>4. epoch' \in NoEpoch..MaxEpoch /\ epoch' # NoEpoch
      BY <3>1, IndexLevelAssumption DEF TypeOK, NoEpoch
    <3>5. Positive(divisor')
      BY <3>1, <3>3
    <3> QED  BY <3>1, <3>2, <3>4, <3>5 DEF TypeOK, Holding, Pos, Positive
  <2>3. CASE UNCHANGED vars
    BY <2>3 DEF vars, TypeOK, Positive
  <2> QED  BY <2>1, <2>2, <2>3 DEF Next
<1> QED  BY <1>1, <1>2, PTL DEF Spec

-----------------------------------------------------------------------------
(* How the level moves. *)

\* A sum moves no more than the term that moved most, and no less than the one that
\* moved least.
LEMMA MeanOfMoves ==
  ASSUME TypeOK, epoch # NoEpoch
  PROVE  /\ \E s \in DOMAIN basket :
              PreviousCap * basket[s].lastPrice <= SavedCap * Mark(s)
         /\ \E s \in DOMAIN basket :
              SavedCap * Mark(s) <= PreviousCap * basket[s].lastPrice
<1> DEFINE D == DOMAIN basket
           f == [s \in D |-> Mark(s) * basket[s].units]
           g == [s \in D |-> basket[s].lastPrice * basket[s].units]
           P == PreviousCap
           S == SavedCap
           sf == [s \in D |-> S * f[s]]
           pg == [s \in D |-> P * g[s]]
<1>1. Holding(basket) /\ \A s \in D : Mark(s) \in Pos /\ basket[s].lastPrice \in Pos
  BY MarksArePrices
<1>2. D # {} /\ \A s \in D : basket[s].units \in Pos
  BY <1>1 DEF Holding
<1>3. P \in Pos /\ S \in Pos
  BY CapsArePositive
<1>4. OfNumbers(f, D) /\ P = SumOf(f, D)
  <2>1. /\ \A s \in D : Marks[s] = Mark(s) /\ Marks[s] \in Pos
        /\ f = [s \in D |-> Marks[s] * basket[s].units]
    BY <1>1 DEF Marks
  <2>2. LET h == [s \in D |-> Marks[s] * basket[s].units]
        IN OfNumbers(h, D) /\ Total(h) = SumOf(h, D)
    BY <1>1, <2>1, WorthIsPositive
  <2>3. P = Total(f)
    BY DEF PreviousCap
  <2> QED  BY <2>1, <2>2, <2>3
<1>5. OfNumbers(g, D) /\ S = SumOf(g, D)
  <2>1. /\ \A s \in D : LastPrices(basket)[s] = basket[s].lastPrice /\ LastPrices(basket)[s] \in Pos
        /\ g = [s \in D |-> LastPrices(basket)[s] * basket[s].units]
    BY <1>1 DEF LastPrices
  <2>2. LET h == [s \in D |-> LastPrices(basket)[s] * basket[s].units]
        IN OfNumbers(h, D) /\ Total(h) = SumOf(h, D)
    BY <1>1, <2>1, WorthIsPositive
  <2>3. S = Total(g)
    BY DEF SavedCap
  <2> QED  BY <2>1, <2>2, <2>3
<1>6. ASSUME NEW s \in D
      PROVE  /\ sf[s] = (S * Mark(s)) * basket[s].units
             /\ pg[s] = (P * basket[s].lastPrice) * basket[s].units
  BY <1>1, <1>2, <1>3, Products DEF Pos
<1> HIDE DEF P, S, f, g
<1>7. OfNumbers(sf, D) /\ SumOf(sf, D) = S * P
  BY <1>3, <1>4, SumTimes DEF Pos
<1>8. OfNumbers(pg, D) /\ SumOf(pg, D) = P * S
  BY <1>3, <1>5, SumTimes DEF Pos
<1>9. S * P \in Int /\ S * P = P * S
  BY <1>3, Products DEF Pos
<1>10. \A s \in D : /\ S * Mark(s) \in Int /\ P * basket[s].lastPrice \in Int
                    /\ sf[s] \in Int /\ pg[s] \in Int
                    /\ sf[s] <= pg[s] <=> S * Mark(s) <= P * basket[s].lastPrice
                    /\ pg[s] <= sf[s] <=> P * basket[s].lastPrice <= S * Mark(s)
  <2> SUFFICES ASSUME NEW s \in D
               PROVE  /\ S * Mark(s) \in Int /\ P * basket[s].lastPrice \in Int
                      /\ sf[s] \in Int /\ pg[s] \in Int
                      /\ sf[s] <= pg[s] <=> S * Mark(s) <= P * basket[s].lastPrice
                      /\ pg[s] <= sf[s] <=> P * basket[s].lastPrice <= S * Mark(s)
    OBVIOUS
  <2>1. S * Mark(s) \in Int /\ P * basket[s].lastPrice \in Int /\ basket[s].units \in Pos
    BY <1>1, <1>2, <1>3, Products DEF Pos
  <2>2. sf[s] \in Int /\ pg[s] \in Int
    BY <1>7, <1>8 DEF OfNumbers
  <2> HIDE DEF sf, pg
  <2> QED  BY <1>6, <2>1, <2>2, Cancel
<1> HIDE DEF sf, pg, D
<1>11. \E s \in D : P * basket[s].lastPrice <= S * Mark(s)
  <2> SUFFICES ASSUME \A s \in D : ~(P * basket[s].lastPrice <= S * Mark(s)) PROVE FALSE
    OBVIOUS
  <2>1. \A s \in D : sf[s] < pg[s]
    BY <1>10
  <2>2. SumOf(sf, D) < SumOf(pg, D)
    BY <1>2, <1>7, <1>8, <2>1, SumBelow
  <2> QED  BY <1>7, <1>8, <1>9, <2>2
<1>12. \E s \in D : S * Mark(s) <= P * basket[s].lastPrice
  <2> SUFFICES ASSUME \A s \in D : ~(S * Mark(s) <= P * basket[s].lastPrice) PROVE FALSE
    OBVIOUS
  <2>1. \A s \in D : pg[s] < sf[s]
    BY <1>10
  <2>2. SumOf(pg, D) < SumOf(sf, D)
    BY <1>2, <1>7, <1>8, <2>1, SumBelow
  <2> QED  BY <1>7, <1>8, <1>9, <2>2
<1> QED  BY <1>11, <1>12 DEF P, S, D

\* The two levels around an epoch, in terms of what the basket held before is worth.
LEMMA LevelsAre ==
  ASSUME TypeOK, epoch # NoEpoch, NEW w \in Weights, Rebalance(w)
  PROVE  /\ Ratio(LevelNow, SavedCap * divisor[2], divisor[1])
         /\ Ratio(LevelNow', PreviousCap * divisor[2], divisor[1])
         /\ divisor[1] \in Pos /\ divisor[2] \in Pos
<1> DEFINE b == UnitsForWeights(w)
           T == TotalCap(b)
           P == PreviousCap
           S == SavedCap
           m == divisor[1]
           n == divisor[2]
<1>1. /\ w # <<>> /\ basket' = b /\ divisor' = DivisorFor(b) /\ epoch' = epoch + 1
  BY DEF Rebalance
<1>2. P \in Pos /\ S \in Pos
  BY CapsArePositive
<1>3. m \in Pos /\ n \in Pos /\ Ratio(divisor, m, n)
  BY DEF TypeOK, Positive, Ratio, Pos
<1>4. T \in Pos /\ Ratio(divisor', T * m, P * n)
  BY <1>1, DivisorIs
<1>5. SavedCap' = T
  <2>1. \A s \in DOMAIN b : b[s].lastPrice = price[s]
    BY <1>1, BoughtIsHolding
  <2>2. SavedCap' = Total([s \in DOMAIN b |-> b[s].lastPrice * b[s].units])
    BY <1>1 DEF SavedCap
  <2> HIDE DEF b
  <2> QED  BY <2>1, <2>2 DEF TotalCap
<1>6. /\ LevelNow = Over(Frac(S, 1), divisor)
      /\ LevelNow' = Over(Frac(T, 1), divisor')
  <2>1. epoch' # NoEpoch
    BY <1>1 DEF TypeOK, NoEpoch
  <2> QED  BY <1>5, <2>1 DEF LevelNow
<1> HIDE DEF b, T, P, S, m, n
<1>7. Ratio(LevelNow, S * n, 1 * m)
  <2>1. Ratio(Frac(S, 1), S, 1) /\ 1 \in Pos
    BY <1>2, WholeIs DEF Pos
  <2> QED  BY <1>2, <1>3, <1>6, <2>1, OverIs
<1>8. Ratio(LevelNow', T * (P * n), 1 * (T * m))
  <2>1. Ratio(Frac(T, 1), T, 1) /\ 1 \in Pos
    BY <1>4, WholeIs DEF Pos
  <2>2. T * m \in Pos /\ P * n \in Pos
    BY <1>2, <1>3, <1>4, Products
  <2> QED  BY <1>4, <1>6, <2>1, <2>2, OverIs
<1>9. Ratio(LevelNow', P * n, m)
  <2> DEFINE Q == P * n
             k == T * Q
             l == 1 * (T * m)
  <2>1. Q \in Pos
    BY <1>2, <1>3, Products
  <2> HIDE DEF Q
  <2>2. k * m = Q * l /\ l = T * m
    BY <1>3, <1>4, <2>1 DEF Pos
  <2>3. k \in Pos /\ l \in Pos
    BY <1>3, <1>4, <2>1, <2>2, Products
  <2>4. Ratio(LevelNow', k, l)
    BY <1>8 DEF Q
  <2> HIDE DEF k, l
  <2>5. Ratio(LevelNow', Q, m)
    BY <1>3, <2>1, <2>2, <2>3, <2>4, RatioOfRatio
  <2> QED  BY <2>5 DEF Q
<1>10. 1 * m = m
  BY <1>3 DEF Pos
<1> QED  BY <1>3, <1>7, <1>9, <1>10 DEF P, S, m, n

\* rebalanceDivisor and previousCap: whatever is bought and sold at an epoch, and
\* whichever names have lost their price, the level moves no more than the name that
\* moved most and no less than the one that moved least.
THEOREM LevelFollowsPrices == Spec => LevelMovesWithPrices
<1> DEFINE relative(s) == Frac(Mark(s), basket[s].lastPrice)
           Moves == epoch # NoEpoch /\ epoch' # epoch =>
                      /\ \E s \in DOMAIN basket : AtMost(LevelNow', Times(LevelNow, relative(s)))
                      /\ \E s \in DOMAIN basket : AtMost(Times(LevelNow, relative(s)), LevelNow')
<1>1. TypeOK /\ [Next]_vars => [Moves]_vars
  <2> SUFFICES ASSUME TypeOK, epoch # NoEpoch, epoch' # epoch, [Next]_vars
               PROVE  /\ \E s \in DOMAIN basket :
                           AtMost(LevelNow', Times(LevelNow, relative(s)))
                      /\ \E s \in DOMAIN basket :
                           AtMost(Times(LevelNow, relative(s)), LevelNow')
    OBVIOUS
  <2>1. PICK w \in Weights : Rebalance(w)
    BY DEF Next, Move, vars
  <2> DEFINE m == divisor[1]
             n == divisor[2]
             P == PreviousCap
             S == SavedCap
  <2>2. /\ Ratio(LevelNow, S * n, m) /\ Ratio(LevelNow', P * n, m)
        /\ m \in Pos /\ n \in Pos
    BY <2>1, LevelsAre
  <2>3. P \in Pos /\ S \in Pos
    BY CapsArePositive
  <2>4. ASSUME NEW s \in DOMAIN basket
        PROVE  /\ AtMost(LevelNow', Times(LevelNow, relative(s)))
                    <=> P * basket[s].lastPrice <= S * Mark(s)
               /\ AtMost(Times(LevelNow, relative(s)), LevelNow')
                    <=> S * Mark(s) <= P * basket[s].lastPrice
    <3> DEFINE k == Mark(s)
               l == basket[s].lastPrice
    <3>1. k \in Pos /\ l \in Pos
      BY MarksArePrices
    <3>2. Ratio(relative(s), k, l)
      BY <3>1, FracIs
    <3> HIDE DEF P, S, m, n, k, l, relative
    <3>3. S * n \in Pos /\ P * n \in Pos
      BY <2>2, <2>3, Products
    <3>4. /\ (S * n) * k \in Pos /\ m * l \in Pos
          /\ Ratio(Times(LevelNow, relative(s)), (S * n) * k, m * l)
      BY <2>2, <3>1, <3>2, <3>3, TimesIs
    <3>5. /\ AtMost(LevelNow', Times(LevelNow, relative(s)))
               <=> (P * n) * (m * l) <= ((S * n) * k) * m
          /\ AtMost(Times(LevelNow, relative(s)), LevelNow')
               <=> ((S * n) * k) * m <= (P * n) * (m * l)
      BY <2>2, <3>3, <3>4, CrossProducts
    <3>6. /\ (P * n) * (m * l) = (P * l) * (n * m)
          /\ ((S * n) * k) * m = (S * k) * (n * m)
      BY <2>2, <2>3, <3>1 DEF Pos
    <3>7. P * l \in Int /\ S * k \in Int /\ n * m \in Pos
      BY <2>2, <2>3, <3>1, Products DEF Pos
    <3>8. /\ (P * l) * (n * m) <= (S * k) * (n * m) <=> P * l <= S * k
          /\ (S * k) * (n * m) <= (P * l) * (n * m) <=> S * k <= P * l
      BY <3>7, Cancel
    <3> QED  BY <3>5, <3>6, <3>8 DEF k, l
  <2> HIDE DEF relative
  <2>5. /\ \E s \in DOMAIN basket : P * basket[s].lastPrice <= S * Mark(s)
        /\ \E s \in DOMAIN basket : S * Mark(s) <= P * basket[s].lastPrice
    BY MeanOfMoves
  <2> QED  BY <2>4, <2>5
<1> QED  BY <1>1, LevelIsTyped, PTL DEF Spec, LevelMovesWithPrices

-----------------------------------------------------------------------------
(* Fractions in lowest terms are equal when they stand for the same ratio. *)

Lowest(a, b) == a \in Pos /\ b \in Pos /\ Common(a, b) = {1}
IsFrac(f) == f = <<f[1], f[2]>> /\ Lowest(f[1], f[2])

\* Frac is in lowest terms.
LEMMA FracIsLowest ==
  ASSUME NEW m \in Pos, NEW n \in Pos
  PROVE  IsFrac(Frac(m, n))
<1> DEFINE g == gcd[<<m, n>>]
           a == m \div g
           b == n \div g
<1>1. g = Max(Common(m, n)) /\ g \in Common(m, n) /\ \A d \in Common(m, n) : g >= d
  <2>1. m \in Nat /\ n \in Nat /\ m # 0
    BY DEF Pos
  <2>2. g = Max(Common(m, n))
    BY <2>1, GcdIsGreatest DEF Greatest
  <2> HIDE DEF g
  <2> QED  BY <2>1, <2>2, CommonIsBounded
<1>2. Frac(m, n) = <<a, b>>
  BY DEF Frac
<1> HIDE DEF g
<1>3. g \in Pos /\ \E k, l \in Nat : k * g = m /\ l * g = n
  BY <1>1 DEF Common
<1>4. a \in Nat /\ b \in Nat /\ a * g = m /\ b * g = n
  BY <1>3, QuotientIs
<1> HIDE DEF a, b
<1>5. a \in Pos /\ b \in Pos
  BY <1>3, <1>4 DEF Pos
<1>6. ASSUME NEW d \in Common(a, b) PROVE d = 1
  <2>1. PICK k \in Nat, l \in Nat : k * d = a /\ l * d = b
    BY DEF Common
  <2>2. d \in Pos
    BY DEF Common
  <2>3. k * (d * g) = m /\ l * (d * g) = n /\ d * g \in Pos
    <3>1. k * (d * g) = (k * d) * g /\ l * (d * g) = (l * d) * g
      BY <1>3, <2>2 DEF Pos
    <3> QED  BY <1>3, <1>4, <2>1, <2>2, <3>1, Products
  <2>4. d * g \in Common(m, n)
    BY <2>3 DEF Common
  <2>5. d * g <= g
    BY <1>1, <2>4
  <2>6. d >= 2 => d * g >= 2 * g
    BY <1>3, <2>2 DEF Pos
  <2> QED  BY <1>3, <2>2, <2>5, <2>6 DEF Pos
<1>7. 1 \in Common(a, b)
  BY <1>5, CommonIsBounded DEF Pos
<1>8. Common(a, b) = {1}
  BY <1>6, <1>7
<1> QED  BY <1>2, <1>5, <1>8 DEF IsFrac, Lowest

\* Of the fractions of one ratio, all are multiples of the least.
LEMMA LowestIsLeast ==
  ASSUME NEW a, NEW b, Lowest(a, b), NEW c \in Pos, NEW d \in Pos, a * d = c * b,
         \A l \in 1..(d - 1), k \in Pos : k * d # c * l
  PROVE  a = c /\ b = d
<1> DEFINE q == b \div d
           r == b % d
<1>1. a \in Pos /\ b \in Pos
  BY DEF Lowest
<1>2. q \in Nat /\ r \in Nat /\ r < d /\ b = d * q + r
  BY <1>1 DEF Pos
<1> HIDE DEF q, r
<1> DEFINE k == a - q * c
<1>3. k * d = c * r
  <2>1. k * d = a * d - (q * c) * d
    BY <1>1, <1>2 DEF Pos
  <2>2. c * b = c * (d * q) + c * r /\ c * (d * q) = (q * c) * d /\ (q * c) * d \in Int
        /\ c * r \in Int
    BY <1>2 DEF Pos
  <2> HIDE DEF k
  <2> QED  BY <2>1, <2>2
<1>4. k \in Int
  BY <1>1, <1>2 DEF Pos
<1>5. r = 0
  <2> SUFFICES ASSUME r # 0 PROVE FALSE
    OBVIOUS
  <2>1. r \in 1..(d - 1) /\ c * r \in Pos
    BY <1>2, Products DEF Pos
  <2> HIDE DEF k
  <2>2. k \in Pos
    <3>1. k <= 0 => k * d <= 0
      BY <1>4 DEF Pos
    <3> QED  BY <1>3, <1>4, <2>1, <3>1 DEF Pos
  <2> QED  BY <1>3, <2>1, <2>2
<1>6. q * d = b /\ q * c = a
  <2>1. k * d = 0
    BY <1>3, <1>5 DEF Pos
  <2>2. k = 0
    <3> HIDE DEF k
    <3> QED  BY <1>4, <2>1 DEF Pos
  <2>3. q * d = b
    BY <1>2, <1>5 DEF Pos
  <2>4. q * c \in Int
    BY <1>2 DEF Pos
  <2> QED  BY <1>1, <2>2, <2>3, <2>4 DEF Pos
<1>7. q = 1
  <2>1. q \in Pos
    BY <1>1, <1>2, <1>6 DEF Pos
  <2>2. c * q = a /\ d * q = b
    BY <1>2, <1>6 DEF Pos
  <2>3. q \in Common(a, b)
    BY <2>1, <2>2 DEF Common, Pos
  <2> QED  BY <2>3 DEF Lowest
<1> QED  BY <1>6, <1>7 DEF Pos

\* Two fractions in lowest terms of one ratio are equal.
LEMMA SameRatio ==
  ASSUME NEW f, NEW g, IsFrac(f), IsFrac(g), NEW m \in Pos, NEW n \in Pos,
         Ratio(f, m, n), Ratio(g, m, n)
  PROVE  f = g
<1> DEFINE D == {l \in Pos : \E k \in Pos : k * n = m * l}
<1>1. f[2] \in D
  BY DEF Ratio
<1>2. PICK d \in D : \A l \in D : d <= l
  <2>1. D \in SUBSET Nat
    BY DEF Pos
  <2> HIDE DEF D
  <2> QED  BY <1>1, <2>1, Least
<1>3. PICK c \in Pos : c * n = m * d
  BY <1>2
<1>4. d \in Pos
  BY <1>2
<1>5. ASSUME NEW a \in Pos, NEW b \in Pos, a * n = m * b PROVE a * d = c * b
  <2>1. (a * d) * n = (a * n) * d /\ (c * b) * n = (c * n) * b /\ (m * b) * d = (m * d) * b
    BY <1>4 DEF Pos
  <2>2. (a * d) * n = (c * b) * n
    BY <1>3, <1>5, <2>1
  <2>3. a * d \in Int /\ c * b \in Int
    BY <1>4 DEF Pos
  <2> QED  BY <2>2, <2>3, Cancel
<1>6. ASSUME NEW l \in 1..(d - 1), NEW k \in Pos PROVE k * d # c * l
  <2> SUFFICES ASSUME k * d = c * l PROVE FALSE
    OBVIOUS
  <2>1. l \in Pos /\ l < d
    BY <1>4 DEF Pos
  <2>2. (k * n) * d = (m * l) * d
    <3>1. (k * n) * d = (k * d) * n /\ (c * l) * n = (c * n) * l /\ (m * d) * l = (m * l) * d
      BY <1>4, <2>1 DEF Pos
    <3> QED  BY <1>3, <3>1
  <2>3. k * n \in Int /\ m * l \in Int
    BY <2>1 DEF Pos
  <2>4. k * n = m * l
    BY <1>4, <2>2, <2>3, Cancel
  <2>5. l \in D
    BY <2>1, <2>4
  <2> HIDE DEF D
  <2>6. d <= l
    BY <1>2, <2>5
  <2> QED  BY <1>4, <2>1, <2>6 DEF Pos
<1> HIDE DEF D
<1>7. ASSUME NEW h, IsFrac(h), Ratio(h, m, n) PROVE h = <<c, d>>
  <2> DEFINE a == h[1]
             b == h[2]
  <2>1. a \in Pos /\ b \in Pos /\ a * n = m * b /\ Lowest(a, b) /\ h = <<a, b>>
    BY <1>7 DEF IsFrac, Ratio
  <2> HIDE DEF a, b
  <2>2. a * d = c * b
    BY <1>5, <2>1
  <2>3. a = c /\ b = d
    BY <1>4, <1>6, <2>1, <2>2, LowestIsLeast
  <2> QED  BY <2>1, <2>3
<1> QED  BY <1>7

\* Products and quotients are in lowest terms again.
LEMMA ResultsAreFracs ==
  ASSUME NEW f, NEW g, NEW m \in Pos, NEW n \in Pos, NEW p \in Pos, NEW q \in Pos,
         Ratio(f, m, n), Ratio(g, p, q)
  PROVE  IsFrac(Times(f, g)) /\ IsFrac(Over(f, g))
<1>1. f[1] \in Pos /\ f[2] \in Pos /\ g[1] \in Pos /\ g[2] \in Pos
  BY DEF Ratio
<1>2. /\ f[1] * g[1] \in Pos /\ f[2] * g[2] \in Pos
      /\ f[1] * g[2] \in Pos /\ f[2] * g[1] \in Pos /\ g[1] * f[2] \in Pos
  BY <1>1, Products
<1>3. IsFrac(Frac(f[1] * g[1], f[2] * g[2])) /\ IsFrac(Frac(f[1] * g[2], f[2] * g[1]))
  BY <1>2, FracIsLowest
<1> QED  BY <1>3 DEF Times, Over

\* Plus adds ratios over one denominator.
LEMMA PlusIs ==
  ASSUME NEW f, NEW g, NEW m \in Pos, NEW p \in Pos, NEW n \in Pos,
         Ratio(f, m, n), Ratio(g, p, n)
  PROVE  IsFrac(Plus(f, g)) /\ Ratio(Plus(f, g), m + p, n)
<1> DEFINE a == f[1]
           b == f[2]
           c == g[1]
           d == g[2]
           k == a * d + c * b
           l == b * d
<1>1. a \in Pos /\ b \in Pos /\ c \in Pos /\ d \in Pos /\ a * n = m * b /\ c * n = p * d
  BY DEF Ratio
<1>2. Plus(f, g) = Frac(k, l)
  BY DEF Plus
<1> HIDE DEF a, b, c, d
<1>3. a * d \in Pos /\ c * b \in Pos /\ l \in Pos
  BY <1>1, Products
<1>4. k \in Pos /\ m + p \in Pos
  BY <1>3 DEF Pos
<1>5. k * n = (m + p) * l
  <2>1. k * n = (a * n) * d + (c * n) * b
    BY <1>1 DEF Pos
  <2>2. (m + p) * l = (m * b) * d + (p * d) * b
    BY <1>1 DEF Pos
  <2> QED  BY <1>1, <2>1, <2>2
<1> HIDE DEF k, l
<1>6. IsFrac(Plus(f, g)) /\ Ratio(Plus(f, g), k, l)
  BY <1>2, <1>3, <1>4, FracIs, FracIsLowest
<1> QED  BY <1>3, <1>4, <1>5, <1>6, RatioOfRatio

\* Zero, which a fold of fractions begins with.
Zero == Frac(0, 1)

\* Zero is written 0 over 1.
LEMMA ZeroIs == Zero = <<0, 1>>
<1>1. gcd[<<0, 1>>] = Max(Common(0, 1))
  BY GcdIsGreatest DEF Greatest
<1>2. Max(Common(0, 1)) \in 1..1
  BY CommonIsBounded
<1>3. gcd[<<0, 1>>] = 1
  BY <1>1, <1>2
<1> QED  BY <1>3 DEF Zero, Frac

\* Adding zero changes no ratio.
LEMMA PlusZero ==
  ASSUME NEW f, NEW m \in Pos, NEW n \in Pos, Ratio(f, m, n)
  PROVE  IsFrac(Plus(f, Zero)) /\ Ratio(Plus(f, Zero), m, n)
<1>1. f[1] \in Pos /\ f[2] \in Pos
  BY DEF Ratio
<1>2. Plus(f, Zero) = Frac(f[1], f[2])
  <2>1. f[1] * 1 + 0 * f[2] = f[1] /\ f[2] * 1 = f[2] /\ Zero[1] = 0 /\ Zero[2] = 1
    BY <1>1, ZeroIs DEF Pos
  <2> QED  BY <2>1 DEF Plus
<1>3. IsFrac(Plus(f, Zero)) /\ Ratio(Plus(f, Zero), f[1], f[2])
  BY <1>1, <1>2, FracIs, FracIsLowest
<1>4. f[1] * n = m * f[2]
  BY DEF Ratio
<1> QED  BY <1>1, <1>3, <1>4, RatioOfRatio

\* A fold of fractions of one denominator is the fraction of the sum.
LEMMA FoldOfFractions ==
  ASSUME NEW f, NEW u, NEW n \in Pos, OfNumbers(u, DOMAIN f), DOMAIN f # {},
         \A s \in DOMAIN f : u[s] \in Pos /\ Ratio(f[s], u[s], n)
  PROVE  LET h == FoldFunction(Plus, Zero, f)
         IN IsFrac(h) /\ Ratio(h, SumOf(u, DOMAIN f), n)
<1> DEFINE S == DOMAIN f
           V == Nat \X Pos
           ch == [T \in SUBSET S |-> CHOOSE x \in T : TRUE]
           G == [p \in S \X V |-> Plus(f[p[1]], p[2])]
           Is(w) == w = [s \in SUBSET S |->
                           IF s = {} THEN Zero
                           ELSE Plus(f[CHOOSE x \in s : TRUE], w[s \ {CHOOSE x \in s : TRUE}])]
           h == CHOOSE w : Is(w)
<1>1. FoldFunction(Plus, Zero, f) = h[S]
  BY DEF FoldFunction, FoldFunctionOnSet, MapThenFoldSet
<1>2. IsFiniteSet(S) /\ Zero \in V
  BY ZeroIs DEF OfNumbers, Pos
<1>3. ASSUME NEW x \in S, NEW v \in V
      PROVE  G[<<x, v>>] = Plus(f[x], v) /\ G[<<x, v>>] \in V
  <2>1. G[<<x, v>>] = Plus(f[x], v)
    OBVIOUS
  <2> DEFINE k == f[x][1] * v[2] + v[1] * f[x][2]
             l == f[x][2] * v[2]
  <2>2. f[x][1] \in Pos /\ f[x][2] \in Pos /\ v[1] \in Nat /\ v[2] \in Pos
    BY DEF Ratio
  <2>3. f[x][1] * v[2] \in Pos /\ l \in Pos
    BY <2>2, Products
  <2>4. v[1] * f[x][2] \in Nat
    BY <2>2 DEF Pos
  <2>5. k \in Pos
    BY <2>3, <2>4 DEF Pos
  <2>6. Plus(f[x], v) = Frac(k, l)
    BY DEF Plus
  <2> HIDE DEF k, l
  <2>7. IsFrac(Plus(f[x], v))
    BY <2>3, <2>5, <2>6, FracIsLowest
  <2>8. Plus(f[x], v) \in V
    BY <2>7 DEF IsFrac, Lowest, Pos
  <2> HIDE DEF G
  <2> QED  BY <2>1, <2>8
<1>4. \E w : Is(w)
  <2>1. \A T \in SUBSET S : T # {} => ch[T] \in T
    OBVIOUS
  <2>2. PICK w \in [SUBSET S -> V] : IsRecursion(w, S, Zero, ch, G)
    <3>1. \A x \in S, v \in V : G[<<x, v>>] \in V
      BY <1>3
    <3> HIDE DEF ch, G, V, S
    <3> QED  BY <1>2, <2>1, <3>1, RecursionExists
  <2>3. ASSUME NEW T \in SUBSET S
        PROVE  w[T] = IF T = {} THEN Zero
                      ELSE Plus(f[CHOOSE x \in T : TRUE], w[T \ {CHOOSE x \in T : TRUE}])
    <3>1. w[T] = IF T = {} THEN Zero ELSE G[<<ch[T], w[T \ {ch[T]}]>>]
      BY <2>2 DEF IsRecursion
    <3>2. T # {} => ch[T] \in S /\ w[T \ {ch[T]}] \in V
      BY <2>1, <2>2
    <3>3. ch[T] = CHOOSE x \in T : TRUE
      OBVIOUS
    <3> HIDE DEF ch, G, V, S
    <3> QED  BY <1>3, <3>1, <3>2, <3>3
  <2>4. Is(w)
    <3>1. w = [T \in SUBSET S |-> w[T]]
      BY <2>2
    <3> HIDE DEF S
    <3> QED  BY <2>3, <3>1
  <2> HIDE DEF Is
  <2> QED  BY <2>4
<1>5. Is(h)
  <2> HIDE DEF Is
  <2> QED  BY <1>4
<1>6. \A T \in SUBSET S : h[T] = IF T = {} THEN Zero
                                 ELSE Plus(f[CHOOSE x \in T : TRUE], h[T \ {CHOOSE x \in T : TRUE}])
  <2> HIDE DEF h
  <2> QED  BY <1>5
<1> HIDE DEF h, Is, G, ch, V
<1> DEFINE F == {T \in SUBSET S : T # {} => IsFrac(h[T]) /\ Ratio(h[T], SumOf(u, T), n)
                                             /\ SumOf(u, T) \in Pos}
<1>7. ASSUME NEW T \in SUBSET S, \A U \in SUBSET T : U # T => U \in F
      PROVE  T \in F
  <2> SUFFICES ASSUME T # {}
               PROVE  IsFrac(h[T]) /\ Ratio(h[T], SumOf(u, T), n) /\ SumOf(u, T) \in Pos
    OBVIOUS
  <2> DEFINE x == CHOOSE y \in T : TRUE
             U == T \ {x}
  <2>1. x \in T /\ x \in S /\ U \in SUBSET T /\ U # T /\ U \in SUBSET S
    OBVIOUS
  <2>2. h[T] = Plus(f[x], h[U])
    BY <1>6
  <2> HIDE DEF x
  <2>3. Ratio(f[x], u[x], n) /\ u[x] \in Pos
    BY <2>1
  <2>4. SumOf(u, T) = u[x] + SumOf(u, U)
    BY <2>1, SumStep
  <2> HIDE DEF U
  <2>5. CASE U = {}
    <3>1. SumOf(u, T) = u[x]
      BY <2>3, <2>4, <2>5, SumEmpty DEF Pos
    <3>2. h[U] = Zero
      BY <1>6, <2>1, <2>5
    <3> QED  BY <2>2, <2>3, <3>1, <3>2, PlusZero
  <2>6. CASE U # {}
    <3>1. U \in F
      BY <1>7, <2>1
    <3>2. Ratio(h[U], SumOf(u, U), n) /\ SumOf(u, U) \in Pos
      BY <2>6, <3>1
    <3>3. u[x] + SumOf(u, U) \in Pos
      BY <2>3, <3>2 DEF Pos
    <3>4. IsFrac(Plus(f[x], h[U])) /\ Ratio(Plus(f[x], h[U]), u[x] + SumOf(u, U), n)
      BY <2>3, <3>2, PlusIs
    <3> QED  BY <2>2, <2>4, <3>3, <3>4
  <2> QED  BY <2>5, <2>6
<1> HIDE DEF F, S
<1>8. \A T \in SUBSET S : T \in F
  BY <1>2, <1>7, SubsetInduction
<1>9. S \in F /\ S # {}
  BY <1>8 DEF S
<1>10. IsFrac(h[S]) /\ Ratio(h[S], SumOf(u, S), n)
  BY <1>9 DEF F
<1> QED  BY <1>1, <1>10 DEF S

-----------------------------------------------------------------------------
(* The chained index: the divisors multiply out.                            *)

\* The abstract specification computes with the same fractions and folds.
LEMMA ChainFracs ==
  /\ \A m, n : Chain!Frac(m, n) = Frac(m, n)
  /\ \A f, g : Chain!Plus(f, g) = Plus(f, g) /\ Chain!Times(f, g) = Times(f, g)
  /\ \A f : Chain!Nearest(f) = Nearest(f)
<1>1. Chain!gcd = gcd
  BY DEF gcd, Chain!gcd
<1>2. \A m, n : Chain!Frac(m, n) = Frac(m, n)
  BY <1>1 DEF Frac, Chain!Frac
<1> QED  BY <1>2 DEF Plus, Times, Nearest, Chain!Plus, Chain!Times, Chain!Nearest

\* ChainedIndex folds as FoldFunction does,
LEMMA ChainFolds ==
  \A f : Chain!FoldFunction(Chain!Plus, Zero, f) = FoldFunction(Plus, Zero, f)
BY ChainFracs DEF FoldFunction, FoldFunctionOnSet, MapThenFoldSet,
                  Chain!FoldFunction, Chain!FoldFunctionOnSet, Chain!MapThenFoldSet

\* totals as IndexLevel does,
LEMMA ChainTotals == \A f : Chain!FoldFunction(+, 0, f) = Total(f)
BY DEF Total, FoldFunction, FoldFunctionOnSet, MapThenFoldSet,
       Chain!FoldFunction, Chain!FoldFunctionOnSet, Chain!MapThenFoldSet

\* and marks as IndexLevel does.
LEMMA ChainMarks == \A s \in DOMAIN basket : Chain!Mark(s) = Mark(s)
BY DEF Mark, Priced, Chain!Mark, Chain!Priced

\* Parts times what a name is held for, and the part of the notional it is.
Worth(b, s) == (b[s].units * b[s].lastPrice) * Parts
SharesOf(b) == [s \in DOMAIN b |-> Worth(b, s) \div Notional]

\* What is bought is worth the notional, and a name's part of it is its weight.
LEMMA BoughtInParts ==
  ASSUME TypeOK, NEW w \in Weights, w # <<>>
  PROVE  LET b == UnitsForWeights(w)
         IN /\ TotalCap(b) = Notional
            /\ DOMAIN b = DOMAIN w /\ SharesOf(b) = w
            /\ \A s \in DOMAIN b : w[s] \in 1..Parts /\ Worth(b, s) = Notional * w[s]
<1> DEFINE b == UnitsForWeights(w)
           S == DOMAIN w
           f == [s \in S |-> price[s] * b[s].units]
           g == [s \in S |-> Parts * f[s]]
           h == [s \in S |-> Notional * w[s]]
<1>1. S \in SUBSET Priced /\ w \in [S -> 1..Parts] /\ Total(w) = Parts
  BY DEF Weights, WeightsOver
<1>2. Holding(b) /\ \A s \in DOMAIN b : b[s].lastPrice = price[s]
  BY BoughtIsHolding
<1>3. DOMAIN b = S /\ \A s \in S : b[s].units = (Notional * w[s]) \div (Parts * price[s])
  BY DEF UnitsForWeights
<1> HIDE DEF b, S
<1>4. /\ Parts \in Pos /\ Notional \in Pos /\ IsFiniteSet(S)
      /\ \A s \in S : price[s] \in Price /\ price[s] \in Pos /\ w[s] \in 1..Parts
  <2>1. S \subseteq Symbol /\ \A s \in S : price[s] \in Price
    BY <1>1 DEF Priced, TypeOK
  <2> QED  BY <1>1, <2>1, IndexLevelAssumption, FS_Subset DEF Pos
<1>5. ASSUME NEW s \in S
      PROVE  b[s].units \in Pos /\ Worth(b, s) = Notional * w[s]
  <2>1. LET u == (Notional * w[s]) \div (Parts * price[s])
        IN u \in Pos /\ (u * price[s]) * Parts = Notional * w[s]
    BY <1>4, UnitsAreExact
  <2> QED  BY <1>2, <1>3, <2>1 DEF Worth
<1>6. SharesOf(b) = w
  <2>1. \A s \in S : (Notional * w[s]) \div Notional = w[s]
    <3> SUFFICES ASSUME NEW s \in S PROVE (Notional * w[s]) \div Notional = w[s]
      OBVIOUS
    <3>1. w[s] \in Nat /\ Notional * w[s] = w[s] * Notional
      BY <1>4, Products DEF Pos
    <3> QED  BY <1>4, <3>1, QuotientIs
  <2>2. SharesOf(b) = [s \in S |-> w[s]]
    BY <1>3, <1>5, <2>1 DEF SharesOf
  <2> QED  BY <1>1, <2>2
<1>7. TotalCap(b) = Total(f)
  BY <1>3 DEF TotalCap
<1>8. OfNumbers(f, S) /\ Total(f) = SumOf(f, S) /\ Total(f) \in Pos
  BY <1>2, <1>3, <1>4, WorthIsPositive
<1>9. OfNumbers(w, S) /\ SumOf(w, S) = Parts
  BY <1>1, <1>4, TotalIs DEF OfNumbers, S
<1>10. \A s \in S : g[s] = h[s]
  <2> SUFFICES ASSUME NEW s \in S PROVE Parts * (price[s] * b[s].units) = Notional * w[s]
    OBVIOUS
  <2>1. Parts * (price[s] * b[s].units) = (b[s].units * price[s]) * Parts
    BY <1>4, <1>5 DEF Pos
  <2> QED  BY <1>2, <1>3, <1>5, <2>1 DEF Worth
<1> HIDE DEF f
<1>11. OfNumbers(g, S) /\ SumOf(g, S) = Parts * SumOf(f, S)
  BY <1>4, <1>8, SumTimes DEF Pos
<1>12. OfNumbers(h, S) /\ SumOf(h, S) = Notional * Parts
  BY <1>4, <1>9, SumTimes DEF Pos
<1> HIDE DEF g, h
<1>13. Parts * Total(f) = Notional * Parts
  BY <1>8, <1>10, <1>11, <1>12, SumSame
<1>14. Total(f) = Notional
  BY <1>4, <1>8, <1>13, Cancel, Products DEF Pos
<1> QED  BY <1>3, <1>4, <1>5, <1>6, <1>7, <1>14 DEF b, S

\* After an epoch: what is held is worth the notional, in whole parts.
InParts ==
  /\ SavedCap = Notional
  /\ \A s \in DOMAIN basket : /\ SharesOf(basket)[s] \in 1..Parts
                              /\ Worth(basket, s) = Notional * SharesOf(basket)[s]
ChainInv ==
  /\ TypeOK
  /\ epoch = NoEpoch => basket = <<>> /\ value = 0
  /\ epoch # NoEpoch => InParts

\* What was saved for an epoch gives back the level it published.
LEMMA SavedIs ==
  ASSUME TypeOK, NEW w \in Weights, Rebalance(w)
  PROVE  /\ SavedCap' = TotalCap(UnitsForWeights(w))
         /\ LevelNow' = LevelOf(UnitsForWeights(w), divisor')
<1> DEFINE b == UnitsForWeights(w)
<1>1. w # <<>> /\ basket' = b /\ epoch' = epoch + 1
  BY DEF Rebalance
<1>2. \A s \in DOMAIN b : b[s].lastPrice = price[s]
  BY <1>1, BoughtIsHolding
<1>3. SavedCap' = Total([s \in DOMAIN b |-> b[s].lastPrice * b[s].units])
  BY <1>1 DEF SavedCap
<1>4. epoch' # NoEpoch
  BY <1>1 DEF TypeOK, NoEpoch
<1> HIDE DEF b
<1>5. SavedCap' = TotalCap(b)
  BY <1>2, <1>3 DEF TotalCap
<1>6. LevelNow' = Over(Frac(SavedCap', 1), divisor')
  BY <1>4 DEF LevelNow
<1> QED  BY <1>5, <1>6 DEF LevelOf, b

\* The first epoch and every later one buy the same notional.
LEMMA ChainInvHolds == Spec => []ChainInv
<1>1. Init => ChainInv
  <2>1. Positive(Frac(1, 1))
    BY WholeIs DEF Ratio, Positive, Pos
  <2> QED  BY <2>1, IndexLevelAssumption DEF Init, TypeOK, NoEpoch, ChainInv
<1>2. ChainInv /\ TypeOK' /\ [Next]_vars => ChainInv'
  <2> SUFFICES ASSUME ChainInv, TypeOK', [Next]_vars PROVE ChainInv'
    OBVIOUS
  <2>1. ASSUME UNCHANGED <<epoch, basket, divisor, value>> PROVE ChainInv'
    BY <2>1 DEF ChainInv, InParts, SavedCap, SharesOf, Worth
  <2>2. ASSUME NEW w \in Weights, Rebalance(w) PROVE ChainInv'
    <3> DEFINE b == UnitsForWeights(w)
    <3>1. TypeOK /\ w # <<>> /\ basket' = b /\ epoch' = epoch + 1
      BY <2>2 DEF Rebalance, ChainInv
    <3>2. /\ TotalCap(b) = Notional /\ SharesOf(b) = w /\ DOMAIN b = DOMAIN w
          /\ \A s \in DOMAIN b : w[s] \in 1..Parts /\ Worth(b, s) = Notional * w[s]
      BY <3>1, BoughtInParts
    <3>3. SavedCap' = TotalCap(b)
      BY <2>2, <3>1, SavedIs
    <3> HIDE DEF b
    <3>4. /\ SharesOf(basket)' = w
          /\ \A s \in DOMAIN b : Worth(basket, s)' = Worth(b, s)
      BY <3>1, <3>2 DEF SharesOf, Worth
    <3>5. InParts'
      BY <3>1, <3>2, <3>3, <3>4 DEF InParts
    <3>6. epoch' # NoEpoch
      BY <3>1 DEF TypeOK, NoEpoch
    <3> QED  BY <3>5, <3>6 DEF ChainInv
  <2>3. CASE UNCHANGED vars
    BY <2>1, <2>3 DEF vars
  <2> QED  BY <2>1, <2>2, <2>3 DEF Next, Move
<1> QED  BY <1>1, <1>2, LevelIsTyped, PTL DEF Spec

\* The mean of the relatives is what the basket is worth now over what it was.
LEMMA MeanIs ==
  ASSUME ChainInv, epoch # NoEpoch
  PROVE  Ratio(Chain!MeanRelative, PreviousCap, Notional)
<1> DEFINE D == DOMAIN basket
           shares == SharesOf(basket)
           lasts == [s \in D |-> basket[s].lastPrice]
           f == [s \in D |-> Frac(shares[s] * Mark(s), Parts * lasts[s])]
           u == [s \in D |-> Mark(s) * basket[s].units]
<1>1. /\ Holding(basket) /\ Parts \in Pos /\ Notional \in Pos
      /\ \A s \in D : Mark(s) \in Pos /\ basket[s].lastPrice \in Pos /\ basket[s].units \in Pos
  BY MarksArePrices, IndexLevelAssumption DEF ChainInv, Holding, Pos
<1>2. OfNumbers(u, D) /\ PreviousCap = SumOf(u, D)
  <2>1. /\ \A s \in D : Marks[s] = Mark(s) /\ Marks[s] \in Pos
        /\ u = [s \in D |-> Marks[s] * basket[s].units]
    BY <1>1 DEF Marks
  <2>2. LET h == [s \in D |-> Marks[s] * basket[s].units]
        IN OfNumbers(h, D) /\ Total(h) = SumOf(h, D)
    BY <1>1, <2>1, WorthIsPositive
  <2>3. PreviousCap = Total(u)
    BY DEF PreviousCap
  <2> QED  BY <2>1, <2>2, <2>3
<1>3. ASSUME NEW s \in D
      PROVE  u[s] \in Pos /\ Ratio(f[s], u[s], Notional)
  <2> DEFINE k == shares[s]
             m == Mark(s)
             l == basket[s].lastPrice
             n == basket[s].units
  <2>1. k \in Pos /\ (n * l) * Parts = Notional * k
    BY <1>1 DEF ChainInv, InParts, Worth, Pos
  <2>2. m \in Pos /\ l \in Pos /\ n \in Pos
    BY <1>1
  <2>3. u[s] = m * n /\ f[s] = Frac(k * m, Parts * l)
    OBVIOUS
  <2> HIDE DEF k, l, m, n, f, u
  <2>4. k * m \in Pos /\ Parts * l \in Pos /\ m * n \in Pos
    BY <1>1, <2>1, <2>2, Products
  <2>5. Ratio(f[s], k * m, Parts * l)
    BY <2>3, <2>4, FracIs
  <2>6. (k * m) * Notional = (m * n) * (Parts * l)
    <3>1. (k * m) * Notional = (Notional * k) * m /\ (m * n) * (Parts * l) = ((n * l) * Parts) * m
      BY <1>1, <2>1, <2>2 DEF Pos
    <3> QED  BY <2>1, <3>1
  <2> QED  BY <1>1, <2>3, <2>4, <2>5, <2>6, RatioOfRatio
<1>4. Chain!MeanRelative = FoldFunction(Plus, Zero, f)
  <2>1. DOMAIN shares = D /\ shares = [s \in D |-> Worth(basket, s) \div Notional]
    BY DEF SharesOf
  <2>2. Chain!MeanRelative =
          Chain!FoldFunction(Chain!Plus, Zero, [s \in D |-> Frac(shares[s] * Chain!Mark(s), Parts * lasts[s])])
    BY <2>1, ChainFracs DEF Chain!MeanRelative, Zero, Worth
  <2>3. Chain!MeanRelative =
          Chain!FoldFunction(Chain!Plus, Zero, f)
    BY <2>2, ChainMarks
  <2> HIDE DEF f
  <2> QED  BY <2>3, ChainFolds
<1>5. DOMAIN f = D /\ D # {}
  BY <1>1 DEF Holding
<1> HIDE DEF f, u, D
<1>6. Ratio(FoldFunction(Plus, Zero, f), SumOf(u, D), Notional)
  BY <1>1, <1>2, <1>3, <1>5, FoldOfFractions
<1> QED  BY <1>2, <1>4, <1>6

\* An epoch multiplies the level by that mean; the first leaves it at the base.
LEMMA LevelIsChained ==
  ASSUME ChainInv, NEW w \in Weights, Rebalance(w)
  PROVE  LevelNow' = IF epoch = NoEpoch THEN LevelNow ELSE Times(LevelNow, Chain!MeanRelative)
<1> DEFINE b == UnitsForWeights(w)
           T == TotalCap(b)
<1>1. TypeOK /\ w # <<>> /\ divisor' = DivisorFor(b)
  BY DEF Rebalance, ChainInv
<1>2. LevelNow' = Over(Frac(T, 1), divisor')
  BY <1>1, SavedIs DEF LevelOf
<1>3. T \in Pos /\ Ratio(Frac(T, 1), T, 1) /\ 1 \in Pos /\ BaseLevel \in Pos
  BY <1>1, DivisorIs, WholeIs, IndexLevelAssumption DEF Pos
<1>4. CASE epoch = NoEpoch
  <2>1. Ratio(divisor', T, BaseLevel)
    BY <1>1, <1>4, DivisorIs
  <2> HIDE DEF b, T
  <2>2. Ratio(LevelNow', T * BaseLevel, 1 * T) /\ IsFrac(LevelNow')
    BY <1>2, <1>3, <2>1, OverIs, ResultsAreFracs
  <2>3. T * BaseLevel \in Pos /\ 1 * T \in Pos /\ (T * BaseLevel) * 1 = BaseLevel * (1 * T)
    BY <1>3, Products DEF Pos
  <2>4. Ratio(LevelNow', BaseLevel, 1)
    BY <1>3, <2>2, <2>3, RatioOfRatio
  <2>5. LevelNow = Frac(BaseLevel, 1)
    BY <1>4 DEF LevelNow
  <2>6. IsFrac(LevelNow) /\ Ratio(LevelNow, BaseLevel, 1)
    BY <1>3, <2>5, FracIsLowest, WholeIs
  <2> QED  BY <1>3, <1>4, <2>2, <2>4, <2>6, SameRatio
<1>5. CASE epoch # NoEpoch
  <2> DEFINE m == divisor[1]
             n == divisor[2]
             P == PreviousCap
             N == Notional
             M == Chain!MeanRelative
  <2>1. /\ Ratio(LevelNow, N * n, m) /\ Ratio(LevelNow', P * n, m)
        /\ m \in Pos /\ n \in Pos
    BY <1>1, <1>5, LevelsAre DEF ChainInv, InParts
  <2>2. P \in Pos /\ N \in Pos
    BY <1>1, <1>5, CapsArePositive, IndexLevelAssumption DEF Pos
  <2>3. Ratio(M, P, N)
    BY <1>5, MeanIs
  <2>4. Ratio(divisor', T * m, P * n) /\ T * m \in Pos /\ P * n \in Pos
    BY <1>1, <1>3, <1>5, <2>1, <2>2, DivisorIs, Products
  <2> HIDE DEF b, T, m, n, P, N, M
  <2>5. IsFrac(LevelNow')
    BY <1>2, <1>3, <2>4, ResultsAreFracs
  <2>6. N * n \in Pos
    BY <2>1, <2>2, Products
  <2>7. /\ Ratio(Times(LevelNow, M), (N * n) * P, m * N) /\ IsFrac(Times(LevelNow, M))
        /\ (N * n) * P \in Pos /\ m * N \in Pos
    BY <2>1, <2>2, <2>3, <2>6, TimesIs, ResultsAreFracs
  <2>8. ((N * n) * P) * m = (P * n) * (m * N)
    BY <2>1, <2>2 DEF Pos
  <2>9. Ratio(Times(LevelNow, M), P * n, m)
    BY <2>1, <2>4, <2>7, <2>8, RatioOfRatio
  <2>10. LevelNow' = Times(LevelNow, M)
    BY <2>1, <2>4, <2>5, <2>7, <2>9, SameRatio
  <2> QED  BY <1>5, <2>10 DEF M
<1> QED  BY <1>4, <1>5

\* DivisorFor, previousLevel and toScaledValue: the divisor, solved anew at every
\* epoch whatever is bought, yields the index that multiplies its level by the
\* weighted mean of the price relatives, and what is published is that level rounded
\* once.
THEOREM LevelIsChainedIndex == Spec => ImplementsChainedIndex
<1> DEFINE level == LevelNow
           shares == [s \in DOMAIN basket |->
                        (basket[s].units * basket[s].lastPrice * Parts) \div Notional]
           marks == [s \in DOMAIN basket |-> basket[s].lastPrice]
<1>1. Init => Chain!ChainedInit
  <2> SUFFICES ASSUME Init PROVE Chain!ChainedInit
    OBVIOUS
  <2>1. price \in [Symbol -> {NoPrice}] /\ value = 0 /\ basket = <<>>
    BY DEF Init
  <2>2. level = Frac(BaseLevel, 1)
    BY DEF Init, LevelNow
  <2>3. shares = <<>> /\ marks = <<>>
    BY <2>1
  <2> QED  BY <2>1, <2>2, <2>3, ChainFracs DEF Chain!ChainedInit, Chain!Unpublished
<1>2. ChainInv /\ [Next]_vars
        => [Chain!Move \/ Chain!Link]_<<price, level, shares, marks, value>>
  <2> SUFFICES ASSUME ChainInv, [Next]_vars
               PROVE  [Chain!Move \/ Chain!Link]_<<price, level, shares, marks, value>>
    OBVIOUS
  <2>1. ASSUME NEW s \in Symbol, NEW p \in Price \cup {NoPrice}, Move(s, p) PROVE Chain!Move
    <3>1. price' \in [Symbol -> Price \cup {NoPrice}]
      BY <2>1 DEF Move, ChainInv, TypeOK
    <3>2. UNCHANGED <<level, shares, marks, value>>
      BY <2>1 DEF Move, LevelNow, SavedCap
    <3> QED  BY <3>1, <3>2 DEF Chain!Move
  <2>2. ASSUME NEW w \in Weights, Rebalance(w) PROVE Chain!Link
    <3> DEFINE b == UnitsForWeights(w)
    <3>1. /\ TypeOK /\ w # <<>> /\ basket' = b /\ UNCHANGED price
          /\ value' = ToScaledValue(LevelOf(b, divisor'))
      BY <2>2 DEF Rebalance, ChainInv
    <3>2. /\ DOMAIN b = DOMAIN w /\ SharesOf(b) = w
          /\ \A s \in DOMAIN b : w[s] \in 1..Parts
      BY <3>1, BoughtInParts
    <3>3. Holding(b) /\ \A s \in DOMAIN b : b[s].lastPrice = price[s]
      BY <3>1, BoughtIsHolding
    <3>4. PICK S \in SUBSET Priced : w \in [S -> 1..Parts] /\ Total(w) = Parts
      BY DEF Weights, WeightsOver
    <3>5. LevelNow' = LevelOf(b, divisor')
      BY <2>2, <3>1, SavedIs
    <3> HIDE DEF b
    <3>6. S \in (SUBSET Chain!Priced) \ {{}}
      BY <3>2, <3>3, <3>4 DEF Holding, Priced, Chain!Priced
    <3>7. /\ shares' = w /\ w \in [S -> 1..Parts] /\ Total(w) = Parts
          /\ marks' = [s \in S |-> price[s]]
      BY <3>1, <3>2, <3>3, <3>4 DEF SharesOf, Worth
    <3>8. level' = IF value = Chain!Unpublished THEN level
                   ELSE Chain!Times(level, Chain!MeanRelative)
      <4>1. value = Chain!Unpublished <=> epoch = NoEpoch
        BY <3>1 DEF Chain!Unpublished, ChainInv, TypeOK
      <4> QED  BY <2>2, <4>1, LevelIsChained, ChainFracs
    <3>9. value' = Chain!Nearest(Chain!Times(Chain!Frac(Scale, 1), level'))
      BY <3>1, <3>5, ChainFracs DEF ToScaledValue
    <3> HIDE DEF level, shares, marks
    <3>10. \E U \in (SUBSET Chain!Priced) \ {{}} :
             /\ shares' \in [U -> 1..Parts] /\ Chain!FoldFunction(+, 0, shares') = Parts
             /\ marks' = [s \in U |-> price[s]]
      BY <3>6, <3>7, ChainTotals
    <3> QED  BY <3>1, <3>8, <3>9, <3>10 DEF Chain!Link, level, shares, marks
  <2>3. CASE UNCHANGED vars
    BY <2>3 DEF vars, LevelNow, SavedCap
  <2> QED  BY <2>1, <2>2, <2>3 DEF Next
<1>3. Spec => []ChainInv
  BY ChainInvHolds
<1> QED  BY <1>1, <1>2, <1>3, PTL DEF Spec, ImplementsChainedIndex, Chain!ChainedSpec
=============================================================================
