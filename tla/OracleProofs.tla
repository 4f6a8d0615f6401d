---------------------------- MODULE OracleProofs ----------------------------
(***************************************************************************)
(* Theorems about the contract, for every u32 width, every set of accounts *)
(* and every payload.  OracleInv is inductive by itself: which epochs      *)
(* exist, and that they are valid and in order, all follow from the one    *)
(* guard e = head + 1 together with what the head says about the store.    *)
(***************************************************************************)
EXTENDS Oracle, FoldProofs

OracleInv ==
  OracleTypeOK /\ PublishedIsPrefix /\ PublishedIsValid /\ PublishedInOrder

-----------------------------------------------------------------------------
\* An update is told from NoUpdate by its epoch, which is never negative.
LEMMA NoUpdateApart == \A u \in Update : u # NoUpdate
  BY OracleAssumption DEF Update, NoUpdate, Epoch, NoHead

\* What an accepted publish stores is an update, at the epoch after the head.
LEMMA PublishStores ==
  ASSUME OracleTypeOK, NEW auth \in SUBSET Address, NEW e \in Epoch,
         NEW v \in Value, NEW b \in Basket, Publish(auth, e, v, b)
  PROVE  /\ e = head + 1 /\ head' = e
         /\ epochs' = [epochs EXCEPT ![e] = epochs'[e]]
         /\ epochs'[e] \in Update
         /\ epochs'[e] # NoUpdate
         /\ epochs'[e] = [epoch |-> e, value |-> v, constituents |-> b,
                          published_at |-> now]
         /\ v > 0 /\ Normalized(b)
         /\ UNCHANGED <<admin, publisher, now>>
<1> DEFINE u == [epoch |-> e, value |-> v, constituents |-> b,
                 published_at |-> now]
<1>1. /\ e = head + 1 /\ head' = e
      /\ epochs' = [epochs EXCEPT ![e] = u]
      /\ v > 0 /\ Normalized(b)
      /\ UNCHANGED <<admin, publisher, now>>
  BY DEF Publish, CanPublish, Expected
<1>2. u \in Update
  BY DEF Update, OracleTypeOK
<1>3. epochs'[e] = u
  BY <1>1 DEF OracleTypeOK
<1> QED  BY <1>1, <1>2, <1>3, NoUpdateApart

-----------------------------------------------------------------------------
\* An empty contract satisfies the invariant.
LEMMA InitInv == OracleInit => OracleInv
  BY OracleAssumption
  DEF OracleInit, OracleInv, OracleTypeOK, PublishedIsPrefix, PublishedIsValid,
      PublishedInOrder, Epoch, NoHead, NoUpdate

\* Publishing keeps the four conjuncts; each has a step of its own.
LEMMA PublishInv ==
  ASSUME OracleInv, NEW auth \in SUBSET Address, NEW e \in Epoch,
         NEW v \in Value, NEW b \in Basket, Publish(auth, e, v, b)
  PROVE  OracleInv'
<1> USE DEF OracleInv
<1>1. /\ e = head + 1 /\ head' = e
      /\ epochs' = [epochs EXCEPT ![e] = epochs'[e]]
      /\ epochs'[e] \in Update
      /\ epochs'[e] # NoUpdate
      /\ epochs'[e] = [epoch |-> e, value |-> v, constituents |-> b,
                       published_at |-> now]
      /\ v > 0 /\ Normalized(b)
      /\ UNCHANGED <<admin, publisher, now>>
  BY PublishStores
<1>2. \A d \in Epoch : d # e => epochs'[d] = epochs[d]
  BY <1>1 DEF OracleTypeOK
<1>3. OracleTypeOK'
  BY <1>1 DEF OracleTypeOK
<1>4. PublishedIsPrefix'
  BY <1>1, <1>2, OracleAssumption
  DEF PublishedIsPrefix, OracleTypeOK, Epoch, NoHead
<1>5. PublishedIsValid'
  BY <1>1, <1>2 DEF PublishedIsValid
<1>6. PublishedInOrder'
  <2>1. \A d \in 0..head : epochs[d] # NoUpdate /\ epochs[d].published_at <= now
    BY OracleAssumption
    DEF PublishedIsPrefix, PublishedInOrder, OracleTypeOK, Epoch, NoHead
  <2>2. epochs'[e].published_at = now /\ now \in Int
    BY <1>1, OracleAssumption DEF OracleTypeOK
  <2>3. \A d \in 0..(e - 1) : epochs'[d].published_at <= epochs'[e].published_at
    <3>1. \A d \in 0..(e - 1) : d \in Epoch /\ d # e /\ d \in 0..head
      BY <1>1, OracleAssumption DEF OracleTypeOK, Epoch, NoHead
    <3> QED  BY <1>2, <2>1, <2>2, <3>1
  <2>4. \A c \in Epoch : c # e /\ epochs'[c] # NoUpdate =>
           /\ epochs'[c].published_at <= now'
           /\ \A d \in 0..c : epochs'[d].published_at <= epochs'[c].published_at
    <3> SUFFICES ASSUME NEW c \in Epoch, c # e, epochs'[c] # NoUpdate
                 PROVE  /\ epochs'[c].published_at <= now'
                        /\ \A d \in 0..c :
                             epochs'[d].published_at <= epochs'[c].published_at
      OBVIOUS
    <3>1. epochs'[c] = epochs[c] /\ c <= head
      BY <1>2 DEF PublishedIsPrefix
    <3>2. \A d \in 0..c : d \in Epoch /\ d # e
      BY <1>1, <3>1, OracleAssumption DEF OracleTypeOK, Epoch, NoHead
    <3> QED  BY <1>1, <1>2, <3>1, <3>2 DEF PublishedInOrder
  <2>5. \A d \in 0..e : d = e \/ d \in 0..(e - 1)
    BY OracleAssumption DEF Epoch
  <2> QED  BY <1>1, <2>2, <2>3, <2>4, <2>5 DEF PublishedInOrder
<1> QED  BY <1>3, <1>4, <1>5, <1>6

\* Every step of the contract keeps the invariant.
LEMMA StepInv == OracleInv /\ [OracleNext]_oracleVars => OracleInv'
<1> SUFFICES ASSUME OracleInv, [OracleNext]_oracleVars PROVE OracleInv'
  OBVIOUS
<1> USE DEF OracleInv
<1>1. ASSUME NEW a \in Address, NEW p \in Address, Initialize(a, p)
      PROVE  OracleInv'
  BY <1>1, OracleAssumption
  DEF Initialize, OracleTypeOK, PublishedIsPrefix, PublishedIsValid,
      PublishedInOrder
<1>2. ASSUME NEW auth \in SUBSET Address, NEW e \in Epoch, NEW v \in Value,
             NEW b \in Basket, Publish(auth, e, v, b)
      PROVE  OracleInv'
  BY <1>2, PublishInv
<1>3. ASSUME NEW auth \in SUBSET Address, NEW p \in Address,
             SetPublisher(auth, p)
      PROVE  OracleInv'
  BY <1>3, OracleAssumption
  DEF SetPublisher, OracleTypeOK, PublishedIsPrefix, PublishedIsValid,
      PublishedInOrder
<1>4. CASE CloseLedger
  <2>1. OracleTypeOK' /\ PublishedIsPrefix' /\ PublishedIsValid'
    BY <1>4, OracleAssumption
    DEF CloseLedger, OracleTypeOK, PublishedIsPrefix, PublishedIsValid
  <2>2. \A e \in Epoch : epochs[e] # NoUpdate => epochs[e].published_at \in Int
    BY OracleAssumption DEF OracleTypeOK, Update
  <2>3. PublishedInOrder'
    BY <1>4, <2>2, OracleAssumption
    DEF CloseLedger, PublishedInOrder, OracleTypeOK
  <2> QED  BY <2>1, <2>3
<1>5. CASE UNCHANGED oracleVars
  BY <1>5
  DEF oracleVars, OracleTypeOK, PublishedIsPrefix, PublishedIsValid,
      PublishedInOrder
<1> QED  BY <1>1, <1>2, <1>3, <1>4, <1>5 DEF OracleNext

\* What is published is exactly epochs 0 .. head, each of which passed every
\* check of publish and carries a timestamp no earlier than the one before.
THEOREM FeedIsSound == OracleSpec => [](OracleTypeOK /\ PublishedIsPrefix
                                        /\ PublishedIsValid /\ PublishedInOrder)
<1>1. OracleSpec => []OracleInv
  BY InitInv, StepInv, PTL DEF OracleSpec
<1> QED  BY <1>1, PTL DEF OracleInv

\* Every key of the contract's storage keeps its type.
THEOREM ContractTypes == OracleSpec => []OracleTypeOK
  BY FeedIsSound, PTL

\* Every published update has a positive value and weights that add up to the
\* total without overflow.
THEOREM FeedIsValid == OracleSpec => []PublishedIsValid
  BY FeedIsSound, PTL

\* No published update carries an earlier timestamp than the one before it.
THEOREM FeedIsOrdered == OracleSpec => []PublishedInOrder
  BY FeedIsSound, PTL

-----------------------------------------------------------------------------
(* The checked sum is the sum. *)

\* checked_add adds, or fails and stays failed.
LEMMA CheckedAddAdds ==
  \A v \in Int, w \in Nat :
    /\ CheckedAdd(v, w) \in Int
    /\ CheckedAdd(v, w) # Overflow => CheckedAdd(v, w) = v + w /\ v # Overflow
  BY OracleAssumption DEF CheckedAdd, Overflow

\* SumBps adds one weight after the other.
LEMMA SumBpsAdds ==
  ASSUME NEW s \in Seq(Nat)
  PROVE  \E a : /\ a[0] = 0
                /\ \A k \in 1..Len(s) : a[k] = CheckedAdd(a[k - 1], s[k])
                /\ SumBps(s) = a[Len(s)]
<1> DEFINE n == Len(s)
           Is(w) == w = [T \in SUBSET (1..n) |->
                           IF T = {} THEN 0
                           ELSE CheckedAdd(w[T \ {Max(T)}], s[Max(T)])]
           G == [p \in (1..n) \X Int |-> CheckedAdd(p[2], s[p[1]])]
           g == CHOOSE w : Is(w)
<1>1. n \in Nat /\ DOMAIN s = 1..n /\ \A k \in 1..n : s[k] \in Nat
  OBVIOUS
<1>2. \A k \in 1..n, v \in Int : G[<<k, v>>] = CheckedAdd(v, s[k]) /\ G[<<k, v>>] \in Int
  BY <1>1, CheckedAddAdds
<1>3. SumBps(s) = g[1..n]
  BY <1>1 DEF SumBps, FoldLeft, MapThenFoldSet
<1>4. \E w : Is(w)
  <2>1. PICK h \in [SUBSET (1..n) -> Int] : IsLeftRecursion(h, n, 0, G)
    <3> HIDE DEF G, n
    <3>1. /\ n \in Nat /\ 0 \in Int
          /\ \A k \in 1..n, v \in Int : G[<<k, v>>] \in Int
      BY <1>1, <1>2
    <3> QED  BY <3>1, LeftRecursion
  <2>2. ASSUME NEW T \in SUBSET (1..n)
        PROVE  h[T] = IF T = {} THEN 0 ELSE CheckedAdd(h[T \ {Max(T)}], s[Max(T)])
    <3>1. T # {} => Max(T) \in 1..n /\ h[T \ {Max(T)}] \in Int
      BY <1>1, <2>1, MaxIsMember
    <3> HIDE DEF G, n
    <3> QED  BY <1>2, <2>1, <3>1 DEF IsLeftRecursion
  <2>3. h = [T \in SUBSET (1..n) |->
               IF T = {} THEN 0 ELSE CheckedAdd(h[T \ {Max(T)}], s[Max(T)])]
    <3> HIDE DEF n
    <3> QED  BY <2>2
  <2> QED  BY <2>3
<1>5. Is(g)
  <2> HIDE DEF Is
  <2> QED  BY <1>4
<1> HIDE DEF g, n, G
<1> DEFINE a == [k \in 0..n |-> g[1..k]]
<1>6. a[0] = 0
  <2>1. 1..0 = {} /\ {} \in SUBSET (1..n) /\ 0 \in 0..n
    BY <1>1
  <2>2. g[{}] = 0
    BY <1>5, <2>1
  <2> QED  BY <2>1, <2>2
<1>7. ASSUME NEW k \in 1..n PROVE a[k] = CheckedAdd(a[k - 1], s[k])
  <2>1. k \in Nat \ {0} /\ 1..k \in SUBSET (1..n) /\ k \in 0..n /\ k - 1 \in 0..n
    BY <1>1
  <2>2. g[1..k] = CheckedAdd(g[(1..k) \ {Max(1..k)}], s[Max(1..k)])
    BY <1>5, <2>1, LastOfInterval
  <2>3. g[1..k] = CheckedAdd(g[1..(k - 1)], s[k])
    BY <2>1, <2>2, LastOfInterval
  <2> QED  BY <2>1, <2>3
<1>8. a[n] = g[1..n]
  BY <1>1
<1> HIDE DEF a
<1> QED  BY <1>3, <1>6, <1>7, <1>8 DEF n

\* A sum that never overflowed is the sum over the integers.
LEMMA SumBpsIsSum ==
  ASSUME NEW s \in Seq(Nat), SumBps(s) # Overflow
  PROVE  FoldLeft(+, 0, s) = SumBps(s)
<1> DEFINE n == Len(s)
<1>1. PICK a : /\ a[0] = 0
               /\ \A k \in 1..n : a[k] = CheckedAdd(a[k - 1], s[k])
               /\ SumBps(s) = a[n]
  BY SumBpsAdds
<1>2. PICK c : /\ c[0] = 0
               /\ \A k \in 1..n : c[k] = c[k - 1] + s[k]
               /\ FoldLeft(+, 0, s) = c[n]
  <2>1. s \in Seq(Int)
    OBVIOUS
  <2> QED  BY <2>1, FoldLeftAdds
<1>3. n \in Nat /\ \A k \in 1..n : s[k] \in Nat
  OBVIOUS
<1> HIDE DEF n
<1> DEFINE F == {k \in Nat : k <= n => /\ a[k] \in Int
                                       /\ a[k] # Overflow => c[k] = a[k]}
<1>4. 0 \in F
  <2>1. a[0] = 0
    BY <1>1
  <2>2. c[0] = 0
    BY <1>2
  <2> QED  BY <2>1, <2>2
<1>5. ASSUME NEW k \in Nat, k \in F PROVE k + 1 \in F
  <2> SUFFICES ASSUME k + 1 <= n
               PROVE  /\ a[k + 1] \in Int
                      /\ a[k + 1] # Overflow => c[k + 1] = a[k + 1]
    OBVIOUS
  <2>1. k + 1 \in 1..n /\ (k + 1) - 1 = k /\ k <= n
    BY <1>3
  <2>2. a[k + 1] = CheckedAdd(a[k], s[k + 1]) /\ c[k + 1] = c[k] + s[k + 1]
    BY <1>1, <1>2, <2>1
  <2>3. a[k] \in Int /\ (a[k] # Overflow => c[k] = a[k]) /\ s[k + 1] \in Nat
    BY <1>3, <1>5, <2>1
  <2> QED  BY <2>2, <2>3, CheckedAddAdds
<1> HIDE DEF F
<1>6. n \in F
  BY <1>3, <1>4, <1>5, NatSetInduction
<1>7. a[n] # Overflow => c[n] = a[n]
  BY <1>3, <1>6 DEF F
<1> QED  BY <1>1, <1>2, <1>7

\* publish rejects a vector whose u32 sum overflows, so the weights of every epoch add
\* up to the total over the integers, however many there are.
THEOREM FeedAddsUp == OracleSpec => []WeightsAddUp
<1>1. OracleTypeOK /\ PublishedIsValid => WeightsAddUp
  <2> SUFFICES ASSUME OracleTypeOK, PublishedIsValid,
                      NEW e \in Epoch, epochs[e] # NoUpdate
               PROVE  FoldLeft(+, 0, epochs[e].constituents) = TotalWeight
    BY DEF WeightsAddUp
  <2> DEFINE s == epochs[e].constituents
  <2>1. s \in Basket
    BY DEF OracleTypeOK, Update
  <2>2. s \in Seq(Nat)
    <3>1. s \in Seq(0..U32Max)
      BY <2>1, OracleAssumption
    <3> HIDE DEF s
    <3> QED  BY <3>1, OracleAssumption
  <2>3. SumBps(s) = TotalWeight
    BY DEF PublishedIsValid, Normalized
  <2>4. TotalWeight # Overflow
    BY OracleAssumption DEF Overflow
  <2> HIDE DEF s
  <2>5. FoldLeft(+, 0, s) = TotalWeight
    BY <2>2, <2>3, <2>4, SumBpsIsSum
  <2> QED  BY <2>5 DEF s
<1> QED  BY <1>1, FeedIsSound, PTL

-----------------------------------------------------------------------------
\* One step of the contract rewrites no epoch and advances the head by at
\* most one.
LEMMA StepWritesOnce ==
  OracleInv /\ [OracleNext]_oracleVars =>
    [/\ \A e \in Epoch : epochs[e] # NoUpdate => epochs'[e] = epochs[e]
     /\ head' \in {head, head + 1}]_oracleVars
<1> SUFFICES ASSUME OracleInv, [OracleNext]_oracleVars
             PROVE  /\ \A e \in Epoch : epochs[e] # NoUpdate =>
                                          epochs'[e] = epochs[e]
                    /\ head' \in {head, head + 1}
  OBVIOUS
<1>1. ASSUME NEW auth \in SUBSET Address, NEW e \in Epoch, NEW v \in Value,
             NEW b \in Basket, Publish(auth, e, v, b)
      PROVE  /\ \A d \in Epoch : epochs[d] # NoUpdate => epochs'[d] = epochs[d]
             /\ head' \in {head, head + 1}
  <2>1. /\ e = head + 1 /\ head' = e
        /\ epochs' = [epochs EXCEPT ![e] = epochs'[e]]
    BY <1>1, PublishStores DEF OracleInv
  <2>2. epochs[e] = NoUpdate
    BY <2>1, OracleAssumption
    DEF OracleInv, PublishedIsPrefix, OracleTypeOK, Epoch, NoHead
  <2> QED  BY <2>1, <2>2 DEF OracleInv, OracleTypeOK
<1>2. CASE UNCHANGED <<head, epochs>>
  BY <1>2
<1> QED
  BY <1>1, <1>2
  DEF OracleNext, Initialize, SetPublisher, CloseLedger, oracleVars

\* A published epoch is immutable and the head neither goes back nor skips.
THEOREM FeedIsWriteOnce == OracleSpec => WriteOnce
<1>1. OracleSpec => []OracleInv
  BY InitInv, StepInv, PTL DEF OracleSpec
<1> QED  BY <1>1, StepWritesOnce, PTL DEF OracleSpec, WriteOnce

-----------------------------------------------------------------------------
(* The contract implements the append-only log. *)

\* What a reader sees is a sequence of well-formed updates, one per epoch.
LEMMA FeedIsLog ==
  ASSUME OracleInv
  PROVE  Feed \in Seq(WellFormed) /\ Len(Feed) = head + 1
<1>1. head + 1 \in Nat
  BY OracleAssumption DEF OracleInv, OracleTypeOK, Epoch, NoHead
<1>2. \A i \in 1..(head + 1) : epochs[i - 1] \in WellFormed
  <2> SUFFICES ASSUME NEW i \in 1..(head + 1)
               PROVE  epochs[i - 1] \in WellFormed
    OBVIOUS
  <2>1. i - 1 \in Epoch /\ i - 1 <= head
    BY OracleAssumption DEF OracleInv, OracleTypeOK, Epoch, NoHead
  <2>2. epochs[i - 1] # NoUpdate /\ epochs[i - 1] \in Update
    BY <2>1 DEF OracleInv, OracleTypeOK, PublishedIsPrefix
  <2> QED  BY <2>1, <2>2 DEF OracleInv, PublishedIsValid, WellFormed
<1> QED  BY <1>1, <1>2 DEF Feed

\* An accepted publish appends one entry to the log.
LEMMA PublishExtends ==
  ASSUME OracleInv, OracleInv', NEW auth \in SUBSET Address, NEW e \in Epoch,
         NEW v \in Value, NEW b \in Basket, Publish(auth, e, v, b)
  PROVE  Log!LogNext
<1> DEFINE u == epochs'[e]
<1>1. /\ e = head + 1 /\ head' = e
      /\ epochs' = [epochs EXCEPT ![e] = u]
      /\ u \in Update /\ u # NoUpdate
      /\ u.epoch = e /\ u.published_at = now
      /\ u.value > 0 /\ Normalized(u.constituents)
  <2>1. /\ u = [epoch |-> e, value |-> v, constituents |-> b,
                published_at |-> now]
        /\ e = head + 1 /\ head' = e
        /\ epochs' = [epochs EXCEPT ![e] = u]
        /\ u \in Update /\ u # NoUpdate
        /\ v > 0 /\ Normalized(b)
    BY PublishStores DEF OracleInv
  <2>2. u.epoch = e /\ u.published_at = now /\ u.value = v /\ u.constituents = b
    BY <2>1
  <2> QED  BY <2>1, <2>2
<1>2. u \in WellFormed
  BY <1>1 DEF WellFormed
<1>3. Feed \in Seq(WellFormed) /\ Len(Feed) = head + 1
  BY FeedIsLog
<1>4. head \in Int /\ head + 1 \in Nat
  BY OracleAssumption DEF OracleInv, OracleTypeOK, Epoch, NoHead
<1>5. Feed # <<>> => Feed[Len(Feed)].published_at <= u.published_at
  <2> SUFFICES ASSUME Feed # <<>>
               PROVE  Feed[Len(Feed)].published_at <= u.published_at
    OBVIOUS
  <2>1. head \in Epoch
    BY <1>3, <1>4 DEF OracleInv, OracleTypeOK, Epoch, NoHead
  <2>2. Feed[Len(Feed)] = epochs[head]
    BY <1>3, <1>4, <2>1 DEF Feed, Epoch
  <2>3. epochs[head].published_at <= now
    BY <1>4, <2>1 DEF OracleInv, PublishedIsPrefix, PublishedInOrder
  <2> QED  BY <1>1, <2>2, <2>3
<1>6. Feed' = Append(Feed, u)
  <2>1. Feed' = [i \in 1..(head + 2) |-> epochs'[i - 1]]
    BY <1>1, <1>4 DEF Feed
  <2>2. \A i \in 1..(head + 1) : epochs'[i - 1] = epochs[i - 1]
    BY <1>1, <1>4, OracleAssumption DEF OracleInv, OracleTypeOK, Epoch
  <2>3. epochs'[(head + 2) - 1] = u
    BY <1>1, <1>4
  <2>4. Append(Feed, u) =
          [i \in 1..(head + 2) |-> IF i = head + 2 THEN u ELSE Feed[i]]
    BY <1>2, <1>3, <1>4
  <2>5. \A i \in 1..(head + 1) : Feed[i] = epochs[i - 1]
    BY DEF Feed
  <2>6. \A i \in 1..(head + 2) : i = head + 2 \/ i \in 1..(head + 1)
    BY <1>4
  <2> QED  BY <2>1, <2>2, <2>3, <2>4, <2>5, <2>6
<1>7. Log!Extend(u)
  BY <1>1, <1>3, <1>5, <1>6 DEF Log!Extend
<1> QED  BY <1>2, <1>7 DEF Log!LogNext

\* An empty contract is an empty log.
LEMMA InitIsEmpty == OracleInit => Log!LogInit
<1> SUFFICES ASSUME OracleInit PROVE Feed = <<>>
  BY DEF Log!LogInit
<1>1. 1..(head + 1) = {}
  BY DEF OracleInit, NoHead
<1> QED  BY <1>1 DEF Feed

\* A call extends the log by one update or leaves it alone.
LEMMA StepExtends ==
  OracleInv /\ OracleInv' /\ [OracleNext]_oracleVars => [Log!LogNext]_Feed
<1> SUFFICES ASSUME OracleInv, OracleInv', [OracleNext]_oracleVars
             PROVE  Log!LogNext \/ Feed' = Feed
  OBVIOUS
<1>1. ASSUME NEW auth \in SUBSET Address, NEW e \in Epoch, NEW v \in Value,
             NEW b \in Basket, Publish(auth, e, v, b)
      PROVE  Log!LogNext
  BY <1>1, PublishExtends
<1>2. CASE UNCHANGED <<head, epochs>>
  BY <1>2 DEF Feed
<1> QED
  BY <1>1, <1>2
  DEF OracleNext, Initialize, SetPublisher, CloseLedger, oracleVars

\* The contract implements the append-only log a reader is promised.
THEOREM OracleImplementsFeedLog == OracleSpec => ImplementsFeedLog
<1>1. OracleSpec => []OracleInv
  BY InitInv, StepInv, PTL DEF OracleSpec
<1> QED
  BY <1>1, InitIsEmpty, StepExtends, PTL
  DEF OracleSpec, ImplementsFeedLog, Log!LogSpec
=============================================================================
