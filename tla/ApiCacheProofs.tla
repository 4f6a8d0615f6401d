--------------------------- MODULE ApiCacheProofs ---------------------------
(***************************************************************************)
(* Theorems about the read layer, for every number of requests, every TTL  *)
(* and every latency.  The chain only grows (Grows), so what a request has *)
(* read can only be overtaken by epochs published after it arrived; IInv   *)
(* carries that fact from the read to the cache and from there to the      *)
(* requests the cache serves.                                              *)
(***************************************************************************)
EXTENDS ApiCache, OracleProofs

-----------------------------------------------------------------------------
(* The inductive invariant. *)

\* Epoch e, if there is one by now, was published at t or later.
NotBefore(e, t) ==
  e \in Epoch /\ epochs[e] # NoUpdate => epochs[e].published_at >= t

\* The epoch whose absence would answer the request.
Asked(q) == IF want[q] = LatestKey THEN 0 ELSE want[q]

\* A request in flight has not been waiting for longer than a call may take.
Waiting ==
  \A q \in Request : InFlight(q) =>
    since[q] <= now /\ now <= since[q] + MaxLatency

\* What a request has read is in the contract: the epoch it asked for, or one
\* that was the head at some time after the request arrived.
ReadIsTrue ==
  \A q \in Request : pc[q] = "read" /\ got[q] # NoUpdate =>
    /\ got[q] = epochs[got[q].epoch]
    /\ want[q] # LatestKey => got[q].epoch = want[q]
    /\ want[q] = LatestKey => NotBefore(got[q].epoch + 1, since[q])

\* What a request did not find was absent at some time after it arrived.
AbsenceIsTrue ==
  \A q \in Request : pc[q] = "read" /\ got[q] = NoUpdate =>
    NotBefore(Asked(q), since[q])

\* The latest entry was the head one call before it was written, or later.
LatestEntryIsTrue ==
  cache[LatestKey] # NoEntry =>
    LET c == cache[LatestKey]
    IN /\ c.at <= now
       /\ c.update = epochs[c.update.epoch]
       /\ NotBefore(c.update.epoch + 1, c.at - MaxLatency)

IInv ==
  /\ OracleInv /\ TypeOK /\ EpochEntriesAreTrue
  /\ Waiting /\ ReadIsTrue /\ AbsenceIsTrue /\ LatestEntryIsTrue

-----------------------------------------------------------------------------
(* The chain under the requests. *)

\* What one step of the chain may do, as far as readers can tell.
Grows ==
  /\ now <= now'
  /\ \A e \in Epoch : /\ epochs[e] # NoUpdate => epochs'[e] = epochs[e]
                      /\ epochs[e] = NoUpdate /\ epochs'[e] # NoUpdate =>
                           epochs'[e].published_at = now

\* Every step of the API's world is a step of the contract or none.
LEMMA StepOfOracle == OracleInv /\ [Next]_vars => [OracleNext]_oracleVars
<1> SUFFICES ASSUME OracleInv, [Next]_vars PROVE [OracleNext]_oracleVars
  OBVIOUS
<1>1. CASE PublishNext
  <2>1. PICK v \in Value, b \in Basket : Publish({publisher}, Expected, v, b)
    BY <1>1 DEF PublishNext
  <2>2. {publisher} \in SUBSET Address /\ Expected \in Epoch
    BY <2>1 DEF Publish, CanPublish, OracleInv, OracleTypeOK
  <2> QED  BY <2>1, <2>2 DEF OracleNext
<1>2. CASE Deploy
  BY <1>2 DEF Deploy, OracleNext
<1>3. CASE Tick
  BY <1>3 DEF Tick, OracleNext
<1>4. ASSUME NEW q \in Request, NEW k \in Key, Arrive(q, k)
      PROVE  [OracleNext]_oracleVars
  BY <1>4 DEF Arrive
<1>5. ASSUME NEW q \in Request, Read(q) \/ Deliver(q) \/ Fail(q) \/ Finish(q)
      PROVE  [OracleNext]_oracleVars
  BY <1>5 DEF Read, Deliver, Fail, Finish
<1>6. CASE UNCHANGED vars
  BY <1>6 DEF vars
<1> QED  BY <1>1, <1>2, <1>3, <1>4, <1>5, <1>6 DEF Next

\* So the chain grows at every step of the contract.
LEMMA ChainGrows == OracleInv /\ [OracleNext]_oracleVars => Grows
<1> SUFFICES ASSUME OracleInv, [OracleNext]_oracleVars PROVE Grows
  OBVIOUS
<1>1. now \in Int
  BY DEF OracleInv, OracleTypeOK
<1>2. ASSUME NEW auth \in SUBSET Address, NEW e \in Epoch, NEW v \in Value,
             NEW b \in Basket, Publish(auth, e, v, b)
      PROVE  Grows
  <2>1. /\ e = head + 1 /\ now' = now
        /\ epochs' = [epochs EXCEPT ![e] = epochs'[e]]
        /\ epochs'[e] = [epoch |-> e, value |-> v, constituents |-> b,
                         published_at |-> now]
    BY <1>2, PublishStores DEF OracleInv
  <2>2. epochs[e] = NoUpdate
    BY <2>1, OracleAssumption
    DEF OracleInv, PublishedIsPrefix, OracleTypeOK, Epoch, NoHead
  <2>3. epochs'[e].published_at = now
    BY <2>1
  <2>4. \A d \in Epoch : d # e => epochs'[d] = epochs[d]
    BY <2>1 DEF OracleInv, OracleTypeOK
  <2> QED  BY <1>1, <2>1, <2>2, <2>3, <2>4 DEF Grows
<1>3. CASE CloseLedger
  BY <1>1, <1>3 DEF CloseLedger, Grows
<1>4. CASE UNCHANGED <<epochs, now>>
  BY <1>1, <1>4 DEF Grows
<1> QED
  BY <1>2, <1>3, <1>4 DEF OracleNext, Initialize, SetPublisher, oracleVars

\* So what was not published before t, no later than now, never will have been.
LEMMA NotBeforeStays ==
  ASSUME NEW e, NEW t \in Int, OracleInv, Grows, t <= now, NotBefore(e, t)
  PROVE  NotBefore(e, t)'
<1>1. now \in Int
  BY DEF OracleInv, OracleTypeOK
<1> QED  BY <1>1 DEF NotBefore, Grows

\* Nor, all the less, before any earlier time.
LEMMA NotBeforeEarlier ==
  ASSUME NEW e, NEW t \in Int, NEW s \in Int, OracleInv, NotBefore(e, t), s <= t
  PROVE  NotBefore(e, s)
<1>1. e \in Epoch /\ epochs[e] # NoUpdate => epochs[e].published_at \in Int
  BY OracleAssumption DEF OracleInv, OracleTypeOK, Update
<1> QED  BY <1>1 DEF NotBefore

\* What AtEpoch and Latest return.
LEMMA ReadsFind ==
  ASSUME OracleInv
  PROVE  /\ \A e \in Epoch : AtEpoch(e) # NoUpdate =>
              AtEpoch(e) \in Update /\ AtEpoch(e).epoch = e
         /\ Latest \in Update \cup {NoUpdate}
         /\ Latest # NoUpdate =>
              Latest.epoch = head /\ head \in Epoch /\ Latest = epochs[head]
         /\ Latest = NoUpdate => \A e \in Epoch : epochs[e] = NoUpdate
  BY NoUpdateApart, OracleAssumption
  DEF OracleInv, OracleTypeOK, PublishedIsPrefix, PublishedIsValid, AtEpoch, Latest,
      Epoch, NoHead

-----------------------------------------------------------------------------
(* IInv is inductive.  First the steps of the chain. *)

\* The numbers that the steps compare.
LEMMA TypesOfTime ==
  ASSUME OracleInv, TypeOK
  PROVE  /\ now \in Int /\ MaxLatency \in Int
         /\ \A q \in Request : since[q] \in Int
         /\ cache[LatestKey] # NoEntry => /\ cache[LatestKey].at \in Int
                                          /\ cache[LatestKey].update \in Update
<1>1. LatestKey \in Key
  BY DEF Key
<1> QED
  BY <1>1, OracleAssumption, ApiAssumption DEF OracleInv, OracleTypeOK, TypeOK

\* A step of the chain, one that keeps time within the latency of every call.
LEMMA ChainInv ==
  ASSUME IInv, [OracleNext]_oracleVars, UNCHANGED apiVars,
         now' = now \/ \A q \in Request : InFlight(q) => now' <= since[q] + MaxLatency
  PROVE  IInv'
<1> USE DEF IInv
<1>1. OracleInv'
  BY StepInv
<1>2. Grows
  BY ChainGrows
<1>3. TypeOK'
  BY DEF TypeOK, apiVars
<1>4. EpochEntriesAreTrue'
  BY <1>2 DEF EpochEntriesAreTrue, Grows, apiVars
<1>5. now' \in Int /\ now <= now'
  BY <1>1, <1>2, OracleAssumption DEF OracleInv, OracleTypeOK, Grows
<1>6. Waiting'
  BY <1>5, TypesOfTime DEF Waiting, InFlight, apiVars
<1>7. \A q \in Request : pc[q] = "read" => since[q] <= now /\ since[q] \in Int
  BY TypesOfTime DEF Waiting, InFlight
<1>8. \A u \in Update : u = epochs[u.epoch] => u = epochs'[u.epoch]
  BY <1>2, NoUpdateApart DEF Grows, Update
<1>9. ReadIsTrue'
  <2> SUFFICES ASSUME NEW q \in Request, pc[q] = "read", got[q] # NoUpdate
               PROVE  /\ got[q] = epochs'[got[q].epoch]
                      /\ want[q] # LatestKey => got[q].epoch = want[q]
                      /\ want[q] = LatestKey => NotBefore(got[q].epoch + 1, since[q])'
    BY DEF ReadIsTrue, apiVars
  <2>1. got[q] \in Update
    BY DEF TypeOK
  <2>2. /\ got[q] = epochs[got[q].epoch]
        /\ want[q] # LatestKey => got[q].epoch = want[q]
        /\ want[q] = LatestKey => NotBefore(got[q].epoch + 1, since[q])
    BY DEF ReadIsTrue
  <2>3. /\ since' = since /\ got' = got
        /\ since[q] \in Int /\ since[q] <= now
    BY <1>7 DEF apiVars
  <2>4. NotBefore(got[q].epoch + 1, since[q])
          => NotBefore(got[q].epoch + 1, since[q])'
    BY <1>2, <2>3, TypesOfTime DEF NotBefore, Grows
  <2> QED  BY <1>8, <2>1, <2>2, <2>4
<1>10. AbsenceIsTrue'
  <2> SUFFICES ASSUME NEW q \in Request, pc[q] = "read", got[q] = NoUpdate
               PROVE  NotBefore(Asked(q), since[q])'
    BY DEF AbsenceIsTrue, apiVars
  <2>1. NotBefore(Asked(q), since[q])
    BY DEF AbsenceIsTrue
  <2>2. since' = since /\ Asked(q)' = Asked(q)
    BY DEF apiVars, Asked
  <2> QED  BY <1>2, <1>7, <2>1, <2>2, TypesOfTime DEF NotBefore, Grows
<1>11. LatestEntryIsTrue'
  <2> SUFFICES ASSUME cache[LatestKey] # NoEntry
               PROVE  /\ cache[LatestKey].at <= now'
                      /\ cache[LatestKey].update = epochs'[cache[LatestKey].update.epoch]
                      /\ NotBefore(cache[LatestKey].update.epoch + 1,
                                   cache[LatestKey].at - MaxLatency)'
    BY DEF LatestEntryIsTrue, apiVars
  <2> DEFINE c == cache[LatestKey]
  <2>1. /\ c.at <= now /\ c.update = epochs[c.update.epoch]
        /\ NotBefore(c.update.epoch + 1, c.at - MaxLatency)
    BY DEF LatestEntryIsTrue
  <2>2. c.at \in Int /\ c.update \in Update /\ now \in Int /\ MaxLatency \in Nat
    BY TypesOfTime, ApiAssumption
  <2>3. c.at - MaxLatency <= now /\ c' = c
    BY <2>1, <2>2 DEF apiVars
  <2>4. NotBefore(c.update.epoch + 1, c.at - MaxLatency)'
    BY <1>2, <2>1, <2>2, <2>3 DEF NotBefore, Grows
  <2> QED  BY <1>5, <1>8, <2>1, <2>2, <2>4
<1> QED  BY <1>1, <1>3, <1>4, <1>6, <1>9, <1>10, <1>11

(* Then the steps of the requests, which leave the chain alone. *)

\* A request that arrives has read nothing yet.
LEMMA ArriveInv ==
  ASSUME IInv, NEW q \in Request, NEW k \in Key, Arrive(q, k)
  PROVE  IInv'
<1> USE DEF IInv
<1>1. /\ UNCHANGED <<oracleVars, cache>>
      /\ want' = [want EXCEPT ![q] = k]
      /\ since' = [since EXCEPT ![q] = now]
      /\ pc' = [pc EXCEPT ![q] = pc'[q]]
      /\ pc'[q] \in {"served", "reading"}
      /\ got' = [got EXCEPT ![q] = got'[q]]
      /\ got'[q] \in {cache[k].update, NoUpdate}
      /\ got'[q] = cache[k].update => cache[k] # NoEntry \/ got'[q] = NoUpdate
  BY DEF Arrive, Hit, TypeOK
<1>2. OracleInv' /\ EpochEntriesAreTrue' /\ LatestEntryIsTrue'
  BY <1>1
  DEF oracleVars, OracleInv, OracleTypeOK, PublishedIsPrefix, PublishedIsValid,
      PublishedInOrder, EpochEntriesAreTrue, LatestEntryIsTrue, NotBefore
<1>3. TypeOK'
  <2>1. got'[q] \in Update \cup {NoUpdate}
    BY <1>1 DEF TypeOK
  <2> QED  BY <1>1, <2>1 DEF TypeOK, oracleVars, OracleInv, OracleTypeOK, Ends
<1>4. Waiting'
  BY <1>1, ApiAssumption, TypesOfTime DEF Waiting, InFlight, TypeOK, oracleVars
<1>5. ReadIsTrue' /\ AbsenceIsTrue'
  BY <1>1 DEF ReadIsTrue, AbsenceIsTrue, Asked, NotBefore, TypeOK, oracleVars
<1> QED  BY <1>2, <1>3, <1>4, <1>5

\* What the ledger returns is the head, or the epoch asked for, right now.
LEMMA ReadInv ==
  ASSUME IInv, NEW q \in Request, Read(q)
  PROVE  IInv'
<1> USE DEF IInv
<1>1. /\ UNCHANGED <<oracleVars, cache, want, since>>
      /\ pc[q] = "reading"
      /\ pc' = [pc EXCEPT ![q] = "read"]
      /\ got' = [got EXCEPT ![q] = got'[q]]
      /\ got'[q] = IF want[q] = LatestKey THEN Latest ELSE AtEpoch(want[q])
  BY DEF Read, TypeOK
<1>2. OracleInv' /\ EpochEntriesAreTrue' /\ LatestEntryIsTrue'
  BY <1>1
  DEF oracleVars, OracleInv, OracleTypeOK, PublishedIsPrefix, PublishedIsValid,
      PublishedInOrder, EpochEntriesAreTrue, LatestEntryIsTrue, NotBefore
<1>3. want[q] \in Epoch \cup {LatestKey}
  BY DEF TypeOK, Key
<1>4. TypeOK'
  <2>1. got'[q] \in Update \cup {NoUpdate}
    BY <1>1, <1>3, ReadsFind
  <2> QED  BY <1>1, <2>1 DEF TypeOK
<1>5. Waiting'
  BY <1>1 DEF Waiting, InFlight, TypeOK, oracleVars
<1>6. got'[q] # NoUpdate =>
        /\ got'[q] = epochs[got'[q].epoch]
        /\ want[q] # LatestKey => got'[q].epoch = want[q]
        /\ want[q] = LatestKey => NotBefore(got'[q].epoch + 1, since[q])
  <2>1. NotBefore(head + 1, since[q])
    BY DEF OracleInv, OracleTypeOK, PublishedIsPrefix, NotBefore, Epoch, NoHead
  <2>2. CASE want[q] = LatestKey
    BY <1>1, <2>1, <2>2, ReadsFind
  <2>3. CASE want[q] # LatestKey
    BY <1>1, <1>3, <2>3, ReadsFind DEF AtEpoch
  <2> QED  BY <2>2, <2>3
<1>7. got'[q] = NoUpdate => NotBefore(Asked(q), since[q])
  <2>1. CASE want[q] = LatestKey
    BY <1>1, <2>1, ReadsFind DEF NotBefore
  <2>2. CASE want[q] # LatestKey
    BY <1>1, <2>2 DEF AtEpoch, Asked, NotBefore
  <2> QED  BY <2>1, <2>2
<1>8. ReadIsTrue'
  BY <1>1, <1>6 DEF ReadIsTrue, NotBefore, TypeOK, oracleVars
<1>9. AbsenceIsTrue'
  BY <1>1, <1>7 DEF AbsenceIsTrue, Asked, NotBefore, TypeOK, oracleVars
<1> QED  BY <1>2, <1>4, <1>5, <1>8, <1>9

\* What is written to the cache was read no earlier than one call ago.
LEMMA DeliverInv ==
  ASSUME IInv, NEW q \in Request, Deliver(q)
  PROVE  IInv'
<1> USE DEF IInv
<1>1. /\ UNCHANGED <<oracleVars, want, since, got>>
      /\ pc[q] = "read"
      /\ pc' = [pc EXCEPT ![q] = pc'[q]]
      /\ pc'[q] \in {"served", "absent"}
      /\ cache' = cache \/ (got[q] # NoUpdate /\ cache' = Store(want[q], got[q]))
  BY DEF Deliver, TypeOK
<1>2. OracleInv' /\ Waiting' /\ ReadIsTrue' /\ AbsenceIsTrue'
  BY <1>1
  DEF oracleVars, OracleInv, OracleTypeOK, PublishedIsPrefix, PublishedIsValid,
      PublishedInOrder, Waiting, InFlight, ReadIsTrue, AbsenceIsTrue, Asked, NotBefore,
      TypeOK
<1>3. CASE cache' = cache
  BY <1>1, <1>2, <1>3
  DEF TypeOK, Ends, EpochEntriesAreTrue, LatestEntryIsTrue, NotBefore, oracleVars
<1>4. CASE got[q] # NoUpdate /\ cache' = Store(want[q], got[q])
  <2> DEFINE c == [update |-> got[q], at |-> now]
  <2>1. cache' = [cache EXCEPT ![want[q]] = c]
    BY <1>4 DEF Store
  <2>2. got[q] \in Update /\ want[q] \in Key /\ now \in 0..MaxTime
    BY <1>4 DEF TypeOK, OracleInv, OracleTypeOK
  <2>3. \A k \in Key : cache'[k] = IF k = want[q] THEN c ELSE cache[k]
    BY <2>1 DEF TypeOK
  <2>4. TypeOK'
    BY <1>1, <2>1, <2>2 DEF TypeOK, Ends
  <2>5. /\ got[q] = epochs[got[q].epoch]
        /\ want[q] # LatestKey => got[q].epoch = want[q]
        /\ want[q] = LatestKey => NotBefore(got[q].epoch + 1, since[q])
    BY <1>1, <1>4 DEF ReadIsTrue
  <2>6. EpochEntriesAreTrue'
    <3>1. \A e \in Epoch : e \in Key /\ e # LatestKey
      BY DEF Key, LatestKey, Epoch, NoHead
    <3> QED  BY <1>1, <1>4, <2>3, <2>5, <3>1 DEF EpochEntriesAreTrue, oracleVars
  <2>7. LatestEntryIsTrue'
    <3>1. CASE want[q] = LatestKey
      <4>1. cache'[LatestKey] = c
        BY <2>2, <2>3, <3>1
      <4>2. since[q] <= now /\ now <= since[q] + MaxLatency
        BY <1>1 DEF Waiting, InFlight
      <4>3. NotBefore(got[q].epoch + 1, now - MaxLatency)
        BY <2>5, <3>1, <4>2, TypesOfTime, NotBeforeEarlier
      <4> QED  BY <1>1, <2>2, <2>5, <4>1, <4>3 DEF LatestEntryIsTrue, NotBefore, oracleVars
    <3>2. CASE want[q] # LatestKey
      <4>1. cache'[LatestKey] = cache[LatestKey]
        BY <2>1, <3>2 DEF TypeOK, Key
      <4> QED  BY <1>1, <4>1 DEF LatestEntryIsTrue, NotBefore, oracleVars
    <3> QED  BY <3>1, <3>2
  <2> QED  BY <1>2, <2>4, <2>6, <2>7
<1> QED  BY <1>1, <1>3, <1>4

\* A request that fails or ends is no longer in flight.
LEMMA EndInv ==
  ASSUME IInv, NEW q \in Request, Fail(q) \/ Finish(q)
  PROVE  IInv'
<1> USE DEF IInv
<1>1. /\ UNCHANGED <<oracleVars, cache>>
      /\ pc' = [pc EXCEPT ![q] = pc'[q]]
      /\ pc'[q] \in {"failed", "idle"}
      /\ want' = [want EXCEPT ![q] = want'[q]] /\ want'[q] \in {want[q], LatestKey}
      /\ since' = [since EXCEPT ![q] = since'[q]] /\ since'[q] \in {since[q], 0}
      /\ got' = [got EXCEPT ![q] = got'[q]] /\ got'[q] \in {got[q], NoUpdate}
  BY DEF Fail, Finish, TypeOK
<1>2. OracleInv' /\ EpochEntriesAreTrue' /\ LatestEntryIsTrue'
  BY <1>1
  DEF oracleVars, OracleInv, OracleTypeOK, PublishedIsPrefix, PublishedIsValid,
      PublishedInOrder, EpochEntriesAreTrue, LatestEntryIsTrue, NotBefore
<1>3. TypeOK'
  <2>1. /\ pc'[q] \in Ends \cup {"idle", "reading", "read"}
        /\ want'[q] \in Key /\ since'[q] \in 0..MaxTime
        /\ got'[q] \in Update \cup {NoUpdate}
    BY <1>1, OracleAssumption DEF TypeOK, Ends, Key
  <2> QED  BY <1>1, <2>1 DEF TypeOK
<1>4. Waiting' /\ ReadIsTrue' /\ AbsenceIsTrue'
  BY <1>1
  DEF Waiting, InFlight, ReadIsTrue, AbsenceIsTrue, Asked, NotBefore, TypeOK, oracleVars
<1> QED  BY <1>2, <1>3, <1>4

\* Nothing is cached and nobody asks.
LEMMA InitIInv == Init => IInv
<1> SUFFICES ASSUME Init PROVE IInv
  OBVIOUS
<1>1. OracleInv
  BY InitInv DEF Init
<1>2. TypeOK
  BY OracleAssumption DEF Init, TypeOK, Key, Ends
<1>3. \A k \in Key : cache[k] = NoEntry
  BY DEF Init
<1> QED
  BY <1>1, <1>2, <1>3
  DEF Init, IInv, EpochEntriesAreTrue, Waiting, InFlight, ReadIsTrue, AbsenceIsTrue,
      LatestEntryIsTrue, Key

\* One case per step.
LEMMA NextIInv == IInv /\ [Next]_vars => IInv'
<1> SUFFICES ASSUME IInv, [Next]_vars PROVE IInv'
  OBVIOUS
<1>1. OracleInv /\ TypeOK /\ [OracleNext]_oracleVars
  BY StepOfOracle DEF IInv
<1>2. CASE Deploy
  BY <1>1, <1>2, ChainInv DEF Deploy, Initialize
<1>3. CASE PublishNext
  BY <1>1, <1>3, ChainInv DEF PublishNext, Publish
<1>4. CASE Tick
  <2>1. \A q \in Request : InFlight(q) => now' <= since[q] + MaxLatency
    BY <1>1, <1>4, TypesOfTime DEF Tick, CloseLedger
  <2> QED  BY <1>1, <1>4, <2>1, ChainInv DEF Tick
<1>5. ASSUME NEW q \in Request, NEW k \in Key, Arrive(q, k)
      PROVE  IInv'
  BY <1>5, ArriveInv
<1>6. ASSUME NEW q \in Request, Read(q)
      PROVE  IInv'
  BY <1>6, ReadInv
<1>7. ASSUME NEW q \in Request, Deliver(q)
      PROVE  IInv'
  BY <1>7, DeliverInv
<1>8. ASSUME NEW q \in Request, Fail(q) \/ Finish(q)
      PROVE  IInv'
  BY <1>8, EndInv
<1>9. CASE UNCHANGED vars
  BY <1>1, <1>9, ChainInv DEF vars, oracleVars
<1> QED  BY <1>2, <1>3, <1>4, <1>5, <1>6, <1>7, <1>8, <1>9 DEF Next

\* The invariant holds in every reachable state.
LEMMA IInvHolds == Spec => []IInv
  BY InitIInv, NextIInv, PTL DEF Spec

-----------------------------------------------------------------------------
(* The theorems. *)

\* Every variable of the read layer has its type.
THEOREM ApiTypes == Spec => []TypeOK
  BY IInvHolds, PTL DEF IInv

\* What is cached for an epoch, for ever, is what the contract has for it.
THEOREM EpochEntriesNeverLie == Spec => []EpochEntriesAreTrue
  BY IInvHolds, PTL DEF IInv

\* Served as latest, from the cache or from the ledger.
LEMMA StepLatest ==
  ASSUME IInv, [Next]_vars, NEW q \in Request,
         pc[q] # "served", pc'[q] = "served", want'[q] = LatestKey
  PROVE  /\ got'[q] = epochs[got'[q].epoch]
         /\ got'[q].epoch < head =>
              LET age == now - epochs[got'[q].epoch + 1].published_at
              IN age <= MaxLatency \/ age < Ttl + MaxLatency
<1> USE DEF IInv
<1> DEFINE u == got'[q]
           age == now - epochs[u.epoch + 1].published_at
<1>1. (\E k \in Key : Arrive(q, k)) \/ Deliver(q)
  BY DEF Next, vars, apiVars, Arrive, Read, Deliver, Fail, Finish, Deploy, PublishNext,
         Tick, TypeOK
<1>2. now \in Int /\ MaxLatency \in Int /\ Ttl \in Int /\ since[q] \in Int
  BY TypesOfTime, ApiAssumption
\* An update that has been superseded has a successor.
<1>3. u \in Update /\ u.epoch < head =>
        /\ u.epoch + 1 \in Epoch /\ epochs[u.epoch + 1] # NoUpdate
        /\ epochs[u.epoch + 1].published_at \in Int
  <2> SUFFICES ASSUME u \in Update, u.epoch < head
               PROVE  /\ u.epoch + 1 \in Epoch /\ epochs[u.epoch + 1] # NoUpdate
                      /\ epochs[u.epoch + 1].published_at \in Int
    OBVIOUS
  <2>1. u.epoch \in Epoch
    BY DEF Update
  <2>2. u.epoch + 1 \in Epoch /\ u.epoch + 1 <= head
    BY <2>1, OracleAssumption DEF OracleInv, OracleTypeOK, Epoch, NoHead
  <2>3. epochs[u.epoch + 1] # NoUpdate /\ epochs[u.epoch + 1] \in Update
    BY <2>2 DEF OracleInv, OracleTypeOK, PublishedIsPrefix
  <2> QED  BY <2>2, <2>3, OracleAssumption DEF Update
<1>4. CASE \E k \in Key : Arrive(q, k)
  <2> DEFINE c == cache[LatestKey]
  <2>1. /\ c # NoEntry /\ u = c.update /\ now - c.at < Ttl
    BY <1>4 DEF Arrive, Hit, TypeOK
  <2>2. /\ c.at \in Int /\ u \in Update /\ u = epochs[u.epoch]
        /\ NotBefore(u.epoch + 1, c.at - MaxLatency)
    BY <2>1, TypesOfTime DEF LatestEntryIsTrue
  <2>3. u.epoch < head => age < Ttl + MaxLatency
    BY <1>2, <1>3, <2>1, <2>2 DEF NotBefore
  <2> QED  BY <2>2, <2>3
<1>5. CASE Deliver(q)
  <2>1. pc[q] = "read" /\ want[q] = LatestKey /\ u = got[q] /\ got[q] # NoUpdate
    BY <1>5 DEF Deliver, TypeOK
  <2>2. u \in Update /\ u = epochs[u.epoch] /\ NotBefore(u.epoch + 1, since[q])
    BY <2>1 DEF ReadIsTrue, TypeOK
  <2>3. now <= since[q] + MaxLatency
    BY <2>1 DEF Waiting, InFlight
  <2>4. u.epoch < head => age <= MaxLatency
    BY <1>2, <1>3, <2>2, <2>3 DEF NotBefore
  <2> QED  BY <2>2, <2>4
<1> QED  BY <1>1, <1>4, <1>5

\* Nobody is served as latest an update superseded a TTL and a call ago.
THEOREM StalenessIsBounded == Spec => LatestIsRecent
<1>1. IInv /\ [Next]_vars =>
        [\A q \in Request :
           pc[q] # "served" /\ pc'[q] = "served" /\ want'[q] = LatestKey =>
             /\ got'[q] = epochs[got'[q].epoch]
             /\ got'[q].epoch < head =>
                  LET age == now - epochs[got'[q].epoch + 1].published_at
                  IN age <= MaxLatency \/ age < Ttl + MaxLatency]_vars
  BY StepLatest
<1> QED  BY <1>1, IInvHolds, PTL DEF Spec, LatestIsRecent

\* Told of an absence, by the ledger and never by the cache.
LEMMA StepAbsence ==
  ASSUME IInv, [Next]_vars, NEW q \in Request,
         pc[q] \notin Ends, pc'[q] \in {"absent", "served"}, got'[q] = NoUpdate
  PROVE  LET e == IF want'[q] = LatestKey THEN 0 ELSE want'[q]
         IN epochs[e] # NoUpdate => epochs[e].published_at >= since'[q]
<1> USE DEF IInv
<1>1. (\E k \in Key : Arrive(q, k)) \/ Deliver(q)
  BY DEF Next, vars, apiVars, Arrive, Read, Deliver, Fail, Finish, Deploy, PublishNext,
         Tick, TypeOK, Ends
<1>2. CASE \E k \in Key : Arrive(q, k)
  <2>1. PICK k \in Key : Arrive(q, k)
    BY <1>2
  <2>2. cache[k] # NoEntry /\ got'[q] = cache[k].update
    BY <2>1 DEF Arrive, Hit, TypeOK
  <2>3. cache[k].update \in Update
    BY <2>2 DEF TypeOK
  <2> QED  BY <2>2, <2>3, NoUpdateApart
<1>3. CASE Deliver(q)
  <2>1. pc[q] = "read" /\ got[q] = NoUpdate /\ UNCHANGED <<want, since>>
    BY <1>3 DEF Deliver
  <2>2. NotBefore(Asked(q), since[q]) /\ Asked(q) \in Epoch
    BY <2>1, OracleAssumption DEF AbsenceIsTrue, Asked, TypeOK, Key, Epoch
  <2> QED  BY <2>1, <2>2 DEF NotBefore, Asked
<1> QED  BY <1>1, <1>2, <1>3

\* Who is told of an absence asked before there was anything to be found.
THEOREM AbsenceIsNeverRemembered == Spec => AbsenceIsCurrent
<1>1. IInv /\ [Next]_vars =>
        [\A q \in Request :
           pc[q] \notin Ends /\ pc'[q] \in {"absent", "served"} /\ got'[q] = NoUpdate =>
             LET e == IF want'[q] = LatestKey THEN 0 ELSE want'[q]
             IN epochs[e] # NoUpdate => epochs[e].published_at >= since'[q]]_vars
  BY StepAbsence
<1> QED  BY <1>1, IInvHolds, PTL DEF Spec, AbsenceIsCurrent
=============================================================================
