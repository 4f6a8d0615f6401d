------------------------------ MODULE ApiCache ------------------------------
(***************************************************************************)
(* The read layer of the paid API, packages/api/src/oracle.js, over the    *)
(* contract, with the handlers of packages/api/src/server.js that call it. *)
(*                                                                         *)
(* Requests interleave at the awaited RPC call: between the cache lookup   *)
(* and the RPC's look at the ledger, and between that and the write to the *)
(* cache.  value() is latest() with fields left out, so it is a latest     *)
(* request here; head() has no route.                                      *)
(***************************************************************************)
EXTENDS Oracle

CONSTANTS
  Request,        \* concurrent requests; a finished one makes way for another
  Ttl,            \* cacheTtlSeconds, in ledger ticks
  MaxLatency      \* bound on the time an RPC call takes to return

ASSUME ApiAssumption == Ttl \in Nat /\ MaxLatency \in Nat

VARIABLES
  cache,          \* what is cached under each key
  pc,             \* where each request is
  want,           \* the key it asks for
  since,          \* when it arrived
  got             \* what it read, or what it is answered with

apiVars == <<cache, pc, want, since, got>>
vars == <<oracleVars, apiVars>>

NoEntry == [update |-> NoUpdate, at |-> -1]

\* The cache's keys: "latest", and "epoch:e" for each e.
LatestKey == NoHead
Key == Epoch \cup {LatestKey}

Ends == {"served", "absent", "failed"}
InFlight(q) == pc[q] \in {"reading", "read"}

-----------------------------------------------------------------------------
Init ==
  /\ OracleInit
  /\ cache = [k \in Key |-> NoEntry]
  /\ pc = [q \in Request |-> "idle"]
  /\ want = [q \in Request |-> LatestKey]
  /\ since = [q \in Request |-> 0]
  /\ got = [q \in Request |-> NoUpdate]

\* Mutant: entries never expire.
HitForever(k) == cache[k] # NoEntry
\* A latest entry is used while it is younger than the TTL, an epoch always.
Hit(k) ==
  /\ cache[k] # NoEntry
  /\ k = LatestKey => now - cache[k].at < Ttl

\* A paid request reaches its handler: a hit is served at once, a miss goes to
\* the RPC, whether or not another request is already reading the same key.
Arrive(q, k) ==
  /\ pc[q] = "idle"
  /\ want' = [want EXCEPT ![q] = k]
  /\ since' = [since EXCEPT ![q] = now]
  /\ pc' = [pc EXCEPT ![q] = IF Hit(k) THEN "served" ELSE "reading"]
  /\ got' = [got EXCEPT ![q] = IF Hit(k) THEN cache[k].update ELSE NoUpdate]
  /\ UNCHANGED <<oracleVars, cache>>

\* The RPC simulates the read on the ledger it has.
Read(q) ==
  /\ pc[q] = "reading"
  /\ pc' = [pc EXCEPT ![q] = "read"]
  /\ got' = [got EXCEPT ![q] =
       IF want[q] = LatestKey THEN Latest ELSE AtEpoch(want[q])]
  /\ UNCHANGED <<oracleVars, cache, want, since>>

\* Mutant: a read of the head is kept under its epoch, whatever was asked.
StoreUnderHead(k, u) ==
  [cache EXCEPT ![k] = [update |-> u, at |-> now], ![head] = [update |-> u, at |-> now]]
Store(k, u) == [cache EXCEPT ![k] = [update |-> u, at |-> now]]

\* Mutant: what was absent is cached too.
DeliverAnything(q) ==
  /\ pc[q] = "read"
  /\ pc' = [pc EXCEPT ![q] = IF got[q] = NoUpdate THEN "absent" ELSE "served"]
  /\ cache' = Store(want[q], got[q])
  /\ UNCHANGED <<oracleVars, want, since, got>>
\* The answer reaches the handler.  A contract error (503 or 404) is thrown
\* past the cache; an update overwrites whatever the cache has by now.
Deliver(q) ==
  /\ pc[q] = "read"
  /\ \/ /\ got[q] = NoUpdate
        /\ pc' = [pc EXCEPT ![q] = "absent"]
        /\ UNCHANGED cache
     \/ /\ got[q] # NoUpdate
        /\ pc' = [pc EXCEPT ![q] = "served"]
        /\ cache' = Store(want[q], got[q])
  /\ UNCHANGED <<oracleVars, want, since, got>>

\* The RPC cannot be reached or fails: the exception becomes a 502.
Fail(q) ==
  /\ InFlight(q)
  /\ pc' = [pc EXCEPT ![q] = "failed"]
  /\ UNCHANGED <<oracleVars, cache, want, since, got>>

Finish(q) ==
  /\ pc[q] \in Ends
  /\ pc' = [pc EXCEPT ![q] = "idle"]
  /\ want' = [want EXCEPT ![q] = LatestKey]
  /\ since' = [since EXCEPT ![q] = 0]
  /\ got' = [got EXCEPT ![q] = NoUpdate]
  /\ UNCHANGED <<oracleVars, cache>>

-----------------------------------------------------------------------------
(* The chain moves on under the API. *)

Deploy == (\E a \in Address : Initialize(a, a)) /\ UNCHANGED apiVars

PublishNext ==
  /\ \E v \in Value, b \in Basket : Publish({publisher}, Expected, v, b)
  /\ UNCHANGED apiVars

Tick ==
  /\ \A q \in Request : InFlight(q) => now - since[q] < MaxLatency
  /\ CloseLedger
  /\ UNCHANGED apiVars

Next ==
  \/ \E q \in Request :
       (\E k \in Key : Arrive(q, k)) \/ Read(q) \/ Deliver(q) \/ Fail(q) \/ Finish(q)
  \/ Deploy \/ PublishNext \/ Tick

Spec == Init /\ [][Next]_vars

-----------------------------------------------------------------------------
(* Properties. *)

TypeOK ==
  /\ cache \in [Key -> [update : Update, at : 0..MaxTime] \cup {NoEntry}]
  /\ pc \in [Request -> Ends \cup {"idle", "reading", "read"}]
  /\ want \in [Request -> Key]
  /\ since \in [Request -> 0..MaxTime]
  /\ got \in [Request -> Update \cup {NoUpdate}]

\* An entry that never expires never needs to: what is cached for an epoch is
\* what the contract has for it, and only once the contract has it.
EpochEntriesAreTrue ==
  \A e \in Epoch : cache[e] # NoEntry =>
    epochs[e] # NoUpdate /\ cache[e].update = epochs[e]

\* However reads of several requests overtake each other and overwrite the
\* entry, whoever is served as latest an update that has been superseded is
\* served it less than the TTL and one RPC call after that happened (or within
\* the call alone, should the TTL be zero).
LatestIsRecent ==
  [][\A q \in Request :
       pc[q] # "served" /\ pc'[q] = "served" /\ want'[q] = LatestKey =>
         /\ got'[q] = epochs[got'[q].epoch]
         /\ got'[q].epoch < head =>
              LET age == now - epochs[got'[q].epoch + 1].published_at
              IN age <= MaxLatency \/ age < Ttl + MaxLatency]_vars

\* Who is told that there is no such epoch, or none at all, asked before there
\* was: an absence is never remembered.
AbsenceIsCurrent ==
  [][\A q \in Request :
       pc[q] \notin Ends /\ pc'[q] \in {"absent", "served"} /\ got'[q] = NoUpdate =>
         LET e == IF want'[q] = LatestKey THEN 0 ELSE want'[q]
         IN epochs[e] # NoUpdate => epochs[e].published_at >= since'[q]]_vars

\* The header of oracle.js: a failed refresh does not evict a good value; an
\* RPC outage degrades freshness, not availability.  So a request that found an
\* expired entry when it arrived, which is cached still, is not failed.
OutageOnlyDegradesFreshness ==
  [][\A q \in Request :
       LET entry == cache[want[q]]
       IN pc[q] # "failed" /\ pc'[q] = "failed" =>
            entry = NoEntry \/ since[q] - entry.at < Ttl]_vars
=============================================================================
