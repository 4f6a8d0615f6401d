------------------------------- MODULE Oracle -------------------------------
(***************************************************************************)
(* The Soroban contract of contracts/contracts/oracle/src/lib.rs.          *)
(*                                                                         *)
(* A contract call is one transaction: it runs alone and either commits    *)
(* all its writes or none.  A call that returns an error or traps changes  *)
(* nothing, so only the accepted calls are actions; everything that can    *)
(* make publish fail is a conjunct of CanPublish.  Symbols, the            *)
(* methodology hash and the error codes are left out: nothing below tells  *)
(* them apart.                                                             *)
(***************************************************************************)
EXTENDS Integers, Sequences, SequencesExt

CONSTANTS
  Address,        \* the accounts that may sign a transaction
  NoAddress,      \* an instance key that was never set
  U32Max,         \* largest value of the contract's u32, an epoch or a weight
  TotalWeight,    \* TOTAL_WEIGHT_BPS
  Value,          \* the index levels callers submit
  Basket,         \* the weight vectors callers submit
  MaxTime         \* bound on the ledger clock

ASSUME OracleAssumption ==
  /\ NoAddress \notin Address
  /\ U32Max \in Nat
  /\ TotalWeight \in 0..U32Max
  /\ Value \subseteq Int
  /\ Basket \subseteq Seq(0..U32Max)
  /\ MaxTime \in Nat

VARIABLES
  admin,          \* DataKey::Admin
  publisher,      \* DataKey::Publisher
  head,           \* DataKey::Head
  epochs,         \* DataKey::Epoch(e), for every e
  now             \* the ledger's timestamp

oracleVars == <<admin, publisher, head, epochs, now>>

Epoch == 0..U32Max

\* An absent Head is the predecessor of epoch 0, which is what
\* `map_or(0, |h| h + 1)` makes of it.
NoHead == -1

\* What DataKey::Epoch(e) may hold.
Update == [epoch : Epoch, value : Value, constituents : Basket,
           published_at : 0..MaxTime]
NoUpdate == [epoch |-> NoHead]

-----------------------------------------------------------------------------
(* The sum of the weights, with u32::checked_add at every step. *)

Overflow == -1
CheckedAdd(sum, w) ==
  IF sum = Overflow \/ sum + w > U32Max THEN Overflow ELSE sum + w
\* Mutant: plain +, which wraps in a build without overflow checks.
SumBpsWrapping(basket) ==
  FoldLeft(LAMBDA sum, w : (sum + w) % (U32Max + 1), 0, basket)
SumBps(basket) == FoldLeft(CheckedAdd, 0, basket)

Normalized(basket) == basket # <<>> /\ SumBps(basket) = TotalWeight

-----------------------------------------------------------------------------
OracleInit ==
  /\ admin = NoAddress
  /\ publisher = NoAddress
  /\ head = NoHead
  /\ epochs = [e \in Epoch |-> NoUpdate]
  /\ now = 0

\* Mutant: the publisher is left to a later set_publisher.
InitializeAdminOnly(a, p) ==
  admin = NoAddress /\ admin' = a /\ UNCHANGED <<publisher, head, epochs, now>>
\* initialize: anybody may call it, once.
Initialize(a, p) ==
  /\ admin = NoAddress
  /\ admin' = a
  /\ publisher' = p
  /\ UNCHANGED <<head, epochs, now>>

\* Mutants: inception at epoch 1; an epoch counter that wraps.
ExpectedFromOne == IF head = NoHead THEN 1 ELSE head + 1
ExpectedWrapping == (head + 1) % (U32Max + 1)
\* The epoch publish expects.  `h + 1` is compiled with overflow checks, so at
\* the last u32 the call traps: no epoch is expected.
Expected == head + 1

\* Mutants: no succession check; a value of zero.
CanPublishAnyEpoch(auth, e, v, basket) ==
  publisher \in auth /\ v > 0 /\ e \in Epoch /\ Normalized(basket)
CanPublishZero(auth, e, v, basket) ==
  publisher \in auth /\ v >= 0 /\ Expected \in Epoch /\ e = Expected
    /\ Normalized(basket)
\* publish succeeds, for a transaction signed by the accounts in auth.
CanPublish(auth, e, v, basket) ==
  /\ publisher # NoAddress
  /\ publisher \in auth
  /\ v > 0
  /\ Expected \in Epoch
  /\ e = Expected
  /\ Normalized(basket)

\* Mutant: the caller says when it was published.
PublishBackdated(auth, e, v, basket) ==
  /\ CanPublish(auth, e, v, basket)
  /\ \E t \in 0..MaxTime : epochs' = [epochs EXCEPT ![e] =
       [epoch |-> e, value |-> v, constituents |-> basket, published_at |-> t]]
  /\ head' = e
  /\ UNCHANGED <<admin, publisher, now>>
Publish(auth, e, v, basket) ==
  /\ CanPublish(auth, e, v, basket)
  /\ epochs' = [epochs EXCEPT ![e] =
       [epoch |-> e, value |-> v, constituents |-> basket, published_at |-> now]]
  /\ head' = e
  /\ UNCHANGED <<admin, publisher, now>>

\* set_publisher: the admin, and only the admin, replaces the publishing key.
SetPublisher(auth, p) ==
  /\ admin # NoAddress
  /\ admin \in auth
  /\ publisher' = p
  /\ UNCHANGED <<admin, head, epochs, now>>

\* The ledger's timestamp advances.
CloseLedger ==
  /\ now < MaxTime
  /\ now' = now + 1
  /\ UNCHANGED <<admin, publisher, head, epochs>>

OracleNext ==
  \/ \E a, p \in Address : Initialize(a, p)
  \/ \E auth \in SUBSET Address, e \in Epoch, v \in Value, b \in Basket :
       Publish(auth, e, v, b)
  \/ \E auth \in SUBSET Address, p \in Address : SetPublisher(auth, p)
  \/ CloseLedger

OracleSpec == OracleInit /\ [][OracleNext]_oracleVars

-----------------------------------------------------------------------------
(* The read functions. *)

\* at_epoch; NoUpdate is EpochNotFound.
AtEpoch(e) == epochs[e]

\* latest, and through it value; NoUpdate is NoData.
Latest == IF head = NoHead THEN NoUpdate ELSE AtEpoch(head)

-----------------------------------------------------------------------------
(* Properties. *)

\* Every key holds a value of its kind, and the contract has both of its keys
\* or neither: initialize never half-configures it.
OracleTypeOK ==
  /\ admin \in Address \cup {NoAddress}
  /\ publisher \in Address \cup {NoAddress}
  /\ (admin = NoAddress) <=> (publisher = NoAddress)
  /\ head \in Epoch \cup {NoHead}
  /\ epochs \in [Epoch -> Update \cup {NoUpdate}]
  /\ now \in 0..MaxTime

\* Head and the write-once epochs are separate keys; they agree.  What has been
\* published is exactly epochs 0 .. head, so latest finds its entry and an
\* auditor who walks back from the head meets no gap.
PublishedIsPrefix ==
  \A e \in Epoch : epochs[e] # NoUpdate <=> e <= head

\* Every stored epoch passed every check of publish, and lies under its own key.
PublishedIsValid ==
  \A e \in Epoch : epochs[e] # NoUpdate =>
    /\ epochs[e].epoch = e
    /\ epochs[e].value > 0
    /\ Normalized(epochs[e].constituents)

\* The weights of every epoch add up to the total, over the integers: a vector
\* whose u32 sum wraps to the total was not accepted.
WeightsAddUp ==
  \A e \in Epoch : epochs[e] # NoUpdate =>
    FoldLeft(+, 0, epochs[e].constituents) = TotalWeight

\* Timestamps never run backwards along the feed, nor ahead of the ledger.
PublishedInOrder ==
  \A e \in Epoch : epochs[e] # NoUpdate =>
    /\ epochs[e].published_at <= now
    /\ \A d \in 0..e : epochs[d].published_at <= epochs[e].published_at

\* A published epoch is never rewritten, the head never goes back and never
\* skips an epoch, up to and including the last u32.
WriteOnce ==
  [][/\ \A e \in Epoch : epochs[e] # NoUpdate => epochs'[e] = epochs[e]
     /\ head' \in {head, head + 1}]_oracleVars

\* The contract implements the append-only log of FeedLog: the log is what a
\* reader gets by asking for epochs 0 .. head.
Feed == [i \in 1..(head + 1) |-> epochs[i - 1]]
WellFormed == {u \in Update : u.value > 0 /\ Normalized(u.constituents)}
Log == INSTANCE FeedLog WITH Update <- WellFormed, log <- Feed
ImplementsFeedLog == Log!LogSpec
=============================================================================
