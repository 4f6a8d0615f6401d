------------------------------ MODULE Universe ------------------------------
(***************************************************************************)
(* The candidates of one rebalance: what the fundamentals providers list   *)
(* (fundamentals.js of packages/aggregator), merged by ticker into one row *)
(* each by collectFundamentals, and the ids by which aggregators are later *)
(* asked for a price (symbols.js).                                         *)
(*                                                                         *)
(* Several assets may share a ticker.  Capitalisations and volumes are     *)
(* whole numbers of one unit and changes tenths of a percent; a median may *)
(* fall half way between two numbers, so merged rows hold them doubled.    *)
(***************************************************************************)
EXTENDS Integers, Sequences, FiniteSets, SequencesExt

CONSTANTS
  Gecko, Paprika, \* the providers, which are aggregators of prices as well
  Ticker,         \* the ticker of each asset, a function
  Limit,          \* universeSize: how many rows are taken of Paprika
  Null,           \* a field that a provider does not report
  Failed,         \* the listing of a provider that errs or times out
  Worlds          \* what lies outside one rebalance, see world

ASSUME UniverseAssumption ==
  /\ Gecko # Paprika
  /\ Limit \in Nat \ {0}
  /\ Null \notin Int

VARIABLES
  world,          \* listing: the rows each provider lists, or Failed;
                  \* quoted: what each price source has a price for;
                  \* disputed: the tickers its sources disagree on
  universe        \* the merged rows

Provider == {Gecko, Paprika}
Asset == DOMAIN Ticker

\* What a provider may say of an asset.
Row == [asset : Asset, cap : Int, volume : Nat \cup {Null}, age : Int \cup {Null},
        day : Int \cup {Null}, week : Int \cup {Null}]

ASSUME WorldsAssumption ==
  \A w \in Worlds : \A p \in Provider :
    w.listing[p] = Failed \/ w.listing[p] \in Seq(Row)

\* The sequence itself; TLC evaluates its elements once.
Whole(s) == SubSeq(s, 1, Len(s))

\* Array.sort is stable: the elements of s at the positions I, smallest key first
\* and then in the order they are in.  The k-th has k - 1 before it.
Arrange(s, I, key) ==
  LET before(j, i) == key[j] < key[i] \/ (key[j] = key[i] /\ j < i)
      rank == Whole([i \in DOMAIN s |-> Cardinality({j \in I : before(j, i)})])
  IN Whole([k \in 1..Cardinality(I) |-> s[CHOOSE i \in I : rank[i] = k - 1]])

\* Array.filter.
Keep(s, I) == Arrange(s, I, [i \in DOMAIN s |-> 0])

\* The input: what the providers and the price sources will say.
UniverseInit ==
  /\ world \in Worlds
  /\ universe = <<>>

-----------------------------------------------------------------------------
(* The adapters. *)

\* Mutant: an off-by-one.
PrefixAndNext(s, n) == SubSeq(s, 1, IF n < Len(s) THEN n + 1 ELSE Len(s))
\* slice(0, n)
Prefix(s, n) == SubSeq(s, 1, IF n < Len(s) THEN n ELSE Len(s))

\* Mutant: rows stay in the order they came in.
Unsorted(rows) == rows
\* Largest capitalisation first.
Descending(rows) == Arrange(rows, DOMAIN rows, [i \in DOMAIN rows |-> -rows[i].cap])

\* Rows that have a capitalisation; a missing volume is none.
Usable(rows) ==
  LET listed == Keep(rows, {i \in DOMAIN rows : rows[i].cap > 0})
  IN Whole([i \in DOMAIN listed |-> [listed[i] EXCEPT !.volume = IF @ = Null THEN 0 ELSE @]])

\* CoinGecko has no listing dates.  Its pages are fetched one after another, so
\* an asset that loses rank in between is listed twice.
FetchGecko(rows) ==
  LET listed == Usable(rows) IN [i \in DOMAIN listed |-> [listed[i] EXCEPT !.age = Null]]

\* CoinPaprika lists everything, in any order.
FetchPaprika(rows) == Prefix(Descending(Usable(rows)), Limit)

Fetch(p) == IF p = Gecko THEN FetchGecko(world.listing[p]) ELSE FetchPaprika(world.listing[p])

-----------------------------------------------------------------------------
(* The merge. *)

\* A provider that failed claims nothing and fails nothing.
ClaimsOf(p) ==
  IF world.listing[p] = Failed
    THEN <<>>
    ELSE LET rows == Fetch(p) IN [i \in DOMAIN rows |-> [by |-> p, row |-> rows[i]]]

Claims == ClaimsOf(Gecko) \o ClaimsOf(Paprika)

TickerOf(claim) == Ticker[claim.row.asset]
About(t) ==
  LET claims == Claims IN Keep(claims, {i \in DOMAIN claims : TickerOf(claims[i]) = t})

\* The tickers in the order a Map keeps them.
FirstSeen ==
  LET claims == Claims
      tickers == Whole([i \in DOMAIN claims |-> TickerOf(claims[i])])
  IN Keep(tickers, {i \in DOMAIN tickers : \A j \in 1..(i - 1) : tickers[j] # tickers[i]})

\* Twice the median.
DoubledMedian(values) ==
  LET s == Arrange(values, DOMAIN values, values)
      n == Len(s)
  IN s[(n + 1) \div 2] + s[(n + 2) \div 2]

Reported(values) == Keep(values, {i \in DOMAIN values : values[i] # Null})

\* pickChange: the median of those that report the window.
PickChange(values) ==
  IF Reported(values) = <<>> THEN Null ELSE DoubledMedian(Reported(values))

\* Mutant: the age the first provider gives.
FirstAge(values) == values[1]
\* The oldest claim: a provider that began tracking late errs in one direction.
Oldest(values) ==
  IF Reported(values) = <<>> THEN Null ELSE Max(ToSet(Reported(values)))

\* Object.fromEntries keeps the last of several rows of one provider.
ProviderIds(claims) ==
  [p \in {c.by : c \in ToSet(claims)} |->
     claims[Max({i \in DOMAIN claims : claims[i].by = p})].row.asset]

\* The row of a ticker: named after its first claim, the rest of all of them.
Merge(t) ==
  LET claims == About(t)
      all(field) == Whole([i \in DOMAIN claims |-> claims[i].row[field]])
  IN [ticker |-> t,
      name   |-> claims[1].row.asset,
      cap    |-> DoubledMedian(all("cap")),
      volume |-> DoubledMedian(all("volume")),
      age    |-> Oldest(all("age")),
      day    |-> PickChange(all("day")),
      week   |-> PickChange(all("week")),
      sources |-> [i \in DOMAIN claims |-> claims[i].by],
      ids    |-> ProviderIds(claims)]

\* One row for each ticker, largest first.
Candidates ==
  LET seen == FirstSeen IN Descending(Whole([i \in DOMAIN seen |-> Merge(seen[i])]))

\* collectFundamentals, once every provider has answered or failed.
Collect ==
  /\ universe' = Candidates
  /\ UNCHANGED world

=============================================================================
