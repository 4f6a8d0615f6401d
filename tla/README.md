# IndexFeed: TLA+ models and proofs

IndexFeed publishes a crypto index on Stellar. An aggregator computes the index
level and weights, publishes them as numbered *epochs* to a Soroban contract, and
keeps on disk the basket and divisor that make the next epoch continue this one. A
paid HTTP API serves what the contract holds. This directory models the parts
where an order of events, a failure or a boundary value could make the index wrong,
checks the models with TLC and proves the central results with TLAPS.

`PROJECT.json` relates every definition to the lines it models, every property to a
mutation of the code that it catches, and every hazard to the properties aimed at it.

## Inventory

| Part | Source | State | Operations | What makes it correct |
|---|---|---|---|---|
| Oracle contract | `contracts/contracts/oracle/src/lib.rs` | admin, publisher, head, one write-once entry per epoch | `initialize`, `publish`, `set_publisher`, reads | the entries are exactly epochs 0..head, each valid, never rewritten, timestamps in order |
| Rebalance command | `packages/aggregator/src/cli.js`, `rebalance.js` | the process: flags, key, loaded state | gate, load, compute, head check, publish, save, audit | an epoch continues the state behind the one before it; nothing is saved that was not published |
| Publisher | `publisher.js` | a submitted transaction | simulate, send, poll until a deadline | a late transaction does no harm |
| State store | `state.js` | `state.json`, `state.json.tmp`, audit files | `load`, `save`, `saveAudit` | follows the chain, never goes back |
| Rebalance workflow | `.github/workflows/rebalance.yml` | the concurrency group, a checkout per job, the branch | trigger, start, commit and push, artifact | one job at a time, the cadence is kept, the state comes back to the branch |
| Price reconciliation | `prices.js`, `sources.js` | none | `collectQuotes`, `reconcile` | one venue cannot make the price |
| Screening and weighting | `weighting.js`, `rebalance.js` | none | `screen`, `weight`, `toBasisPoints` | no name is let in on missing data or lost without a reason; the cap holds, weights are otherwise proportional, basis points add up |
| Index level | `index-math.js` | none | divisor, stale carry, scaling | a change of composition does not move the level |
| Fundamentals, classification, symbols | `fundamentals.js`, `classify.js`, `symbols.js` | none | fetch, merge by ticker, classify, resolve ids | a merged row judges a name as its providers do; it is about one asset |
| API read layer | `packages/api/src/oracle.js`, `server.js` | cache | latest, value, epoch | bounded staleness, no wrong or premature answer |
| Payment, client, setup script, configuration | `packages/api/src/server.js`, `packages/client`, `scripts`, `config.js`, `env.js` | none of their own | | I/O and third-party code |

How they interact: the command calls the contract through the publisher (reads, then
one transaction that may land late or never); runs share a state directory on a host,
or the branch of the repository through jobs' checkouts; the API only reads the
contract; inside one run the rows of the fundamentals providers are merged, screened and
priced, and the names that are left are weighed and valued.

What is hard: several runs interleave at every `await` and share files, the chain and
the branch; a run may be killed anywhere while its transaction lives on; the gate, the
head check and the simulation are all read before they are relied upon; API requests
overtake one another between cache lookup and cache write; the arithmetic of caps,
rounding and trimming has boundaries that examples rarely hit. The list with lines is
under "hazards" in `PROJECT.json`.

## Modules

`Oracle` is the contract, and the base of the two modules whose actors call it.

| Module | Models | Checked by | Proved in |
|---|---|---|---|
| `FeedLog` | the abstract promise to readers: an append-only log of valid, time-ordered updates | (as `ImplementsFeedLog`) | `OracleProofs` |
| `Oracle` | the contract | `MCOracle` | `OracleProofs` |
| `Publishing` (extends `Oracle`) | rebalance runs, their files, the workflow, the network and the operator | `MCPublishing` | `PublishingProofs` |
| `ApiCache` (extends `Oracle`) | API requests over the cache while the chain moves on | `MCApiCache` | `ApiCacheProofs` |
| `Universe` | the fundamentals adapters and the merge of their rows by ticker | `MCSelection` | `SelectionProofs` |
| `Weighting` | the capping loop and the rounding to basis points | `MCSelection` | `WeightingProofs` |
| `Selection` (extends `Universe`, `Weighting`) | from providers to weights: collect, screen, price, weigh | `MCSelection` | `SelectionProofs` |
| `Prices` | answers of venues and the consensus price of one asset | `MCPrices` | `PricesProofs` |
| `ChainedIndex` | the abstract meaning of the level: it multiplies by the weighted mean of price relatives | (as `ImplementsChainedIndex`) | `IndexLevelProofs` |
| `IndexLevel` | the level from epoch to epoch: units, divisor, carry of last prices, scaling | `MCIndexLevel` | `IndexLevelProofs` |
| `Fractions` | exact fractions | (by `IndexLevel`) | `IndexLevelProofs` |

### Oracle

A contract call is a transaction, so a rejected call changes nothing and only accepted
calls are actions. `CanPublish` collects every early return and trap of `publish`, among
them the overflow checks: the sum uses `checked_add`, and `h + 1` traps at the last u32
because `contracts/Cargo.toml` compiles with `overflow-checks`. An absent key is
`NoHead`, `NoAddress` or `NoUpdate`. `Feed` maps the storage to the log of `FeedLog`.

### Publishing

`pc[r]` is the next step of run `r`; the steps are the awaits of `cmdRebalance`:

    gate -> load -> check -> simulate -> send -> poll -> save -> rename -> audit [-> push]

A run belongs to the workflow (`Job`, a private checkout), to a host (`Local`, all in one
directory) or uses fixtures (`Fixture`, the fixtures directory). What a run computes is
the token `Computed(r)`: its epoch, itself, and the run whose state it continues. That is
exactly what continuity asks about; how the level follows from a state is arithmetic and
another module's matter. `origin` is a history variable that names the computation behind
each published epoch. `tx[r]` outlives the run: `Land` and `Lapse` need no living process.
`GiveUp` covers the deadline of the polling loop, whatever has become of the transaction.
`Abort` may strike a run before any step. The operator restores artifacts, rotates keys,
and pulls and pushes the host's clone, which git allows only forwards.

Simplifications: one clock is used for the host and the ledger; the reads `head` and
`latest` of the gate are one action; account sequence numbers are left out, which allows
more than the network does; `status`, the test step and the artifact upload change
nothing that is modelled. The reads of the gate, the head check and the simulation see the
ledger as it is when they are made: an RPC node that lags behind the network is not
modelled, and with one `JobsKeepCadence` could fail.

### ApiCache

A request arrives (a hit is served, a miss goes to the RPC), reads the ledger, and
delivers: two points at which others run in between, as in `await fn()` followed by
`cache.set`. Errors of the contract are told from failures of the RPC as in `server.js`.
`value` is `latest` with fields left out; `head` has no route. As in `Publishing` the RPC
is never behind the ledger when it reads; a node that lags would add its lag to the bound
of `LatestIsRecent`.

### Universe, Selection, Weighting

`Selection` is `runRebalance` up to the weights, one action per await: `FetchUniverse`
(`collectFundamentals`, a barrier over all providers), `Screen`, `Price` or `PriceNone`,
then the steps of `Weighting`. The input is `world`, what the outside says during one
rebalance: the rows each provider lists or that it failed, what each price source has a
price for, and on which tickers the sources disagree. `excluded` and `rejected` are what the
audit record says of names that are left out: `screen`'s exclusions, and of `reconcileAll`'s
rejections those of selected names.

`Universe` translates `fundamentals.js`: `Merge` keeps the first row's name, medians, the
oldest age, and per provider the last row's id. A ticker is shared by assets through the
function `Ticker`; merged rows hold medians doubled, so nothing is rounded. Every filter and sort is
`Arrange`: the elements at some positions by a key and then by place, as JavaScript's sort
is stable. Whether an
asset's name matches a pattern of `classify.js` is membership in `DerivativeName`.
`Verdicts` is the list of rules in the code's order, and a row's first failing rule is its
reason. `Quotes` says which names each of the four price adapters has a price for: an
exchange goes by ticker, an aggregator by the id it gave itself, so one whose fundamentals
failed cannot be asked. The merged `priceUsd` is left out: no decision reads it.

In `Weighting` a name that is not capped always holds its proportional share of what the
capped names leave, so the set of capped names is the state of the loop and weights are
exact fractions. The rounding of floating point and the 1e-12 that absorbs it are left
out. `Begin` is what it expects of its input; `Selection` implements `WeightSpec`.

### Prices

Venues answer or fail in any order. Prices are whole numbers and medians are kept
doubled, so no rounding is introduced. At most one venue quotes what it likes. Asset
by asset `reconcileAll` is independent, so one asset is modelled.

### IndexLevel

`price` is the market, a price or `NoPrice` per name; `epoch`, `basket` (units and last
price per name) and `divisor` are the state the aggregator saves; `value` is what it
published. `Rebalance` is `runRebalance` from the previous level to the scaled value,
with the save that follows: the level is found from the held basket, a name without a
price carried at its `lastPrice`; the new basket holds any weights over any names that
have a price (which weights is `Weighting`'s matter, which names are priced `Prices`');
the divisor is solved so that the new basket starts at that level. A level that rounds to
0 is refused by the contract. Numbers are exact: the notional is divisible by every price
times `Parts`, so units are whole, and levels and divisors are reduced fractions; the
rounding of floating point is left out. The refinement maps the saved cap over the
divisor to the `level` of `ChainedIndex`, the basket to its `shares` and `marks`.

## Runs

| Run | Instance | Shows |
|---|---|---|
| `oracle` | two accounts, u32 of two bits, five baskets including one whose sum would wrap to the total | the feed is a valid, ordered prefix, write-once, and implements `FeedLog`; weights add up over the integers, not modulo 2^w |
| `publishing` | one job and two runs on a host, three epochs, two keys rotated at any time, cadence of one tick | continuity, files that follow the chain, no shared save, no state that goes back, cadence of jobs; a run whose key is rotated out under it leaves nothing to build on |
| `workflow` | two queued jobs and a fixture run, two epochs, fairness | no directory has states of fixtures and of live data, no feed has epochs of both; every run ends |
| `api_cache` | two requests, two epochs, TTL of two ticks, latency of one | staleness below TTL plus latency; absence is never remembered; epoch entries are true |
| `selection` | real thresholds; all baskets of up to eight names with six sizes from 1 to 60; ten names for a target of eight; beside four clean names, a doubtful ticker with every combination of boundary sizes, ages and changes, of failing providers and sources, and of assets that share it | missing data admits nothing, merging wrongs no name, every listed row that is not weighed is accounted for, and the weights are the unique water-filling of the cap, each rounded to the nearest basis point but the first, which takes the residual |
| `index_level` | three names, prices 1 to 3, two parts, three epochs, base level 2, scale 1 | the level moves between the extremes of its names whatever is traded, and implements the chained index |
| `prices` | three honest venues, one arbitrary, real thresholds | how far one venue can take the price, and that none makes it alone |

Bounds. Three runs are enough for the shapes of interference: a writer, a rival in the
same directory and one elsewhere; three epochs give every epoch a predecessor with a
predecessor; the real u32 and any number of runs are covered by the proofs. Time is
bounded by `MaxTime`, one cadence in `publishing`: at the first tick a job may follow an
epoch of time 0, and none may follow one of that tick. Eight names of which up to three are
capped make the cap cascade over several passes; the bound of the loop is the number of
names. Four clean names satisfy the cap exactly, so one that is not priced makes the
difference between an epoch and a refusal. Two providers with two rows each are the least
in which medians, ages and ids of one ticker can come from different assets; sizes, ages
and changes lie on both sides of each threshold and so do their medians. Three epochs of `index_level` are an inception and two successions, the second of a
basket that was itself solved for; with a scale of 1 the level can fall to where the
scaled value vanishes. Ten forged prices reach both sides of the band of every reference that honest
prices can form. Symmetry is used where only safety is checked: among jobs, local runs,
keys, requests and symbols.

`CHECK_DEADLOCK FALSE` is set for `selection` and `prices`, which are computations that
end.

Five further runs show statements of the documents, comments or tests that do not hold of
the code (see "findings"): `cadence` (two unforced local runs break the cadence),
`outage` (a request that finds an expired entry fails with the refresh, although the entry
is still there), `cap_bps` (the rounding
residual exceeds the cap), `ticker` (a name is priced by the id of a wrapped asset that
shares its ticker) and `one_source` (one venue moves the price by more than the band).

Further observations have no run. `fixtures.js:5-7` says that fixture data never feeds a
real publish, but `cmdRebalance` does not stop a fixture run that was not asked to be dry,
so on an empty contract its epoch 0 would be published. What `config.js:42-47` promises
does hold: the two kinds never continue one another, so such a feed stays one of fixtures
and live runs are refused (`FixturesStayApart`, in the run `workflow`). The other
runs have no fixture runs; the theorems have any number of them.

`README.md:92-95` of the repository offers `workflow_dispatch` for publishing early; it
runs the workflow early, but `rebalance.yml:82-84` has the command decline when the cadence
is not due, which is what `JobsKeepCadence` says and `ModesOf` assumes. And
`methodology.md:156-157` speaks of an adjustment by one basis point, as does the comment at
`weighting.js:130`; with n names the residual may be as much as n / 2 basis points, and
residuals of two occur in the run `selection`. `BpsAreFaithful` states the bound that holds.

`cli.js:121-122` says that a failed publish leaves the next run recomputing the same epoch;
a publish that was reported as failed when its polling ended may have landed, and then the
next run is refused as out of sync. `methodology.md:36-37` says that a provider that errors
does not fail the rebalance; but only CoinPaprika reports listing dates, so when it fails
every age is unknown and screening leaves no name (`AdmittedOnEvidence` says why it must).
`sources.js:13-16` calls for an exchange beside an aggregator, which nothing enforces: two
aggregators suffice for a price. And opposite moves of similar size reported by two
providers cancel in the median and make a moving name a stablecoin, for which reason
`Blameless` asks for a common direction.

Reading the results together: the index stays continuous in every interleaving because
the chain's succession check serialises all runs; the cadence is kept by workflow jobs,
whose checkout is fixed before the gate is read, but not by runs that share a directory;
a lost state blocks publication and never corrupts it.

## Fairness

Only `FairSpec` (run `workflow`) and `SelectionSpec` assume any. A run's own steps are
weakly fair: a process that can go on does, its polling loop has a deadline of 60 seconds,
and other awaits return or throw. Starting a waiting job is weakly fair: the platform
starts it when the group is free. Nothing is assumed of the network, of triggers, of the
clock or of the operator; `RunsEnd` does not need transactions to land. `weight` and
`toBasisPoints` are synchronous code, so `SelectionSpec` assumes that the steps of
`Weighting` go on; of the fetching before them it assumes nothing.

## Proofs

`OracleProofs` proves for every u32 width, payload and set of accounts that the contract
keeps the conjunction of its type invariant, `PublishedIsPrefix`, `PublishedIsValid` and
`PublishedInOrder` (`FeedIsSound`; the conjunction is inductive), that history is
write-once (`FeedIsWriteOnce`), and that the contract implements `FeedLog`
(`OracleImplementsFeedLog`: an accepted `publish` appends one entry, all else stutters).
`ContractTypes`, `FeedIsValid` and `FeedIsOrdered` state the conjuncts one by one.

`PublishingProofs` proves for every number of jobs, local and fixture runs and keys:
`RunsAreContinuous`, `StoresFollowTheChain`, `SavesDoNotCollide`, `JobsAreOnTime`,
`PublishingTypes`. None of these invariants is inductive alone. The inductive invariant `IInv` adds:

- `OriginMatches`, `StoresPublished`: whatever is on disk, half saved, audited or loaded
  by a run is the computation behind a published epoch. So a transaction that passes the
  succession check continues exactly the epoch before it: continuity (`LandInv`).
- `TxMatches`: a run in save, rename or audit has seen its own transaction applied.
- `BasisIsSaved`: every epoch before the head, and every state that can be built upon,
  belongs to a run past its save. So two runs inside save would both be behind the head,
  hence be one run (`OneSaver`): the temporary file is not shared.
- `GateHolds`: as long as the epoch a job builds on is the head, it was due when the gate
  looked, and remains due.

`FixturesNeverMix` proves `FixturesStayApart`. The invariant `Apart` says besides that what
a run has loaded is of its own kind; a transaction lands only on the epoch its run has
loaded, so the feed's next epoch is of the kind of the one before.

The last part builds on `IInv` and proves for the same constants that no directory's
state goes back to an earlier epoch (`StateOnlyAdvances`) and that success lasts
(`SuccessLasts`). The conjunction `Kept` adds where a job's state lives until the branch
has it:

- `UndeliveredIsUnseen`: before a job has pushed, or its artifact is restored, no
  directory but its own and no other run has its state. So nobody has built on it, the
  chain is not past it (by `Continuity`), and delivering it late overwrites no later epoch
  (`RepoIsNotPast`).
- `CheckoutHolds`, `SaveHolds`: between save and push the checkout holds the job's state
  and record, and any run's directory is as far as what it saved.
- `OriginIsComputed`: the computation behind an epoch is still what its run computes.
- Records are never lost, since two published records of one epoch are equal
  (`RecordedKeeps`).

`ApiCacheProofs` proves for every number of requests, TTL and latency: `ApiTypes`,
`EpochEntriesNeverLie`, `StalenessIsBounded` and `AbsenceIsNeverRemembered`. The chain
under the API takes steps of `Oracle` only, so `OracleInv` and the growth of the feed
(`ChainGrows`) are reused. The inductive invariant adds what lies between a lookup and a
write: a request waits no longer than a call may take (`Waiting`), what it read was true
after it arrived (`ReadIsTrue`, `AbsenceIsTrue`), and the latest entry was the head one
call before it was written, or later (`LatestEntryIsTrue`).

`WeightingProofs` proves for every basket, target size and cap all four properties of
`Weighting`. The loop of `weight` ends of itself (`LoopEndsOfItself`): it falls out of its
bound of one pass per name without complaint, and `WeightInv` counts at least one capped
name per pass, so at the bound every name is capped and none is over the cap. What the
weights are rests on `Waterfill`: while the loop runs, some name is free, what the capped names
leave to the free ones is positive, and every capped name would still be at or over the
cap at the present scale. A pass keeps it because the
names it caps hold more than the cap of the total, so the scale of the others only grows
(`PassArithmetic`, `ScaleGrows`). From it follow `CappedLeaveTheRest`, `CappingIsNeeded`
and `BpsFollowWeights`. For the last, the name that takes the residual is the first
(`LargestIsFirst`: weights fall with capitalisation and rounding keeps their order), the
others are their weights to the nearest basis point, so the first is off by half a basis
point for each of them at most (`FirstTakesTheRest`), which it can give up
(`ResidualFits`).

`SelectionProofs` proves for any listings, quotes, denylists, thresholds, target size and
cap all that its run checks but liveness. `SelectionInv` says that what each step of
`runRebalance` leaves behind is a function of the world, so the rest is about functions:

- Filters and sorts. `Arrange` names the position each element of a sorted or filtered
  sequence comes from: how many come before a position is a number of its own
  (`RanksGrow`), so the ranks are a permutation (`Arranged`). Nothing is lost or made up.
- Medians. Each is half the sum of two of its values (`MedianOfTwo`), hence what a merged
  row passes some claim passes: `AdmissionIsEvidenced`. The turnover is a ratio of two
  medians over different claims; that one which every claim reaches is reached by the
  merged row takes counting (`MedianScales`, `MergedTurnover`), and with it
  `BlamelessAreSelected`.
- Nothing gets lost. A listed row is handed on by its adapter or dropped for its size
  (`AdaptersAccount`); rows and tickers are one to one through every filter, sort and cut
  (`CandidatesAre`), so screening (`ScreeningAccounts`) and pricing (`PricingAccounts`) each
  keep a ticker or record one reason. Together: `AbsenceIsExplained`.
- Pricing hands `Weighting` a basket it may begin with, largest first and within the
  target size, and no other step touches its variables: `SelectionIsWeighed`. So what
  `WeightingProofs` proves holds of the index (`SelectionKeepsWeights`).

`PricesProofs` proves for every set of venues, band and number of sources the three
properties of `reconcile` (`LiarIsOutvoted`, `NoPriceOfOneVenue`, `AgreementPrices`) and
its types. A median is characterised by counting: at least half of the quotes lie at or
below it and at least half at or above. `PricesInv` adds to the types that a price, once
reported, is the consensus of the answers that came in.

`OracleProofs` also proves `FeedAddsUp`: the chain of `checked_add` yields the sum over
the integers or fails, for every width of the counters and every basket.

`IndexLevelProofs` proves for every set of names, prices, weights, notional, base level
and scale the two properties of `IndexLevel`, its types, and the refinement of
`ChainedIndex` (`LevelIsChainedIndex`). Its first part shows that fractions in lowest
terms may be reasoned about by cross-multiplication: `gcd`, defined by Euclid's recursion,
is the greatest common divisor (`GcdIsGreatest`), so `Frac` stands for the ratio of its
arguments (`FracIs`) and two reduced fractions of one ratio are equal (`SameRatio`). Then
the level before an epoch is `SavedCap` over the divisor and the level after it
`PreviousCap` over the same divisor (`LevelsAre`): what is bought cancels. The invariant
`ChainInv` says that what is saved is worth the notional, in whole parts, so that the fold
of price relatives is `PreviousCap` over the notional (`MeanIs`) and each epoch multiplies
the level by it (`LevelIsChained`).

`FoldProofs` holds what these need of sums and folds: the fold of a function, whichever
way it picks the elements, is a sum that can be split, compared and scaled. The induction
theorems of the library take an operator as a parameter, which the provers cannot
instantiate, so inductions over numbers and finite sets are made by a least
counterexample in a set that is named in the proof (`Least`, `SubsetInduction`).

The assumptions are those named in the modules (`OracleAssumption`,
`PublishingAssumption`, `ApiAssumption`, `WeightingAssumption`, `PricesAssumption`,
`IndexLevelAssumption`, `UniverseAssumption`, `WorldsAssumption`,
`SelectionAssumption`): disjoint kinds of runs, distinct directories, a well-formed
payload, a TTL and a latency that are numbers, finitely many venues and names, positive
prices and notional, a notional that buys whole units; rows whose fields are numbers or
missing, volumes that are not negative, thresholds that are numbers. `WeightingAssumption` asks that
the target size n and the total satisfy n(n - 1) <= 2 * total, which bounds what
rounding can add by what the largest name holds; `methodology.js` has 20 and 10000.
`NoPriceOfOneVenue` assumes at least two sources, which `methodology.js:65` asks for.
The inductive invariants of runs, read layer, reconciliation and level were checked with
TLC on the instances of their runs, that of selection on a part of its worlds.

Only model-checked are the liveness properties `RunsEnd` and `EpochIfEnough`: what
happens under fairness is beyond the proof system's reach.

## Not modelled

Soroban's storage lifetimes, the XDR encoding, payment by x402, the HTTP requests
of the adapters, the client and the setup script are I/O or code outside the repository. Which names match a
pattern and how an exchange spells a pair are text matching, and the methodology hash is a
function of constant data.

## Plan

In order of what matters to the index:

1. Done: `Oracle`, `FeedLog`, `Publishing`, `ApiCache`, `Universe`, `Selection`,
   `Weighting`, `Prices`, `IndexLevel`, `ChainedIndex`; theorems of the contract, the runs
   and their files, the read layer and the capping loop.
2. Two rebalances in a row over changing worlds: names that leave the universe lose the
   ids by which aggregators priced them, which `IndexLevel` covers by its missing prices.
3. Done: proofs about algorithms: the capping and rounding of weights, the
   reconciliation of prices, the sum of the contract, the merge and the screening of
   `Selection`, and that `ChainedIndex` and `Weighting` are implemented.
4. The payment boundary of the API, as far as the configuration in this repository
   determines it.
