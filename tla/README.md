# solana-arb-scout: TLA+ models, checks and proofs

Scout is a read-only observer of Solana. One run listens to four venues, finds
pairs of pools that trade the same two mints, quotes the two-leg circular routes
between them, records what it saw (Rung 12), and then searches the ledger for
somebody else having traded one of those routes atomically (Rung 13). It signs
and sends nothing. The value of a run is its evidence, so the properties here
ask one question in several places: *can the program state something that what
it read does not support?*

## 1. Inventory

| Part | Source (crates/scout-cli/src) | State | Operations | What makes it correct |
|---|---|---|---|---|
| Subscription lifecycle | `ws_transport.rs` 12-183 | generation, stage flags, dirty watermark, authoritative slot | mark_requested, mark_confirmed, mark_dirty, mark_authoritative_refresh, mark_ready, reconnect | ready means confirmed and caught up; dropped connections are not heard |
| WebSocket loop | `ws_transport.rs` 185-260 | none between calls | wait for confirmation, next message with or without timeout | a lost message ends the wait |
| Pool observation | `main.rs` 406-562, `orca_runtime.rs`, `meteora_runtime.rs`, `raydium.rs`, `pumpswap.rs`, `orca.rs`, `meteora.rs` | per venue: list of states, map of contexts; Orca and Meteora: map of entries | notification, accounts in one or two calls, readiness | what is held was all of it the pool of one slot |
| RPC transport | `rpc_transport.rs`, `local_rpc.rs` | retry count | post with retry on 429 | bounded retries |
| Route discovery | `main.rs` 564-1239, `discovery.rs` | the same lists and maps | three stages that look for a missing counterpart, then merge it | nothing newer is lost, no route is lost |
| Registry and routes | `registry.rs`, `route.rs`, `runtime_quote.rs`, `quote.rs` 184-230 | latest state and readiness of each pool | upsert, eligible pools, two-leg routes | newest state wins; a quoted pool is fresh |
| Quotes | `quote.rs`, `raydium.rs`, `pumpswap.rs` | none | exact-input quotes of a leg and of a route | a quote never promises more than the pool gives |
| Sizing, costs, economics | `sizing.rs`, `costs.rs`, `economics.rs` | none | dollars to input, fees to a cost, cost to expected net | every rounding errs against the route |
| Meteora swap | `meteora_m8.rs` to `meteora_m12.rs`, `meteora_contention.rs` | hydration plan, walk through bins | plan, traverse, expand, plan accounts, compile a message | no array is skipped, a message says what was planned |
| R12 recorder | `recorder.rs` | append-only JSONL file, candidate lifecycles, counts | start, record, finish, replay validation | a completed file replays to what was recorded |
| R13 search | `main.rs` 1484-1565, 2025-2188, `forensics_rpc.rs`, `forensics.rs` | tip, histories, transactions, verdicts | wait for maturity, page histories, intersect, fetch, match | no verdict that the ledger contradicts |
| R13 artifact | `forensics.rs` 1384-2087 | append-only JSONL file | write, validate | an artifact that validates answers for every candidate |
| Temporal Stage F | `temporal.rs`, `bin/stage-f-temporal.rs` | one document over several R12 files | aggregate, write in place, validate | exactly three distinct completed runs, each record counted once |

**How they interact.** `main` (155-376) is one task that runs the parts one after
the other; there are no locks and no shared memory. What is concurrent is the
world: four subscriptions share one socket, and every RPC may be answered by
another node, behind or ahead of the socket and of the nodes that answered
before. Data crosses stages as lists and maps that were filled at different
times, and the registry is rebuilt from them twice. The R12 file is the only
thing that crosses from quoting to Rung 13, and the only thing a later process
(Stage F) sees of a run, which it also sees if the run failed.

**What is hard here.** Answers of different ages combined (pool, vaults, arrays,
context, tip, page); late deliveries of a dropped connection; a wait that starts
again with every message; the page, transaction, record and observation bounds;
slots cut in two by a page; one of several requests failing; an undecidable
transaction read as an absent one; a process killed inside of a line; roundings
that add up in the wrong direction. `PROJECT.json` lists these hazards at their
lines with the properties that would catch them.

## 2. Modules

| Module | What it is |
|---|---|
| `SubscriptionLifecycle` | the state machine of `ws_transport.rs`, called by every connection that ever existed |
| `PoolView` | abstract specification of observation: what is held was the pool, all of it at one slot |
| `PoolReadings` | what a pool is at a slot, defined from the chain alone (no behaviour) |
| `PoolAccounts`, `RaydiumPool`, `PumpSwapPool`, `OrcaPool`, `MeteoraPool` | the accounts a venue reads and what it accepts of them |
| `PoolHydration` | how a pool of any venue becomes known: the observation loops, the wait, the calls and their retries |
| `LiveAdmission` | from notifications to quoted routes: several pools, the three discovery stages, both registries |
| `RaydiumQuote`, `PumpSwapQuote`, `TwoLegQuote` | quotes of a leg and of a route |
| `RouteEconomics` | sizing, costs, expected net |
| `RouteMarket` | the quotes put to work: pools traded in exactly as quoted, routes sized, quoted, executed and priced |
| `DlmmArrays`, `DlmmBins`, `DlmmAccounts` | Meteora: which bin arrays there are, what a bin gives, which accounts a swap names |
| `DlmmSwap` | a Meteora swap from its hydration plan to the compiled message, the pool moving under it |
| `ShadowJournal` | the R12 file of one run: the loops of `main` that fill it, the recorder, and its three readers |
| `ForensicsPlan` | the routes, their windows and the ledger they are searched in (no behaviour) |
| `ForensicsOracle` | abstract specification of Rung 13: one look at the ledger, then a truthful verdict |
| `R13Search` | Rung 13 as the code does it, request by request |
| `SearchArtifact`, `TemporalEvidence` | what R13 and Stage F write and what they accept (no behaviour) |
| `EvidenceFiles` | both programs over a set of R12 journals, killed at any point |
| `Orderings`, `PowersOfTen` | sorting, filtering and adding up as functions on positions; powers of ten as a function on exponents |
| `IntegerFacts` | lemmas about products, quotients, least elements, induction and recursion on numbers, cardinalities, and what `Orderings` and `PowersOfTen` define |
| `*_proofs` | the theorems about the module of that name; `R13Search_proofs` also those about `EvidenceFiles` |
| `MC*` | instances for TLC |

How they fit together: `PoolHydration` says of one pool what `LiveAdmission` takes
as given for many, that an entry is the pool of one slot; `LiveAdmission` says
which contexts `RouteMarket` may quote from; `ShadowJournal` writes the journals
that `EvidenceFiles` reads; `R13Search` finds the analyses that `SearchArtifact`
writes. Two refinements are checked. `R13Search` implements `ForensicsOracle`
(`ImplementsOracle == Oracle!Spec`; the mapping is the identity on `ledger`,
`verdict` and `outcome`). `PoolHydration` implements `PoolView`
(`INSTANCE PoolView WITH Reading <- Reader!ReadingOf, view <- Held`): the entry in
a map is mapped to the slot, the claimed slot and the pool it speaks of.

### SubscriptionLifecycle

`sub` is the Rust struct, field by field. Each method is an action whose guard is
the conjunction of its early returns; a method that returns an error changes
nothing and so is no step. `mark_authoritative_refresh` answers `RefreshAgain`
when the read is behind the watermark, but records the read all the same, and
so does the action. Nothing outside the tests calls the type, so any connection
may call any method in any order with the generation it was given. `connections`,
`notified` and `authorised` are history variables that remember who delivered
what; no guard reads the last two.

### PoolAccounts, the four venues, PoolHydration

A *world* is the chain at one slot: a function from account keys to accounts, and
`chain` is a world for every slot so far. An account's `layout` stands for its
length and discriminator; what may be refused is a set of at most one element, so
`Err`, `None` and `{}` are one thing. Each venue's module has the keys it asks for
and the checks its hydration makes, in the code's order of accounts: `RaydiumPool`
(two vaults, fees that are no reserves, open time against the machine's clock),
`PumpSwapPool` (virtual quote reserves, disable flags, fee tiers in order),
`OrcaPool` (five tick arrays, dynamic ones with their bitmap, transfer fees by the
epoch of the clock account), `MeteoraPool` (the base call, `CertifiedArrays` derived
from it, the second call that must find the same pool again).

`PoolHydration` is the loop around them for one pool of one venue. `Listen`, `Ping`,
`TimeOut`, `StreamFails`, `Junk` and `Notify` are the ways a wait can go;
`RateLimited`, `CallFails`, `BaseAnswered` and `Answered` those of a call; `LookUp` is
`prepare_exact_pair` and its like in `main.rs`, after the loop: Meteora's ends the run
if it fails, Raydium's in Stage B too, the others go on (`AfterLookup`). `patience` is the timer
of the wait under way, restarted by every control frame (`Ping`), and `window` is
Meteora's one deadline for all messages, which the other venues do not have. A
notification may be of any slot, and so may each call's answer: `minContextSlot` is
a request parameter that nobody enforces here, what protects the code is that it
compares slots itself, and Meteora's second call is compared with the trigger's
slot, not with the first call's. What is held is nonetheless of one slot, because
the second call reads the pool and everything else again and is used alone, if the
arrays it must have are those the first call led to (`PlanStillFits`). `generation` is
`next_generation_id`; a lookup has a counter of its own that starts at 1.

`PoolReadings` defines what should come out without looking at how it is read: the
accounts that the pool names, wherever they are, at one slot. It and `PoolView` are
references, so they map to no source lines.

### LiveAdmission

`phase` is the program counter of `main`. A slot stands for a whole account: two
reads of a pool at one slot agree on whether it can be traded (`CanRead`).
`ObserveReady` is a notification at slot `trigger`, hydrated at `slot >= trigger`
(the code rejects an older read): the context carries the slot of the read, the
state that of the notification. `Discover` is the same for a pool found by an
account query, followed by both merges. Which candidates an RPC node returns, in
what order, and how many lookups fail is left open. `Fail` stands for every
error that ends the run. `lastRead` and `admitted` are history variables.

### RaydiumQuote, PumpSwapQuote, TwoLegQuote, RouteEconomics, RouteMarket

The first four are pure. A quote that the code refuses is `{}`, so a route quote is a
union over the possible first legs, and several results occur only where the Orca
library (external: the context lists what it may answer) leaves a choice.
`MaxCurveInputForBudget` is PumpSwap's binary search as a recursive function.
`RouteEconomics` keeps the direction of every rounding and every confidence bound.

`RouteMarket` gives them a state. `Trade` is an outsider's swap and `ExecuteRoute` a
route that is sized in dollars, quoted and carried out, both exactly as the quote
says; `Price` puts costs on the last quote. What a swap does to a pool is the
venue's program and not in this repository, so `After` is external: it moves the
reserves that hydration would read by the amounts in the quote. `traded`, `purse` and
`promised` are history variables. The economics of a route never resolve in this
code: submission, failure and reserve costs have no policy, so the expected net is
always Unknown; the model keeps the sum all the same, and the properties are about
its known parts.

### DlmmArrays, DlmmBins, DlmmAccounts, DlmmSwap

`DlmmArrays` has the array of a bin, the two bitmaps and the search for the next
initialized array; `DlmmBins` the fee rates, the volatility and what one bin gives,
layer by layer (makers, processed orders, open orders); `DlmmAccounts` the accounts of
the instruction and the v0 message. `DlmmSwap` runs them: `BeginWalk`, `Search` (one
array) and `FillOneBin` (one turn of the loop) are `meteora_exact_in_traverse`, with its
local variables in `walk` and its termination in `phase`; `Expand` is
`meteora_expand_hydration_plan` on a snapshot of any slot and any generation;
`PlanAccounts` and `Compile` are m11 and m12. `PoolMoves` is the rest of the world.
`BinAt` reads only from the array the walk has entered.

Every checked operation of the walk that an account can make fail is one in `DlmmBins`
too (`Checked`, and a set that is empty): a quotient beyond u64, a fee rate beyond u128,
a volatility beyond u32, a total beyond u64. `FeesFitTheRest` is about how they end a
quote with `ArithmeticOverflow`. It happens for five reasons, all of them in what the
accounts hold: the volatility or the fee rate does not fit (`HasNoFeeRate`; any u8 may be
the power in the base fee); a bin's stored price is 0; a whole layer of the bin costs more
than a u64, which fails the smallest of quotes, as the layer is priced before anything of
it is taken (`CannotBeFilled`); the bins walked through hold more than a u64 together; the
protocol's share is above the whole fee, which nothing checks (`SplitFee` is a checked
subtraction). The property says that the roundings of fees and layers are never a sixth.

The accounts of a swap come from a caller, and what is checked of them is little:
`validate_execution_provided_accounts` does not hold the reserves and the oracle
against the pool's own. The contention footprint derives its accounts from the pool,
so `ContentionIsWhatIsWritten` finds it in the plan only for a caller who brought
those (`OwnProtocolAccounts`). Expansion, m11 and m12 are called by tests only; they are public
operations, modelled as they would be called.

### ForensicsPlan, ForensicsOracle, R13Search

The ledger is a sequence of transactions ordered by slot; a signature is a
position in it. `Answers(tip)` is an RPC answered by a node that knows the ledger
up to slot `tip`. With `FreshNodes` no answer is older than one before it;
without it, nodes lag at will, and a node that does not know the cursor of a page
request has nothing before it. `page` is the loop of `fetch_address_history`.
Signatures are fetched by the union of the windows that ask for an address and
then cut to each route's window (`Retained`, `Observed`). A transaction's kind
says which pools its account list names, its swaps in execution order, and how
the mints of each swap can be proved: legacy Orca swaps say their direction only
through token balances, which may be missing, and then the transaction is
unresolved and never "no match". `faults` is a history variable.

### ShadowJournal

`file` is the sequence of whole lines on disk and `torn` says that part of a line
follows them. The quoting loop of `main` is `RejectRoute`, `RejectQuote` and
`Quote`, with `at` for its two loop variables; `EndQuoting` is the test for a
route quoted at every size; `Price` is one turn of the pricing loop, with any
outcome of the two funding modes. `Seal` and `Replay` are the two halves of
`finish` (`Replay` also stands for the same call `main` makes again), `LoadPlan`
is the first thing Rung 13 does. Every action that records goes through
`WriteEvent`, which keeps the last place for `run_end` and has three outcomes: the
line is written and the run goes on; the line is written and the run ends (killed,
flush error, or an error after it); part of the line is written and the run ends.
`Fail` is a run that ends between two lines, the workflow's `timeout 300s` among
other causes. When `HasRoom` fails, the only step left is `Fail`: that is the
code's error return.

The readers are state functions of `(file, torn)`: `Replays` is
`validate_jsonl_replay`, `Loads` is `load_plan`, `StageFAccepts` the workflow's
`grep` followed by `parse_completed_r12_run`. They overlap but differ: the replay looks
into every line and recounts but wants no `run_start` and no candidate; the other two
want both and look into no line's contents. A line carries what some reader
compares: sequence, event, candidate, status, funding modes, times, lifecycle.
Every reading of the wall clock is a choice of a value not before the last one,
or, with `Monotonic = FALSE`, of any value.

### SearchArtifact, TemporalEvidence, EvidenceFiles

`Script` is everything `write_forensics_artifact` writes for a plan, a maturity and the
analyses, in its order; `Validates` is `validate_r13_jsonl`. `WriteEvent` appends the
next record if `HasRoom`, `Crash` stops between two records or inside of one, `Finish`
reads the file back. The reserved last record is for a `run_end`; after a capacity
error the code writes none, so the file stays without one. `Aggregate` is
`aggregate_r12_runs` over a sequence of paths, `WriteEvidence` the `fs::write` that
replaces the document in place and may leave it cut off. The journals (`Sources`) are
what `ShadowJournal` can leave: ended, cut off, torn; and a copy and a misnamed one,
which its users can.

## 3. Runs

| Run | Question | Bounds |
|---|---|---|
| `subscription` | Can any interleaving of deliveries of old and new connections make the subscription ready too early? | 3 generations, 3 slots, 2 ids |
| `hydration` | Is what is held of a pool always all of it the pool of one slot, and does Meteora's observation end? | 6 to 8 worlds for each of 4 venues, chains of 2 slots, 2 observations, 1 retry, waits of 2 ticks, 1 control frame a wait |
| `admission` | Does every route that is quoted pair the newest admitted state with a context not older than it, and do the first registry's routes survive? | 4 pools, one of each venue, one pair; slots 1..3; two notifications of some venues |
| `admission_stale_merge` | finding: is the newest admitted state of a pool always eligible? | as above, notifications in slot order |
| `admission_untradable` | finding: is a pool whose newest read does not trade ever quoted? | as above |
| `route_market` | Can anybody gain by trading as quoted, and do sizes and costs err against the route? | a Raydium, a PumpSwap and an Orca pool of one pair in 8 variants, reserves of 25 to 50, fees in twentieths, 3 trades, amounts 1 and 11, sizes of 2 and 5 dollars |
| `meteora_swap` | Does the walk meet every array once, is a bin ever filled beyond what it has or is left, and does the message name what was planned? | arrays of 2 bins with indexes -2..2, of which -1..1 in the pool's own bitmap, 12 pool states (6 that hold what makes a checked operation fail), u32, u64 and u128 up to 1000, 1023 and 1048575, 5 callers, 7 amounts, chains of 2 slots, 4 generations |
| `shadow_journal` | Does a reader ever take a partial journal for a whole one, and do the readers agree on a sealed one? | 2 routes, 2 sizes, room for 7 lines, 2 clock values, every outcome of a funding mode |
| `shadow_journal_full` | What remains when the grid does not fit, and when the clock steps back? | 2 routes, 2 sizes, room for 5 lines (6 are needed without a rejected route), 2 clock values in any order, funding modes that pay or are not evaluated |
| `r13_search` | Does the search implement the oracle if no node answers from the past? | 2 routes that share a pool, ledgers of up to 3 transactions of 5 kinds in 5 slots, 1 entry a page, 3 pages, 2 fetches |
| `r13_lagging` | What remains if nodes lag, and does the run end? | ledgers of up to 3 transactions of 3 kinds in 4 slots, 2 entries a page, 2 pages, 1 fetch, 2 polls |
| `evidence_files` | Does an artifact or a document that a killed program left ever validate, and does a whole one say what was found? | 7 journals, up to 3 candidates of 2 routes, 6 maturities, 4 analyses a route, room for 9 records, 3 source runs |

*Why the bounds are enough.*

* `subscription`: three generations give a connection that was dropped, one that was
  dropped after it, and a live one, and reach the overflow guard; three slots give a
  watermark something between older and newer.
* `admission`: an order between three values (the state in the list, the context, the
  addition) decides every merge, hence three slots; a second notification makes
  duplicate list entries.
* `hydration`: what can go wrong is a mixture of two slots, so two slots are enough
  for every pair of (message, answer) or (first call, second call) to differ in
  either direction; each venue's worlds are the pool, the pool after a trade, and one
  world for each thing a reader must refuse or not mix with it (a disabled pool, an
  epoch that changes a fee, arrays that appear, a gate not yet open). Two
  observations let a later one replace an earlier one or fail to. One pool is
  enough, since no venue's hydration looks at another pool.
* `route_market`: small reserves and coarse fees make every rounding visible (one
  unit is several percent of a trade); three trades go there and back and leave a
  third; the tiers of PumpSwap's pool are crossed both ways; in one set of
  price accounts the stable coin that is accepted has a smaller exponent than SOL, in the
  other a larger one, so a cost is multiplied by a power of ten and divided by one.
* `meteora_swap`: two bins an array make most bins the first or last of theirs; five
  indexes of which three are in the pool's own bitmap give searches that end inside of
  it, cross into the extension, need an extension that is not there, and end at the
  last index; two slots and four generations let a plan be expanded from a newer, an
  older and the same snapshot. The widths are small enough for a pool to exceed each of
  them and large enough for the others never to; each of the five reasons of
  `FeesFitTheRest` is the only one at hand in some state of the run.
* `shadow_journal`: two routes at two sizes give, in one run, a complete route beside
  one that is rejected, partly rejected or priced in any mixture; two clock values give
  equal, later and earlier readings between any two points; room for five lines is
  `run_start`, three lines of evidence and `run_end`, which holds both routes exactly when
  one of them is rejected as a whole (one line) and the other quoted and priced at both
  sizes (two), so both journals that fill up and journals that are sealed occur, and of
  these some with a clock that stepped back, which Stage F accepts and the replay does not.
* `r13_search`: one-entry pages cut every slot with two transactions in two, three
  pages are exactly the number that reads the whole ledger so saturation happens both
  at and before the window's start, and two fetches are exceeded by three transactions.
* `evidence_files`: nine records hold some of the scripts and not others (up to eleven),
  and the last place is met with a `run_end` and with something else; of the journals
  three are good, so the one acceptable set can be given in every order and with each
  of its members replaced by one that must not count.

*Deadlock.* `subscription` is checked for it: `mark_requested` is always possible.
The other modules describe programs that end, so their runs say
`CHECK_DEADLOCK FALSE`; that they do end is `SearchEnds` and `ObservationEnds`.

*Fairness.* Two specifications assume any. `FairSpec` of `R13Search` has
`WF_vars(Next)`, a step that can be taken is taken. `Spec` of `PoolHydration` has weak
fairness of the loop (`Enough`, `Listen`), of its timer (`Tick`, `TimeOut`) and of a call's
ending one way or another (`CallFails \/ BaseAnswered \/ Answered`). The code
justifies both: the client is built with a connect and a request timeout
(`main.rs` 160-164), so each RPC answers or fails; a wait for a message is inside of
tokio's timeout (`ws_transport.rs`); and the polling loop has a deadline (`main.rs`
1547). Nothing says that a request succeeds, that anybody sends a message, or that
the chain goes on. `MaxPolls`, `MaxRetries` (the code's own 429 bound) and `MaxPings`
bound what could repeat. `MaxPings` matters: a control frame restarts the wait, so a
server that pings for ever keeps the loop waiting for ever, Meteora's included.

*Why `ObservationEnds` is stated for Meteora only.* The other three loops restart
their wait with every message, also one that does not parse and is not counted, so
steady unrelated traffic keeps them going; the model shows that too, if the condition on
the venue is dropped.

*Findings.* Both violation runs compare the pipeline in front of the registry
with what the registry's own tests promise. (1) `merge_quote_contexts` replaces a
newer context that `merge_normalized_states` would have kept, so an answer of an
RPC node behind the WebSocket takes a ready pool out of the registry. (2) A newer
read that makes a pool untradable is dropped before the registry sees it, so the
older state stays eligible. Neither lets a stale pair be *quoted*:
`RoutesAreQuotable` holds.

## 4. Theorems

Every theorem is proved for all values of the constants under the assumptions
named in the modules. An invariant of a run is seldom inductive; each `_proofs`
module has an `Inductive` that is, and one lemma per action.

* `SubscriptionLifecycle_proofs`: `OnlyTheLiveConnectionIsHeard` needs
  `GenerationsCountConnections` (no generation is handed out twice), and
  `ReadyIsCaughtUp` needs the watermark property, because a refresh is compared
  with the watermark and not with the notifications. `TypeOK` follows.
* `PoolHydration_proofs`: `TypeOK` with `Generations`. `PreparedNeverGoesBack` says that a
  held entry is replaced only by a later hydration; no step compares generations, so
  `HeldBefore` keeps what is held below the generation of the call under way, and
  `OneEntry` makes the sets of at most one element just that. That the loop's counter
  stays in range needs both: `observed < MaxObservations` while a message is waited for,
  and `generation = 2 * observed + 1` for Meteora while it observes.
  `ImplementsPoolViewAlways` is the refinement: initial states map to initial states, the
  chain going on and an answer that is let through are steps of `PoolView`, all else
  stutters. It needs `TriggerFits` (what is hydrated started as the pool at a slot there
  was) and one lemma a venue (`RaydiumReads`, `PumpSwapReads`, `OrcaReads`, `MeteoraReads`):
  which place of the reply is which account, and that what the reader's checks let
  through is what `PoolReadings` says of the chain at that slot - the five tick arrays by
  floor division, the arrays of bins by counting initialized ones between the active one
  and each other, a transfer fee through extensions that are read up to the first that
  is uninitialized. Assumed of the chain is `WorldsAssumption`: the types of an account's
  fields by its layout, and what the token programs keep of a mint's extensions.
* `LiveAdmission_proofs`: follows a state from the lists (`ListsHoldNewest`) through
  the queue being upserted (`QueueIsTheRest`) into the registry (`RegistryIsFromLists`,
  `ReadyHasContext`). It gives `TypeOK`, `RoutesAreQuotable` and `NewestStateWins`.
  `InitialRoutesSurvive` has an invariant on top of it: what the second registry is fed
  keeps every pool of an initial route ready (`InitialRoutesStayReady`), and a Raydium
  or PumpSwap pool in the registry is ready if its context is not older than its state
  (`RegistryKnowsReadiness`).
* `RouteMarket_proofs`: `WellFormed`, `NothingLost` and `RoutesEndInTheAnchor`.
  `NothingLost` says that every pool is `Kept` from some market of the start: the product
  of its reserves is no smaller, and reserves and traders' gains together are no more
  than was there. `NoFreeLunch` follows: who gains one mint without paying another
  would have left smaller reserves on one side and no larger ones on the other, so a
  smaller product. Under it is one
  lemma for each quote, about what roundings and fees leave in the pool.
  `BuysFitTheirBudget` is about a binary search; the induction theorems of the library are
  out of reach (below), so the proof takes the smallest range in which the search
  would go wrong (the least element of a set of naturals) and shows that half of it
  would be wrong too. `Priced` remembers what sizes and costs were computed from;
  `CostsCoverLamports` and `SizesStayWithinDollars` follow from it for any price,
  confidence and exponent, by the law of `PowerOfTen` (a recursive function on numbers,
  whose law is proved with the least exponent for which it would fail) and what
  rounding a quotient up or down leaves.
* `DlmmSwap_proofs`: `Inductive` says that the snapshot holds bins (`SnapshotFits`), that
  the plan is of the snapshot (`PlanFits`) and that the walk is in an array it has
  (`WalkFits`). `FeesFitTheRest` comes from a lemma on one bin: the fee inside of an
  input, rounded up over the whole rest, and the fee on top of a partly filled input,
  rounded up over another base, never exceed the rest, nor do they after each layer.
  That a total beyond u64 is explained by what the bins hold is `WalkIsHonest` (below).
  Assumed of a pool is `PoolAssumption`, the widths of its fields, and of the widths
  `WidthAssumption`: a u64 times a u32 or a rate fits in a u128. On top of `Inductive`:
  `WalkIsComplete` for `NoArrayIsSkipped` (the arrays met are the initialized ones before
  the place the search is at, in the order of the walk, and an append keeps it so);
  `WalkIsHonest` for `FillsAreHonest` (what the walk has counted is what its bins gave,
  each at a price no better than the best); `MessageIsCompiled` for the last two. There
  the argument is about the compiler: the user is named once and not written, the
  program stands at position 15, a canonical order is sorted by privileges, so the
  header's three counters cut it into the intervals a validator reads, a key loaded
  from the table is read back at its position, and what is contended is what is written
  but for the payer and the program.
* `ShadowJournal_proofs`: none of its four properties is inductive, since a reader
  looks at the file alone. `NoneLost` ties the file to the loops (a candidate the
  quoting loop has passed is waiting or recorded, never both), `AtMostOneLineEach`
  and `SealSumsUp` carry that over to what the file says after the run is gone,
  and `EvaluationsAreSound` is what a line must satisfy for the replay. Proved for
  any number of routes and sizes, any capacity of at least two lines and any
  clock, except `SealedJournalsReplayAlways`, which assumes `Monotonic`.
* `R13Search_proofs`: `Inductive` says that what was seen lies in the ledger
  (`SeenIsInLedger`), that the steps come in order (`RunIsOrdered`) and, with
  `FreshNodes`, that the pages read so far have no gap above the cursor
  (`PagesHaveNoGap`). From it: `FoundIsReal` without any assumption on nodes, and
  with `FreshNodes` `CompleteHistoryIsTotal` and
  `SearchImplementsOracle: Spec => ImplementsOracle`. The step lemmas show that a
  verdict of "no atomic match" needs both complete histories, every transaction of
  the intersection, and no undecided one. `IncompleteHasCause` has an invariant on top of
  it: the tip is mature (`TipIsMature`), the pages read so far are full and share no
  signature (`PagesAreFull`, so that a history that was given up holds as many as the
  bounds allow), and a history or a fetch that was given up has a cause that stays
  (`ClosedHaveCause`, `FetchedHaveCause`).

  The same module is about the files, for any journals and any analyses.
  `FileInductive` says that the artifact holds the first records of `Whole`
  (`FileIsAPrefix`) and that the stage says how far it came (`StageSaysHowFar`).
  `OnlyWholeArtifactsValidate` follows because only the last record of `Whole` is a
  `run_end` (`ScriptEvents`) and a validated file has one. `FinishedArtifactsAnswer` also
  wants that a whole file validates: its counters are compared with counts over the file,
  so each part is counted (`HitCount`) and counting is additive over sequences that are
  joined or flattened (`HitsJoin`, `FlattenCounts`). For `TemporalEvidenceIsExact` the
  records of the three journals, one after the other, are shown to be a list without
  repetition of the places at which the journals have an evaluation (`FlattenLocates`,
  `EvaluationsAreListed`); that no run id comes twice keeps a journal from being
  listed twice. What is accumulated record by record is what the first n records say
  (`AccumulateIsExact`), so in the end a row's counts are counts of places. Assumed are
  `SourcesAssumption` (records of evaluations have a time, every record has a run id,
  and run ids have an order; in the code they are strings) and `AnalysesAssumption` (a
  route's status is one of the five).

*Only model-checked.*

* `SearchEnds`, `ObservationEnds`: liveness is out of the prover's reach.

Every other property of a passing run is a theorem. Induction over data is not beyond
them, but the library's induction theorems are, since they take an operator: the proofs
induct over positions with a set of natural numbers (`Induction`, from the least element
that a set has) and unfold a recursive function from the values a rule gives
(`Recursion`), both in `IntegerFacts`. This is why the models sort, filter, add up and
accumulate with functions on positions (`Orderings`, `Accumulated`).

## 5. Not modelled, and why

* Byte offsets, discriminators, decoding of instructions and JSON, the wording of
  output: pure functions of their input. A layout or a field stands for them.
* Widths: the u64 limit of amounts is `MaxRaw` in `RouteEconomics`, those of the DLMM walk
  are `MaxU32`, `MaxU64` and `MaxU128`; in the other venues' quotes amounts are natural
  numbers, and their checked arithmetic is never at its limits.
* The Orca quote library: not in this repository. What it answers for a context is
  left open, what the code checks of the answer is modelled.
* `orca_priority.rs` and the binaries under `bin/` but for Stage F: one-shot programs
  and listings that print evidence and keep no state.
* `local_rpc.rs`: a forwarder on the loopback for development.
* Discovery: which candidates are looked up, in which order, the cap on lookups and the
  completeness that is printed. `LiveAdmission` leaves open which pools are found.
* The wait for a subscription's confirmation, which unrelated messages restart: nothing
  the code does makes it end, so there is nothing to state but that.
* PumpSwap's priority footprint, which is always an error, and in the economics every
  cost without a policy: the code has no way to know them, so the model has none either.
* Wall-clock time outside of the journal and the observation: a deadline is a step that
  may happen.
* In the journal: the shape of fields no property compares (mints, fees, cost
  components, provenance), counter overflow at u64, and the constant run id.
* A confirmed transaction disappearing: `ledger` is fixed during a search, because
  everything is asked at commitment `confirmed` well behind the tip.

## 6. Plan

What is left, in this order:

1. The lookups of discovery with their cap and completeness records, composed with
   `PoolHydration` in place of `LiveAdmission`'s open choice.
2. A third route in `MCR13Search`, so that a window narrower than the union on both
   sides is exercised.
3. The limits of u64 and u128 in the quotes of Raydium and PumpSwap.
