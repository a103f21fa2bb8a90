------------------------------ MODULE DlmmSwap ------------------------------
(***************************************************************************)
(* A swap on a Meteora DLMM pool, from the arrays to read to the message   *)
(* to simulate: meteora_m9.rs plans which bin arrays a snapshot needs,     *)
(* meteora_m8.rs walks through their bins, meteora_m11.rs and              *)
(* meteora_m12.rs turn what was walked into accounts and a transaction.    *)
(*                                                                         *)
(* The first plan names one array.  A walk that runs out of hydrated       *)
(* arrays names the one it misses, and the plan is expanded from a new     *)
(* snapshot; the pool may have moved in between, and the node that answers *)
(* may lag behind.  One step of the walk is one array searched or one bin  *)
(* filled.                                                                 *)
(***************************************************************************)
EXTENDS DlmmBins, DlmmAccounts

CONSTANTS
    PoolStates,     \* what the pool may be at a slot
    Amounts,        \* requested inputs
    Provided,       \* the accounts a caller may bring
    LookupTables,   \* a caller's lookup tables: sets of at most one sequence of keys
    MaxSlot, MaxGeneration

\* A pool is a pair, the set of its initialized arrays, what their bins hold,
\* and whether it has an extension account.
ASSUME PoolAssumption ==
    /\ \A pool \in PoolStates :
          /\ pool.pair \in Pairs
          /\ pool.bitmap \subseteq Indexes
          /\ \A i \in pool.bitmap : pool.arrays[i] \in [LowerBin(i) .. UpperBin(i) -> Bins]
    /\ Amounts \subseteq U64
    /\ 0 \in Indexes
    /\ \A tables \in LookupTables : \A a, b \in tables : a = b /\ a \in Seq(Elements(a))

VARIABLES
    chain,      \* the pool at every slot so far
    request,    \* [amount, swap_for_y]
    snapshot,   \* the hydrated snapshot
    plan,       \* its hydration plan
    walk,       \* the traversal's local variables
    phase,      \* where the swap is; a finished traversal's termination
    accounts,   \* the execution account plan, or {}
    message     \* the compiled message with its table, or {}

vars == <<chain, request, snapshot, plan, walk, phase, accounts, message>>

InRange(bin) == BinArrayIndex(bin) \in Indexes

(***************************************************************************)
(* Hydration plans                                                         *)
(***************************************************************************)
\* meteora_initial_hydration_plan: the first initialized array, if there is one.
\* A snapshot that cannot be planned for has no arrays.
InitialTargets(pool, swapForY) ==
    LET start == BinArrayIndex(pool.pair.active_id)
    IN  IF ~InRange(pool.pair.active_id) \/ ExtensionRequired(pool, start, swapForY) THEN <<>>
        ELSE InOrder(NextInitialized(pool, start, swapForY), swapForY)

\* The arrays from the active one to the missing one, which must still be
\* initialized and ahead.
ExpandedTargets(pool, swapForY, missing) ==
    LET start == BinArrayIndex(pool.pair.active_id)
        passage == Ahead(start, swapForY) \cap Ahead(missing, ~swapForY)
    IN  IF /\ InRange(pool.pair.active_id)
           /\ missing \in passage \cap pool.bitmap
           /\ passage \subseteq Known(pool)
        THEN {InOrder(passage \cap pool.bitmap, swapForY)}
        ELSE {}

Source(generation, slot) == [generation |-> generation, slot |-> slot]

\* The snapshot holds the arrays of the plan as they were at its slot.
SnapshotOf(pool, targets, source) ==
    [pair |-> pool.pair, bitmap |-> pool.bitmap, extension |-> pool.extension,
     now |-> pool.now, source |-> source,
     arrays |-> [i \in Elements(targets) |-> pool.arrays[i]]]

(***************************************************************************)
(* Actions                                                                 *)
(***************************************************************************)
NoWalk == [start |-> 0, array |-> 0, bin |-> 0, first |-> TRUE, left |-> 0, out |-> 0,
           fee |-> 0, protocol |-> 0, bins |-> <<>>, arrays |-> <<>>]

Init ==
    /\ \E pool \in PoolStates : chain = <<pool>>
    /\ request \in [amount : Amounts, swap_for_y : BOOLEAN]
    /\ LET targets == InitialTargets(chain[1], request.swap_for_y)
       IN  /\ plan = [source |-> Source(1, 1), targets |-> targets,
                      swap_for_y |-> request.swap_for_y]
           /\ snapshot = SnapshotOf(chain[1], targets, Source(1, 1))
    /\ walk = NoWalk
    /\ phase = "hydrated"
    /\ accounts = {} /\ message = {}

\* Anybody may trade in the pool or open and close its arrays.
PoolMoves(pool) ==
    /\ Len(chain) < MaxSlot
    /\ pool # chain[Len(chain)]
    /\ chain' = Append(chain, pool)
    /\ UNCHANGED <<request, snapshot, plan, walk, phase, accounts, message>>

\* meteora_exact_in_traverse up to its loop.
BeginWalk ==
    /\ phase = "hydrated"
    /\ LET active == snapshot.pair.active_id
       IN  /\ walk' = [NoWalk EXCEPT !.start = BinArrayIndex(active), !.left = request.amount]
           /\ phase' =
                IF FeeOnInput(snapshot.pair, request.swap_for_y) = {}
                THEN "UnsupportedCollectFeeMode"
                ELSE IF VolatilityReference(snapshot.pair, snapshot.now) = {}
                THEN "ArithmeticOverflow"
                ELSE IF ~InRange(active) THEN "ProtocolSearchRangeExceeded"
                ELSE IF request.amount = 0 THEN "RequestedInputFullyConsumed"
                ELSE "searching"
    /\ UNCHANGED <<chain, request, snapshot, plan, accounts, message>>

Stop(termination) ==
    /\ phase' = termination
    /\ UNCHANGED <<chain, request, snapshot, plan, accounts, message>>

EnterArray(index) ==
    /\ walk' = [walk EXCEPT
         !.array = index,
         !.arrays = Append(@, index),
         !.bin = IF walk.first /\ index = BinArrayIndex(snapshot.pair.active_id)
                 THEN snapshot.pair.active_id
                 ELSE IF request.swap_for_y THEN UpperBin(index) ELSE LowerBin(index)]
    /\ Stop("filling")

Search ==
    /\ phase = "searching"
    /\ LET next == NextInitialized(snapshot, walk.start, request.swap_for_y)
       IN  \/ /\ ExtensionRequired(snapshot, walk.start, request.swap_for_y)
              /\ walk' = walk
              /\ Stop("BitmapExtensionRequired")
           \/ /\ ~ExtensionRequired(snapshot, walk.start, request.swap_for_y)
              /\ next = {}
              /\ walk' = walk
              /\ Stop("LiquiditySearchExhausted")
           \/ /\ ~ExtensionRequired(snapshot, walk.start, request.swap_for_y)
              /\ \E index \in next :
                    IF index \in DOMAIN snapshot.arrays THEN EnterArray(index)
                    ELSE /\ walk' = [walk EXCEPT !.array = index]
                         /\ Stop("MissingHydratedBinArray")

\* Mutant: the next array searched is the one after the next.
ArrayAfterNext(index, swapForY) == IF swapForY THEN index - 2 ELSE index + 2

ArrayAfter(index, swapForY) == IF swapForY THEN index - 1 ELSE index + 1

BinAt(bin) == snapshot.arrays[walk.array][bin]

LastBin(index, swapForY) == IF swapForY THEN LowerBin(index) ELSE UpperBin(index)

LastArray(swapForY) == IF swapForY THEN BinArrayMinIndex ELSE BinArrayMaxIndex

\* Mutant: the walk does not stop at the last array.
WalkOnPastTheEnd(left) ==
    IF left = 0 THEN "RequestedInputFullyConsumed"
    ELSE IF walk.bin # LastBin(walk.array, request.swap_for_y) THEN "filling"
    ELSE "searching"

\* Where the walk goes with something left to put in.
WalkOn(left) ==
    IF left = 0 THEN "RequestedInputFullyConsumed"
    ELSE IF walk.bin # LastBin(walk.array, request.swap_for_y) THEN "filling"
    ELSE IF walk.array = LastArray(request.swap_for_y) THEN "LiquiditySearchExhausted"
    ELSE "searching"

Volatility(reference) == VolatilityAccumulator(snapshot.pair, reference, walk.bin)

\* The totals of a traversal are sums of u64, each of them checked.
TotalsFit(fill) ==
    /\ walk.out + fill.out <= MaxU64
    /\ walk.fee + fill.fee <= MaxU64
    /\ walk.protocol + fill.protocol <= MaxU64

FillOneBin ==
    /\ phase = "filling"
    /\ \E onInput \in FeeOnInput(snapshot.pair, request.swap_for_y),
          reference \in VolatilityReference(snapshot.pair, snapshot.now) :
       LET fills == {fill \in FillBin(snapshot.pair, BinAt(walk.bin), walk.left,
                                      request.swap_for_y, TRUE, onInput, Volatility(reference)) :
                        TotalsFit(fill)}
       IN  \/ /\ fills = {}
              /\ walk' = [walk EXCEPT !.bins = Append(@, walk.bin)]
              /\ Stop("ArithmeticOverflow")
           \/ \E fill \in fills :
              /\ walk' = [walk EXCEPT
                   !.left = @ - fill.consumed, !.out = @ + fill.out,
                   !.fee = @ + fill.fee, !.protocol = @ + fill.protocol,
                   !.bins = Append(@, walk.bin),
                   !.bin = IF WalkOn(walk.left - fill.consumed) = "filling"
                           THEN (IF request.swap_for_y THEN @ - 1 ELSE @ + 1) ELSE @,
                   !.first = @ /\ WalkOn(walk.left - fill.consumed) # "searching",
                   !.start = IF WalkOn(walk.left - fill.consumed) = "searching"
                             THEN ArrayAfter(walk.array, request.swap_for_y) ELSE @]
              /\ Stop(WalkOn(walk.left - fill.consumed))

\* meteora_expand_hydration_plan, on a snapshot of any slot a node may answer for.
Expand(slot, generation) ==
    /\ phase = "MissingHydratedBinArray"
    /\ LET pool == chain[slot]
           source == Source(generation, slot)
           expanded == ExpandedTargets(pool, request.swap_for_y, walk.array)
       IN  IF /\ generation > plan.source.generation
              /\ slot >= plan.source.slot
              /\ expanded # {}
           THEN /\ \E targets \in expanded :
                      /\ plan' = [plan EXCEPT !.source = source, !.targets = targets]
                      /\ snapshot' = SnapshotOf(pool, targets, source)
                /\ walk' = NoWalk
                /\ phase' = "hydrated"
           ELSE phase' = "StaleState" /\ UNCHANGED <<plan, snapshot, walk>>
    /\ UNCHANGED <<chain, request, accounts, message>>

PlanAccounts(provided, buffers) ==
    /\ phase = "RequestedInputFullyConsumed"
    /\ accounts' = ExecutionAccountPlan(snapshot, plan, walk.arrays, request.swap_for_y,
                                        provided, buffers)
    /\ phase' = IF accounts' = {} THEN "InvalidLayout" ELSE "planned"
    /\ UNCHANGED <<chain, request, snapshot, plan, walk, message>>

Compile(tables) ==
    /\ phase = "planned"
    /\ \E a \in accounts :
          message' = {[compiled |-> m, tables |-> tables] : m \in CompileSwap2(a, tables)}
    /\ phase' = IF message' = {} THEN "AccountFootprintExceeded" ELSE "compiled"
    /\ UNCHANGED <<chain, request, snapshot, plan, walk, accounts>>

Buffers == {<<>>} \cup {<<i>> : i \in Indexes}

Next ==
    \/ \E pool \in PoolStates : PoolMoves(pool)
    \/ BeginWalk
    \/ Search
    \/ FillOneBin
    \/ \E slot \in DOMAIN chain, generation \in 1 .. MaxGeneration : Expand(slot, generation)
    \/ \E provided \in Provided, buffers \in Buffers : PlanAccounts(provided, buffers)
    \/ \E tables \in LookupTables : Compile(tables)

Spec == Init /\ [][Next]_vars

(***************************************************************************)
(* Properties                                                              *)
(***************************************************************************)
Walked == phase # "hydrated" /\ walk.bins # <<>>

\* The walk of meteora_exact_in_traverse stays in the range of arrays and in the
\* bins of the array it has read, and its counters are u64.
TypeOK ==
    /\ phase \in {"searching", "filling"} => walk.start \in Indexes
    /\ walk.array \in Indexes
    /\ phase = "filling" => walk.bin \in DOMAIN snapshot.arrays[walk.array]
    /\ \A counter \in {walk.left, walk.out, walk.fee, walk.protocol} : counter \in U64
    /\ plan.source.slot \in DOMAIN chain
    /\ plan.source = snapshot.source

Touched == {snapshot.arrays[BinArrayIndex(b)][b] : b \in Elements(walk.bins)}

Holds(bin) ==
    MakersHold(bin, request.swap_for_y)
    + OrdersHold(bin, request.swap_for_y).processed + OrdersHold(bin, request.swap_for_y).open

HeldByWalked ==
    SumOf([k \in DOMAIN walk.bins |->
              Holds(snapshot.arrays[BinArrayIndex(walk.bins[k])][walk.bins[k]])])

\* The bin has no price yet, or one of its layers costs more than a u64.
CannotBeFilled(bin) ==
    \/ bin.price = 0
    \/ LET orders == OrdersHold(bin, request.swap_for_y)
       IN  \E held \in {MakersHold(bin, request.swap_for_y), orders.processed, orders.open} :
              AmountIn(held, bin.price, request.swap_for_y) = {}

\* The volatility cannot be brought up to date, or the fee at this bin, from it,
\* not be computed in u128.
HasNoFeeRate(pair, now, bin) ==
    \A reference \in VolatilityReference(pair, now) :
        TotalFeeRate(pair, VolatilityAccumulator(pair, reference, bin)) = {}

\* The roundings of the fee and of each layer never make a bin cost more than
\* is left: fill_bin_exact_in and the sums of meteora_exact_in_traverse fail
\* with ArithmeticOverflow only on what an account says, and that in five ways.
\* The fee rate does not fit; the bin it is at has no price yet; a whole layer of
\* that bin costs more than a u64; what the bins walked through hold together
\* does; or the pool lets the protocol keep more than the whole fee.
FeesFitTheRest ==
    phase = "ArithmeticOverflow" =>
       \/ HasNoFeeRate(snapshot.pair, snapshot.now, walk.bin)
       \/ CannotBeFilled(BinAt(walk.bin))
       \/ HeldByWalked > MaxU64
       \/ snapshot.pair.protocol_share > BasisPointMax

PaidInFees(onInput) == IF onInput THEN walk.fee ELSE 0

TakenFromBins(onInput) == walk.out + IF onInput THEN 0 ELSE walk.fee

NoBetterThan(price, in, out) ==
    IF request.swap_for_y THEN out * PriceOne <= in * price ELSE out * price <= in * PriceOne

\* Filling bin by bin (meteora_exact_in_fill_at_bin) takes no more than the bins
\* walked through hold, at no better price than the best of them, and leaves the
\* protocol a part of the fee.
FillsAreHonest ==
    Walked /\ phase # "ArithmeticOverflow" =>
       \E onInput \in FeeOnInput(snapshot.pair, request.swap_for_y) :
          /\ TakenFromBins(onInput) <= HeldByWalked
          /\ walk.protocol <= walk.fee
          /\ \E bin \in Touched :
               NoBetterThan(bin.price, request.amount - walk.left - PaidInFees(onInput),
                            TakenFromBins(onInput))

InitializedUpTo(index) ==
    snapshot.bitmap \cap Ahead(BinArrayIndex(snapshot.pair.active_id), request.swap_for_y)
                    \cap Ahead(index, ~request.swap_for_y)

\* The walk meets every initialized array between the active bin and where it
\* is, in order and once, each of them read with this snapshot; liquidity is
\* exhausted only when none is left; and an array it misses is the next one and
\* not one the plan already had, so that an expansion helps.
NoArrayIsSkipped ==
    /\ walk.arrays # <<>> =>
         walk.arrays =
             InOrder(InitializedUpTo(walk.arrays[Len(walk.arrays)]), request.swap_for_y)
    /\ Elements(walk.arrays) \subseteq DOMAIN snapshot.arrays
    /\ phase = "LiquiditySearchExhausted" =>
         Elements(walk.arrays) = InitializedUpTo(LastArray(request.swap_for_y))
    /\ phase = "MissingHydratedBinArray" =>
         /\ Elements(walk.arrays) = InitializedUpTo(walk.array) \ {walk.array}
         /\ walk.array \notin Elements(plan.targets)

(***************************************************************************)
(* How a validator reads a message.                                        *)
(***************************************************************************)
LoadedKeys(indexes, tables) ==
    [i \in DOMAIN indexes |-> (CHOOSE table \in tables : TRUE)[indexes[i]]]

MessageKeys(m) ==
    m.compiled.static_keys \o LoadedKeys(m.compiled.writable_indexes, m.tables)
                           \o LoadedKeys(m.compiled.readonly_indexes, m.tables)

ReadsSigner(m, i) == i <= m.compiled.required_signatures

ReadsWritable(m, i) ==
    LET c == m.compiled
        static == Len(c.static_keys)
    IN  IF i <= c.required_signatures THEN i <= c.required_signatures - c.readonly_signed
        ELSE IF i <= static THEN i <= static - c.readonly_unsigned
        ELSE i <= static + Len(c.writable_indexes)

Payer == {a.key : a \in {b \in UNION {Elements(p.ordered) : p \in accounts} : b.kind = "User"}}

\* What compile_meteora_swap2_v0's counters and positions say is what the plan
\* asked for: every index names its account, an account may be written or must
\* sign exactly if a mention of it says so, the payer comes first, signs and
\* may be written, and neither a signer nor the program is loaded from a table.
MessageSaysWhatIsPlanned ==
    \A m \in message, p \in accounts :
       LET keys == MessageKeys(m)
       IN  /\ \A j \in DOMAIN p.ordered :
                 LET i == m.compiled.accounts[j]
                     mentions == {a \in Elements(p.ordered) : a.key = keys[i]}
                 IN  /\ keys[i] = p.ordered[j].key
                     /\ ReadsSigner(m, i) <=> \E a \in mentions : a.signer
                     /\ ReadsWritable(m, i) <=>
                           \E a \in mentions : a.writable \/ a.kind = "User"
           /\ keys[m.compiled.program] = DlmmProgram
           /\ m.compiled.program <= Len(m.compiled.static_keys)
           /\ {keys[1]} = Payer /\ IsUnique(keys)

\* The reserves and the oracle the footprint derives from the pool; nothing holds
\* a caller's own against them.
OwnProtocolAccounts(p) ==
    /\ p.ordered[3].key = Key("reserve_x") /\ p.ordered[4].key = Key("reserve_y")
    /\ p.ordered[12].key = Key("oracle")

\* The accounts the plan reports as contended are those the message may write,
\* but for the payer and the program named in place of a missing account; and
\* meteora_quote_contention_footprint, which sees only the quote, is part of it
\* for a caller who brings the reserves and the oracle of the pool.
ContentionIsWhatIsWritten ==
    \A m \in message, p \in accounts :
       LET keys == MessageKeys(m)
       IN  /\ Elements(p.contention) =
                 {keys[i] : i \in {i \in DOMAIN keys : ReadsWritable(m, i)}}
                 \ (Payer \cup {DlmmProgram})
           /\ OwnProtocolAccounts(p) =>
                 \A footprint \in QuoteFootprints(snapshot, walk.arrays) :
                    Elements(footprint) \subseteq Elements(p.contention)
=============================================================================
