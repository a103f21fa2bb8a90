----------------------------- MODULE RouteMarket -----------------------------
(***************************************************************************)
(* The arithmetic of one run put to work.  Pools are traded in, by anybody *)
(* and by the routes that are quoted, exactly as the quotes say; every     *)
(* quote is then priced.  So the quotes are held against what they claim   *)
(* to foresee: a pool is not worth less after a trade, nobody leaves a     *)
(* pool with a gain, and a route leaves nothing behind but the anchor it   *)
(* promised.                                                               *)
(*                                                                         *)
(* What a swap does to a pool is the venue's program and not in this       *)
(* repository; After follows from what hydration reads as the reserves.    *)
(***************************************************************************)
EXTENDS TwoLegQuote, RouteEconomics, FiniteSets

CONSTANTS
    Markets,        \* what the pools may be at the start: functions to contexts
    TradeAmounts,   \* what outsiders trade
    DollarSizes,    \* USD_SIZE_GRID
    PriceAccounts,  \* what the three Pyth accounts may hold: functions on Anchors
    SampleSets,     \* what getRecentPrioritizationFees may answer
    Now,            \* the wall clock when the prices are read
    MaxTrades       \* bound on the trades of a behaviour

Mints == {"anchor", "token"}

FeeRates == [lp : Nat, protocol : Nat, creator : Nat]

\* The pools there are; what a decoder accepts and a quote asks for beyond that
\* is left to the quote.
RaydiumContexts ==
    {c \in [venue : {"raydium"}, pool_id : Nat, slot : Nat, mint_0 : Mints, mint_1 : Mints,
            effective : [Mints -> Nat \ {0}], creator_fee_on : 0 .. 2,
            enable_creator_fee : BOOLEAN, trade_fee_rate : Nat, protocol_fee_rate : Nat,
            fund_fee_rate : Nat, creator_fee_rate : Nat] : c.mint_0 # c.mint_1}

PumpSwapContexts ==
    {c \in [venue : {"pumpswap"}, pool_id : Nat, slot : Nat, base_mint : Mints,
            quote_mint : Mints, base : Nat \ {0}, quote : Nat \ {0}, supply : Nat,
            tradable : BOOLEAN, canonical : BOOLEAN,
            coin_creator : {"none", "default", "set"}, flat : FeeRates,
            tiers : Seq([threshold : Nat, fees : FeeRates])] : c.base_mint # c.quote_mint}

OrcaContexts ==
    [venue : {"orca"}, pool_id : Nat, slot : Nat, mint_a : Mints, mint_b : Mints,
     library : [Mints -> SUBSET [token_in : Nat, est_out : Nat, min_out : Nat,
                                 trade_fee : Nat]]]

Contexts == RaydiumContexts \cup PumpSwapContexts \cup OrcaContexts

ASSUME MarketAssumption ==
    /\ \A market \in Markets : market \in [DOMAIN market -> Contexts]
    /\ TradeAmounts \subseteq Nat /\ DollarSizes \subseteq Nat
    /\ \A accounts \in PriceAccounts, a \in Anchors :
          accounts[a].price \in Int /\ accounts[a].confidence \in Nat
          /\ accounts[a].exponent \in Int
    /\ SampleSets \subseteq Seq(Nat)
    /\ Now \in Nat /\ MaxTrades \in Nat

VARIABLES
    pools,      \* the pools as they are on chain
    traded,     \* what all traders of a pool together gained of each mint
    purse,      \* what the executed routes gained of each mint
    promised,   \* what their quotes said the anchor would change by
    anchor,     \* which of the three anchors the routes start from
    prices,     \* the accepted price, or {}, of each anchor
    priced,     \* the last quote and what its pricing came to
    trades

vars == <<pools, traded, purse, promised, anchor, prices, priced, trades>>

OtherMint(mint) == IF mint = "anchor" THEN "token" ELSE "anchor"

Nothing == [m \in Mints |-> 0]

(***************************************************************************)
(* The pool after the swap a quote foresees.  Raydium's accrued fees stay  *)
(* in the vault and are no reserves; PumpSwap pays protocol and creator    *)
(* out and keeps the fee of the liquidity providers.                       *)
(***************************************************************************)
AfterRaydium(c, mint, q) ==
    LET paidIn == IF CreatorFeeOnInput(c, mint) THEN q.creator ELSE 0
        reserves == [c.effective EXCEPT
                       ![mint] = @ + q.consumed - q.protocol - q.fund - paidIn,
                       ![OtherMint(mint)] = @ - q.out - (q.creator - paidIn)]
    IN  [c EXCEPT !.effective = reserves]

AfterPumpSwap(c, mint, q) ==
    LET skimmed == q.protocol + q.creator
    IN  IF mint = c.base_mint
        THEN [c EXCEPT !.base = @ + q.consumed, !.quote = @ - q.out - skimmed]
        ELSE [c EXCEPT !.base = @ - q.out, !.quote = @ + q.consumed - skimmed]

After(c, mint, q) ==
    CASE c.venue = "raydium" -> AfterRaydium(c, mint, q)
      [] c.venue = "pumpswap" -> AfterPumpSwap(c, mint, q)
      [] c.venue = "orca" -> c

Moved(balance, mint, q) ==
    [balance EXCEPT ![mint] = @ - q.consumed, ![OtherMint(mint)] = @ + q.out]

Init ==
    /\ pools \in Markets
    /\ traded = [p \in DOMAIN pools |-> Nothing]
    /\ purse = Nothing
    /\ promised = 0
    /\ anchor \in Anchors
    /\ \E accounts \in PriceAccounts :
          prices = [a \in Anchors |-> ParsePythUsdPrice(accounts[a], Now)]
    /\ priced = {}
    /\ trades = 0

\* An outsider swaps.
Trade(p, mint, amount) ==
    /\ trades < MaxTrades
    /\ trades' = trades + 1
    /\ \E q \in VenueQuotes(pools[p], mint, amount) :
          /\ pools' = [pools EXCEPT ![p] = After(@, mint, q)]
          /\ traded' = [traded EXCEPT ![p] = Moved(@, mint, q)]
    /\ priced' = {}
    /\ UNCHANGED <<purse, promised, anchor, prices>>

Leg(p, mint, slot) ==
    [venue |-> pools[p].venue, pool_id |-> pools[p].pool_id, source_slot |-> slot,
     input |-> mint, output |-> OtherMint(mint)]

\* A route through two pools is sized, quoted from current contexts and executed.
ExecuteRoute(p1, p2, dollars, slot) ==
    /\ trades < MaxTrades
    /\ p1 # p2
    /\ prices["WSOL"] # {}
    /\ trades' = trades + 1
    /\ \E price \in prices[anchor] :
       \E amount \in UsdDollarsToAnchorRaw(dollars, anchor, price) :
       \E q \in QuoteTwoLegExactInput(Leg(p1, "anchor", slot), Leg(p2, "token", slot),
                                      amount, pools[p1], pools[p2]) :
          /\ pools' = [pools EXCEPT ![p1] = After(@, "anchor", q.leg_1),
                                    ![p2] = After(@, "token", q.leg_2)]
          /\ traded' = [traded EXCEPT ![p1] = Moved(@, "anchor", q.leg_1),
                                      ![p2] = Moved(@, "token", q.leg_2)]
          /\ purse' = Moved(Moved(purse, "anchor", q.leg_1), "token", q.leg_2)
          /\ promised' = promised + q.anchor_output - q.requested
          /\ priced' = {[quote |-> q, dollars |-> dollars, evaluated |-> FALSE]}
    /\ UNCHANGED <<anchor, prices>>

\* The quote is priced by the fees observed for its accounts.
Price(samples) ==
    \E r \in priced :
       /\ ~r.evaluated
       /\ ~CostModelFails(samples)
       /\ LET costs == EconomicsCostModel(anchor, samples, prices)
          IN  priced' = {[quote |-> r.quote, dollars |-> r.dollars, evaluated |-> TRUE,
                          samples |-> samples, costs |-> costs,
                          net |-> [m \in FundingModes |->
                                     EvaluateExpectedNet(r.quote, costs, m)]]}
    /\ UNCHANGED <<pools, traded, purse, promised, anchor, prices, trades>>

Next ==
    \/ \E p \in DOMAIN pools, mint \in Mints, amount \in TradeAmounts : Trade(p, mint, amount)
    \/ \E p1, p2 \in DOMAIN pools, dollars \in DollarSizes, slot \in {0, 1} :
          ExecuteRoute(p1, p2, dollars, slot)
    \/ \E samples \in SampleSets : Price(samples)

Spec == Init /\ [][Next]_vars

(***************************************************************************)
(* Properties                                                              *)
(***************************************************************************)
Reserves(c) ==
    CASE c.venue = "raydium" -> {c.effective[m] : m \in Mints}
      [] c.venue = "pumpswap" -> {c.base, c.quote}
      [] c.venue = "orca" -> {}

\* The reserves every swap leaves are reserves a pool can have, and the
\* balances that are kept beside them are whole numbers.
TypeOK ==
    /\ \A p \in DOMAIN pools : Reserves(pools[p]) \subseteq Nat \ {0}
    /\ traded \in [DOMAIN pools -> [Mints -> Int]]
    /\ purse \in [Mints -> Int] /\ promised \in Int
    /\ anchor \in Anchors
    /\ trades \in 0 .. MaxTrades

Product(c) ==
    CASE c.venue = "raydium" -> c.effective["anchor"] * c.effective["token"]
      [] c.venue = "pumpswap" -> c.base * c.quote
      [] c.venue = "orca" -> 0

\* No quote promises more than the curve gives: the product of a pool's
\* reserves never shrinks, whichever side is rounded and taxed in
\* raydium::quote_exact_input and pumpswap::quote_exact_input.
ProductNeverShrinks ==
    [][\A p \in DOMAIN pools : Product(pools'[p]) >= Product(pools[p])]_vars

\* However often and in whatever directions a constant-product pool is traded
\* in, its traders together never gain one mint without paying another.
NoFreeLunch ==
    \A p \in DOMAIN pools :
        \/ pools[p].venue = "orca"
        \/ traded[p] = Nothing
        \/ \E m \in Mints : traded[p][m] < 0

\* max_curve_input_for_budget finds the largest curve input that fits the
\* budget with its fees, and what the curve then asks for is within it: the
\* check that a buy does not exceed its input never fires.
BuysFitTheirBudget ==
    \A p \in DOMAIN pools : pools[p].venue = "pumpswap" =>
        \A amount \in TradeAmounts : PumpSwapQuotable(pools[p], amount) =>
            LET c == pools[p]
                f == EffectiveFees(c)
                found == MaxCurveInputForBudget(f, amount)
                out == BaseOut(c, found)
            IN  /\ \A n \in 0 .. amount : n <= found <=> n + AllFees(f, n) <= amount
                /\ out < c.base => RawQuoteRequired(c, out) <= found

\* Executing the two legs of every route that was quoted leaves no
\* intermediate token and exactly the anchor the quotes promised.
RoutesEndInTheAnchor ==
    /\ purse["token"] = 0
    /\ purse["anchor"] = promised

\* What a known cost sets aside in the anchor buys the lamports it stands for
\* at every price within the confidence of the observed ones, and the fee is
\* that of a sample no more than a quarter of the positive samples exceed.
CoversLamports(raw, lamports) ==
    IF anchor = "WSOL" THEN raw >= lamports
    ELSE \A sol \in prices["WSOL"], stable \in prices[anchor] :
         \A solPrice \in (sol.price - sol.confidence) .. (sol.price + sol.confidence),
            stablePrice \in (stable.price - stable.confidence)
                               .. (stable.price + stable.confidence) :
            raw * stablePrice * LamportsPerSol * PowerOfTen[stable.exponent + MaxExponent]
                >= lamports * solPrice * StableScale * PowerOfTen[sol.exponent + MaxExponent]

CostsCoverLamports ==
    \A r \in priced : r.evaluated =>
        /\ \A raw \in r.costs.base_fee : CoversLamports(raw, BaseFeeLamports)
        /\ \A raw \in r.costs.priority_fee :
             \E i \in DOMAIN r.samples :
                /\ r.samples[i] > 0
                /\ 4 * Cardinality({j \in DOMAIN r.samples : r.samples[j] > r.samples[i]})
                      <= Cardinality({j \in DOMAIN r.samples : r.samples[j] > 0})
                /\ CoversLamports(raw, DivUp(r.samples[i] * ComputeUnitLimit,
                                             MicroPerLamport))

\* The sized input is worth no more than its dollars at any price within the
\* confidence of the anchor's.
SizesStayWithinDollars ==
    \A r \in priced, p \in prices[anchor] :
        r.quote.requested * (p.price + p.confidence) * PowerOfTen[p.exponent + MaxExponent]
            <= r.dollars * AnchorScale(anchor) * PowerOfTen[MaxExponent]
=============================================================================
