--------------------------- MODULE RouteEconomics ---------------------------
(***************************************************************************)
(* From dollars to an input amount, and from a quote to its expected net:  *)
(* sizing.rs, costs.rs and economics.rs.                                   *)
(*                                                                         *)
(* A result the code may refuse is a set with at most one element, empty   *)
(* for Err.  A required cost is such a set too: empty is Unknown.          *)
(*                                                                         *)
(* A Pyth account is a record [genuine, price, confidence, exponent,       *)
(* posted_slot, rpc_slot, publish_time]; genuine stands for the checks of  *)
(* its owner, layout, verification level and feed id.                      *)
(***************************************************************************)
EXTENDS PowersOfTen, Orderings

CONSTANTS
    LamportsPerSol,         \* 1_000_000_000
    StableScale,            \* 10^6: USDC and USDT have six decimals
    BaseFeeLamports,        \* BASE_FEE_LAMPORTS_PER_SIGNATURE * MODELED_SIGNATURE_COUNT
    ComputeUnitLimit,       \* MODELED_COMPUTE_UNIT_LIMIT
    MicroPerLamport,        \* MICRO_LAMPORTS_PER_LAMPORT, 1_000_000
    ConfidenceDenominator,  \* BPS_DENOMINATOR
    MaxConfidence,          \* MAX_PYTH_CONFIDENCE_BPS
    MaxExponent,            \* MAX_PYTH_ABS_EXPONENT
    MaxPriceAge,            \* MAX_PYTH_USD_AGE_SECONDS
    MaxFutureSkew,          \* MAX_FUTURE_SKEW_SECONDS
    MaxRaw                  \* u64::MAX

ASSUME EconomicsAssumption ==
    /\ {LamportsPerSol, StableScale, ComputeUnitLimit, MicroPerLamport,
        ConfidenceDenominator, MaxRaw} \subseteq Nat \ {0}
    /\ {BaseFeeLamports, MaxConfidence, MaxExponent, MaxPriceAge, MaxFutureSkew} \subseteq Nat

Anchors == {"WSOL", "USDC", "USDT"}

Magnitude(n) == IF n < 0 THEN -n ELSE n

CheckedRaw(n) == {n} \cap 0 .. MaxRaw

DivUp(numerator, denominator) ==
    numerator \div denominator + (IF numerator % denominator = 0 THEN 0 ELSE 1)

(***************************************************************************)
(* Sizing                                                                  *)
(***************************************************************************)
ConfidenceIsNarrow(p) ==
    /\ p.confidence < p.price
    /\ p.confidence * ConfidenceDenominator <= p.price * MaxConfidence

ParsePythUsdPrice(p, now) ==
    IF /\ p.genuine
       /\ p.price > 0
       /\ ConfidenceIsNarrow(p)
       /\ Magnitude(p.exponent) <= MaxExponent
       /\ p.posted_slot <= p.rpc_slot
       /\ p.publish_time <= now + MaxFutureSkew
       /\ now - p.publish_time <= MaxPriceAge
    THEN {p} ELSE {}

AnchorScale(anchor) == IF anchor = "WSOL" THEN LamportsPerSol ELSE StableScale

\* Mutant: the size is taken at the middle of the confidence.
UsdDollarsAtMidPrice(dollars, anchor, p) ==
    LET up == IF p.exponent < 0 THEN PowerOfTen[Magnitude(p.exponent)] ELSE 1
        down == IF p.exponent < 0 THEN 1 ELSE PowerOfTen[p.exponent]
        raw == (dollars * AnchorScale(anchor) * up) \div (p.price * down)
    IN  IF dollars > 0 /\ raw > 0 THEN CheckedRaw(raw) ELSE {}

\* The dollars buy at least this much even at the upper end of the confidence.
UsdDollarsToAnchorRaw(dollars, anchor, p) ==
    LET upper == p.price + p.confidence
        up == IF p.exponent < 0 THEN PowerOfTen[Magnitude(p.exponent)] ELSE 1
        down == IF p.exponent < 0 THEN 1 ELSE PowerOfTen[p.exponent]
        raw == (dollars * AnchorScale(anchor) * up) \div (upper * down)
    IN  IF dollars > 0 /\ raw > 0 THEN CheckedRaw(raw) ELSE {}

(***************************************************************************)
(* Costs                                                                   *)
(***************************************************************************)
\* select_priority_fee: the p75 of the samples that are not zero.
SelectPriorityFee(samples) ==
    LET positives == {i \in DOMAIN samples : samples[i] > 0}
        sorted == Ranked(positives, samples)
        rank == DivUp(3 * Cardinality(positives), 4)
    IN  IF positives = {} THEN {} ELSE {samples[sorted[rank]]}

PriorityFeeLamports(microPerUnit) ==
    IF microPerUnit * ComputeUnitLimit > MaxRaw THEN {}
    ELSE {DivUp(microPerUnit * ComputeUnitLimit, MicroPerLamport)}

\* Mutant: the conversion is rounded down.
LamportsToStableDown(lamports, sol, stable) ==
    LET delta == sol.exponent - stable.exponent
        up == IF delta > 0 THEN PowerOfTen[delta] ELSE 1
        down == IF delta < 0 THEN PowerOfTen[Magnitude(delta)] ELSE 1
    IN  IF sol.price > 0 /\ stable.price > stable.confidence
        THEN CheckedRaw((lamports * (sol.price + sol.confidence) * StableScale * up)
                         \div (LamportsPerSol * (stable.price - stable.confidence) * down))
        ELSE {}

\* SOL is taken at its highest, the stable coin at its lowest, rounded up.
ConservativeLamportsToStable(lamports, sol, stable) ==
    LET delta == sol.exponent - stable.exponent
        up == IF delta > 0 THEN PowerOfTen[delta] ELSE 1
        down == IF delta < 0 THEN PowerOfTen[Magnitude(delta)] ELSE 1
    IN  IF sol.price > 0 /\ stable.price > stable.confidence
        THEN CheckedRaw(DivUp(lamports * (sol.price + sol.confidence) * StableScale * up,
                              LamportsPerSol * (stable.price - stable.confidence) * down))
        ELSE {}

\* prices: the accepted price, or {}, of each of the three anchors.
LamportsToAnchor(lamports, anchor, prices) ==
    IF anchor = "WSOL" THEN {lamports}
    ELSE UNION {ConservativeLamportsToStable(lamports, sol, stable) :
                    sol \in prices["WSOL"], stable \in prices[anchor]}

ModeledPriorityFee(anchor, samples, prices) ==
    UNION {LamportsToAnchor(lamports, anchor, prices) :
        lamports \in UNION {PriorityFeeLamports(micro) : micro \in SelectPriorityFee(samples)}}

\* The whole model is refused if the lamports of the selected fee overflow.
CostModelFails(samples) ==
    \E micro \in SelectPriorityFee(samples) : PriorityFeeLamports(micro) = {}

\* No policy has been adopted for what is unknown whatever was observed.
EconomicsCostModel(anchor, samples, prices) ==
    [base_fee |-> LamportsToAnchor(BaseFeeLamports, anchor, prices),
     priority_fee |-> ModeledPriorityFee(anchor, samples, prices),
     submission_cost |-> {}, expected_failure_cost |-> {}, safety_reserve |-> {},
     capital_cost |-> {}, borrowing_cost |-> {0}]

(***************************************************************************)
(* Expected net                                                            *)
(***************************************************************************)
FundingModes == {"treasury", "flash"}

FundingCost(costs, mode) ==
    IF mode = "treasury" THEN costs.capital_cost ELSE costs.borrowing_cost

\* The sum of the five common costs; one that is unknown leaves it unknown.
ResolvedCommonCost(costs) ==
    UNION {CheckedRaw(base + priority + submission + failure + reserve) :
             base \in costs.base_fee, priority \in costs.priority_fee,
             submission \in costs.submission_cost,
             failure \in costs.expected_failure_cost, reserve \in costs.safety_reserve}

EvaluateExpectedNet(quote, costs, mode) ==
    IF quote.requested = 0 THEN {}
    ELSE {quote.anchor_output - quote.requested - (common + funding) :
             common \in ResolvedCommonCost(costs), funding \in FundingCost(costs, mode)}
=============================================================================
