--------------------------- MODULE PumpSwapQuote ----------------------------
(***************************************************************************)
(* The exact-input quote of a PumpSwap pool (pumpswap.rs).  Selling base   *)
(* takes three fees from the output; buying base puts them on top of what  *)
(* the curve asks for, so the input the curve may see is searched for and  *)
(* part of the budget can be left over.                                    *)
(*                                                                         *)
(* A quote is a set with at most one element: empty for Err.  A snapshot   *)
(* is a record [base_mint, quote_mint, base, quote, supply, tradable,      *)
(* canonical, coin_creator, flat, tiers] where coin_creator is "none" (not *)
(* in the account), "default" or "set", and fees are [lp, protocol,        *)
(* creator] in basis points.  quote is the effective reserve: the vault    *)
(* and the virtual part.                                                   *)
(***************************************************************************)
EXTENDS Integers, Sequences

CONSTANT FeeBpsDenominator      \* FEE_BPS_DENOMINATOR, 10_000 in the code

ASSUME FeeBpsAssumption == FeeBpsDenominator \in Nat \ {0}

RoundUpDiv(numerator, denominator) ==
    IF numerator = 0 THEN 0 ELSE (numerator - 1) \div denominator + 1

FeeBpsCeil(amount, bps) == RoundUpDiv(amount * bps, FeeBpsDenominator)

PoolMarketCap(s) == (s.quote * s.supply) \div s.base

\* A canonical pool pays by market cap, any other pool the flat fees.
SelectFees(s) ==
    LET reached == {i \in DOMAIN s.tiers : PoolMarketCap(s) >= s.tiers[i].threshold}
        tier == IF reached = {} THEN 1 ELSE CHOOSE i \in reached : \A j \in reached : j <= i
    IN  IF s.canonical THEN s.tiers[tier].fees ELSE s.flat

\* The creator's share is dropped if the pool has no coin creator.
EffectiveFees(s) ==
    [SelectFees(s) EXCEPT !.creator = IF s.coin_creator = "set" THEN @ ELSE 0]

PumpSwapQuotable(s, amount) ==
    /\ amount > 0
    /\ s.base > 0 /\ s.quote > 0
    /\ s.tradable
    /\ s.canonical => s.tiers # << >>
    /\ s.coin_creator # "none"
    /\ LET f == EffectiveFees(s) IN f.lp + f.protocol + f.creator <= FeeBpsDenominator

AllFees(f, amount) ==
    FeeBpsCeil(amount, f.lp) + FeeBpsCeil(amount, f.protocol) + FeeBpsCeil(amount, f.creator)

PumpQuote(f, taxed, requested, consumed, out) ==
    [requested |-> requested, consumed |-> consumed, unspent |-> requested - consumed,
     out |-> out, lp |-> FeeBpsCeil(taxed, f.lp),
     protocol |-> FeeBpsCeil(taxed, f.protocol), creator |-> FeeBpsCeil(taxed, f.creator)]

QuoteBaseInput(s, amount) ==
    LET f == EffectiveFees(s)
        rawQuoteOut == (s.quote * amount) \div (s.base + amount)
        out == rawQuoteOut - AllFees(f, rawQuoteOut)
    IN  IF rawQuoteOut > 0 /\ out > 0
        THEN {PumpQuote(f, rawQuoteOut, amount, amount, out)} ELSE {}

\* Mutant: the three fees are rounded up as one.
MaxCurveInputByOneFee(f, amount) ==
    (amount * FeeBpsDenominator) \div (FeeBpsDenominator + f.lp + f.protocol + f.creator)

\* The search for the largest curve input whose fees still fit the budget.
MaxCurveInputForBudget(f, amount) ==
    LET search[range \in Nat \X Nat] ==
          LET low == range[1]
              high == range[2]
              midpoint == low + (high - low) \div 2 + ((high - low) % 2)
          IN  IF low >= high THEN low
              ELSE IF midpoint + AllFees(f, midpoint) <= amount
                   THEN search[<<midpoint, high>>]
                   ELSE search[<<low, midpoint - 1>>]
    IN  search[<<0, amount>>]

BaseOut(s, curveInput) == (s.base * curveInput) \div (s.quote + curveInput)

\* Mutant: what the curve asks for is rounded down.
RawQuoteRequiredDown(s, baseOut) == (s.quote * baseOut) \div (s.base - baseOut)

\* What the curve asks for that output, which may be less than was offered.
RawQuoteRequired(s, baseOut) == RoundUpDiv(s.quote * baseOut, s.base - baseOut)

QuoteQuoteInput(s, amount) ==
    LET f == EffectiveFees(s)
        curveInput == MaxCurveInputForBudget(f, amount)
        baseOut == BaseOut(s, curveInput)
        required == RawQuoteRequired(s, baseOut)
        consumed == required + AllFees(f, required)
    IN  IF /\ curveInput > 0
           /\ baseOut > 0 /\ baseOut < s.base
           /\ consumed <= amount
        THEN {PumpQuote(f, required, amount, consumed, baseOut)} ELSE {}

PumpSwapQuoteExactInput(s, inputMint, amount) ==
    IF ~PumpSwapQuotable(s, amount) THEN {}
    ELSE CASE inputMint = s.base_mint -> QuoteBaseInput(s, amount)
           [] inputMint = s.quote_mint -> QuoteQuoteInput(s, amount)
           [] OTHER -> {}
=============================================================================
