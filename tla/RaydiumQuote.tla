---------------------------- MODULE RaydiumQuote ----------------------------
(***************************************************************************)
(* The exact-input quote of a Raydium CPMM pool (raydium.rs).              *)
(*                                                                         *)
(* A quote is a set with at most one element: it is empty when the code    *)
(* returns Err.  A snapshot is a record                                    *)
(*    [mint_0, mint_1, effective : mints -> Nat, creator_fee_on : 0..2,    *)
(*     enable_creator_fee, trade_fee_rate, protocol_fee_rate,              *)
(*     fund_fee_rate, creator_fee_rate]                                    *)
(* as parse_hydration_response builds it: the token programs are           *)
(* supported and creator_fee_on is one the decoder accepts.                *)
(***************************************************************************)
EXTENDS Integers

CONSTANT FeeRateDenominator     \* FEE_RATE_DENOMINATOR, 1_000_000 in the code

ASSUME FeeRateAssumption == FeeRateDenominator \in Nat \ {0}

\* Amounts are u64 and every product is taken in u128, which none exceeds.
CeilDiv(numerator, denominator) ==
    IF numerator = 0 THEN 0 ELSE (numerator - 1) \div denominator + 1

FeeCeil(amount, rate) == CeilDiv(amount * rate, FeeRateDenominator)

FeeFloor(amount, rate, denominator) == (amount * rate) \div denominator

\* Mutant: the input is not counted into the reserve it is added to.
OutputAtSpotPrice(amountIn, inputReserve, outputReserve) ==
    (amountIn * outputReserve) \div inputReserve

ConstantProductOutput(amountIn, inputReserve, outputReserve) ==
    (amountIn * outputReserve) \div (inputReserve + amountIn)

CreatorFeeOnInput(s, inputMint) ==
    \/ s.creator_fee_on = 0
    \/ s.creator_fee_on = 1 /\ inputMint = s.mint_0
    \/ s.creator_fee_on = 2 /\ inputMint = s.mint_1

CreatorFeeRate(s) == IF s.enable_creator_fee THEN s.creator_fee_rate ELSE 0

RatesAreValid(s) ==
    /\ s.trade_fee_rate <= FeeRateDenominator
    /\ s.creator_fee_rate <= FeeRateDenominator
    /\ s.protocol_fee_rate + s.fund_fee_rate <= FeeRateDenominator

(***************************************************************************)
(* What is taken from the input before it reaches the curve.  If the       *)
(* creator is paid in the input token, one fee is rounded up for both and  *)
(* then shared; the creator's part is rounded down.                        *)
(***************************************************************************)
FeesOnInput(s, amount) ==
    LET combined == s.trade_fee_rate + CreatorFeeRate(s)
        total == FeeCeil(amount, combined)
        creator == IF combined = 0 THEN 0
                   ELSE FeeFloor(total, CreatorFeeRate(s), combined)
    IN  [trade |-> total - creator, creator |-> creator, curve |-> amount - total]

TradeFeeOnly(s, amount) ==
    LET fee == FeeCeil(amount, s.trade_fee_rate)
    IN  [trade |-> fee, creator |-> 0, curve |-> amount - fee]

InputSplit(s, inputMint, amount) ==
    IF CreatorFeeOnInput(s, inputMint)
    THEN FeesOnInput(s, amount) ELSE TradeFeeOnly(s, amount)

RaydiumQuotable(s, inputMint, amount) ==
    /\ amount > 0
    /\ inputMint \in {s.mint_0, s.mint_1}
    /\ s.effective[s.mint_0] > 0 /\ s.effective[s.mint_1] > 0
    /\ RatesAreValid(s)
    /\ CreatorFeeOnInput(s, inputMint)
          => s.trade_fee_rate + CreatorFeeRate(s) < FeeRateDenominator
    /\ InputSplit(s, inputMint, amount).curve > 0

RaydiumQuoteExactInput(s, inputMint, amount) ==
    LET outputMint == IF inputMint = s.mint_0 THEN s.mint_1 ELSE s.mint_0
        split == InputSplit(s, inputMint, amount)
        curveOutput == ConstantProductOutput(
                          split.curve, s.effective[inputMint], s.effective[outputMint])
        creatorOnOutput == IF CreatorFeeOnInput(s, inputMint) THEN 0
                           ELSE FeeCeil(curveOutput, CreatorFeeRate(s))
        quote == [requested |-> amount, consumed |-> amount, unspent |-> 0,
                  out |-> curveOutput - creatorOnOutput,
                  trade |-> split.trade,
                  protocol |-> FeeFloor(split.trade, s.protocol_fee_rate, FeeRateDenominator),
                  fund |-> FeeFloor(split.trade, s.fund_fee_rate, FeeRateDenominator),
                  creator |-> split.creator + creatorOnOutput]
    IN  IF RaydiumQuotable(s, inputMint, amount) /\ quote.out > 0 THEN {quote} ELSE {}
=============================================================================
