------------------------------ MODULE DlmmBins ------------------------------
(***************************************************************************)
(* meteora.rs and meteora_m8.rs: the arithmetic of one bin of a Meteora    *)
(* DLMM pool.                                                              *)
(*                                                                         *)
(* A pair is what an LbPair account holds, a bin what its array holds.     *)
(* Fees are paid either out of what is put in or out of what is taken out. *)
(* A bin is emptied layer by layer: the market makers, then the limit      *)
(* orders already being processed, then the open ones.                     *)
(*                                                                         *)
(* An Err is the empty set, a result a set of one element.  Every Err here *)
(* is the code's ArithmeticOverflow: a quotient that does not fit in u64,  *)
(* a sum or a power that does not fit its width, a difference below zero.  *)
(* The code's products of a u64 and a rate or a share are u128 and fit,    *)
(* which WidthAssumption says; they are not checked here.                  *)
(***************************************************************************)
EXTENDS DlmmArrays, PowersOfTen

CONSTANTS
    FeePrecision,            \* FEE_PRECISION, 10^9
    MaxFeeRate,              \* MAX_FEE_RATE, 10^8
    VariableFeeDenominator,  \* VARIABLE_FEE_DENOMINATOR
    BasisPointMax,           \* BASIS_POINT_MAX, 10^4
    LimitOrderFeeShare,      \* LIMIT_ORDER_FEE_SHARE
    PriceOne,                \* the price 1, 2^64
    MaxU32, MaxU64, MaxU128  \* u32::MAX, u64::MAX, u128::MAX

ASSUME DlmmAssumption ==
    /\ FeePrecision \in Nat /\ MaxFeeRate \in Nat /\ MaxFeeRate < FeePrecision
    /\ VariableFeeDenominator \in Nat \ {0} /\ BasisPointMax \in Nat \ {0}
    /\ LimitOrderFeeShare \in 0 .. BasisPointMax
    /\ PriceOne \in Nat \ {0}

ASSUME WidthAssumption ==
    /\ MaxU32 \in Nat /\ MaxU64 \in Nat /\ MaxU128 \in Nat
    /\ FeePrecision <= MaxU32 /\ BasisPointMax <= MaxU32 /\ MaxU32 <= MaxU64
    /\ MaxU64 * (MaxU32 + 1) <= MaxU128

U32 == 0 .. MaxU32

U64 == 0 .. MaxU64

U128 == 0 .. MaxU128

I64 == -((MaxU64 + 1) \div 2) .. MaxU64 \div 2

\* What a conversion or a checked operation gives that may be too large.
Checked(value, max) == {v \in {value} : v <= max}

DivDown(n, d) == n \div d

DivUp(n, d) == (n + d - 1) \div d

LesserOf(a, b) == IF a < b THEN a ELSE b

Bins == [price : U128, amount_x : U64, amount_y : U64, limit_order_ask_side : BOOLEAN,
         processed_order_remaining_amount : U64, open_order_amount : U64]

(***************************************************************************)
(* Fees                                                                    *)
(***************************************************************************)
\* meteora_base_fee_rate: any u8 may be the power.
BaseFeeRate(pair) ==
    LET power == PowerOfTen[pair.base_fee_power_factor]
    IN  {rate \in {pair.base_factor * pair.bin_step * 10 * power} :
            power <= MaxU128 /\ rate <= MaxU128}

Pairs ==
    [active_id : Int, collect_fee_mode : U32, base_factor : U32, bin_step : U32,
     base_fee_power_factor : U32, variable_fee_control : U32, protocol_share : U32,
     max_volatility_accumulator : U32, volatility_accumulator : U32,
     volatility_reference : U32, index_reference : Int, last_update_timestamp : Int,
     filter_period : U32, decay_period : U32, reduction_factor : U32]

VariableFeeRate(pair, volatility) ==
    LET stepped == volatility * pair.bin_step
        numerator == pair.variable_fee_control * stepped * stepped + VariableFeeDenominator - 1
    IN  IF pair.variable_fee_control = 0 THEN {0}
        ELSE {DivDown(n, VariableFeeDenominator) : n \in Checked(numerator, MaxU128)}

FeeRateSums(pair, volatility) ==
    {base + variable : base \in BaseFeeRate(pair), variable \in VariableFeeRate(pair, volatility)}

TotalFeeRate(pair, volatility) ==
    {LesserOf(rate, MaxFeeRate) : rate \in FeeRateSums(pair, volatility) \cap U128}

\* The fee on top of an amount, and the fee inside of one.
ComputeFee(rate, amount) == DivUp(amount * rate, FeePrecision - rate)

ComputeFeeFromAmount(rate, amount) == DivUp(amount * rate, FeePrecision)

\* meteora_fee_on_input: mode 0 takes fees from the input, mode 1 always in Y.
FeeOnInput(pair, swapForY) ==
    CASE pair.collect_fee_mode = 0 -> {TRUE}
      [] pair.collect_fee_mode = 1 -> {~swapForY}
      [] OTHER -> {}

\* meteora_update_volatility_reference: a pool left alone forgets.
VolatilityReference(pair, now) ==
    LET elapsed == now - pair.last_update_timestamp
        decayed == DivDown(pair.volatility_accumulator * pair.reduction_factor, BasisPointMax)
        reference ==
            IF elapsed < pair.filter_period
            THEN [reference |-> pair.volatility_reference, index |-> pair.index_reference]
            ELSE [reference |-> IF elapsed < pair.decay_period THEN decayed ELSE 0,
                  index |-> pair.active_id]
    IN  {r \in {reference} : elapsed \in I64 /\ r.reference <= MaxU32}

Distance(a, b) == IF a < b THEN b - a ELSE a - b

VolatilityAccumulator(pair, ref, bin) ==
    LesserOf(ref.reference + Distance(ref.index, bin) * BasisPointMax,
             pair.max_volatility_accumulator)

\* What of the trading fee the protocol keeps, ...
ProtocolFee(pair, fee, makersIn, totalIn) ==
    IF totalIn = 0 \/ fee = 0 THEN 0
    ELSE LET makersFee == DivUp(fee * makersIn, totalIn)
             ordersFee == fee - makersFee
         IN  ordersFee - DivDown(ordersFee * LimitOrderFeeShare, BasisPointMax)
             + DivDown(makersFee * pair.protocol_share, BasisPointMax)

\* ... meteora_split_fee: the rest is the user's, who cannot be left with less
\* than nothing.
SplitFee(pair, fee, makersIn, totalIn) ==
    {kept \in {ProtocolFee(pair, fee, makersIn, totalIn)} : kept <= fee}

(***************************************************************************)
(* One bin                                                                 *)
(***************************************************************************)
\* meteora_amount_out and meteora_amount_in, of a bin that has a price.
AmountOut(amount, price, swapForY) ==
    Checked(IF swapForY THEN DivDown(price * amount, PriceOne)
            ELSE DivDown(amount * PriceOne, price), MaxU64)

\* Mutant: what must be paid for a whole layer is rounded down.
AmountInDown(amount, price, swapForY) ==
    Checked(IF swapForY THEN DivDown(amount * PriceOne, price)
            ELSE DivDown(price * amount, PriceOne), MaxU64)

AmountIn(amount, price, swapForY) ==
    Checked(IF swapForY THEN DivUp(amount * PriceOne, price)
            ELSE DivUp(price * amount, PriceOne), MaxU64)

\* Mutant: what a whole layer costs is not deducted from what is left.
LayerForFree(amount, held, price, swapForY) ==
    IF held = 0 THEN {[in |-> 0, left |-> amount, out |-> 0]}
    ELSE {[in |-> LesserOf(amount, whole), left |-> IF amount <= whole THEN 0 ELSE amount,
           out |-> LesserOf(held, out)] :
             whole \in AmountIn(held, price, swapForY), out \in AmountOut(amount, price, swapForY)}

\* meteora_exact_in_fill_layer: the whole layer is priced before anything of it
\* is taken, so that a layer too dear for a u64 fails the smallest of amounts.
FillLayer(amount, held, price, swapForY) ==
    IF held = 0 THEN {[in |-> 0, left |-> amount, out |-> 0]}
    ELSE UNION {IF amount >= whole
                THEN {[in |-> whole, left |-> amount - whole, out |-> held]}
                ELSE {[in |-> amount, left |-> 0, out |-> out] :
                         out \in AmountOut(amount, price, swapForY)} :
                   whole \in AmountIn(held, price, swapForY)}

\* One layer more; what is taken in is part of the amount, what is taken out may
\* be too much for a u64.
AfterLayer(fill, held, price, swapForY) ==
    {[in |-> fill.in + layer.in, left |-> layer.left, out |-> fill.out + layer.out,
      makers |-> fill.makers] :
        layer \in {l \in FillLayer(fill.left, held, price, swapForY) : fill.out + l.out <= MaxU64}}

MakersHold(bin, swapForY) == IF swapForY THEN bin.amount_y ELSE bin.amount_x

\* The limit orders of a bin sell one of the two tokens.
OrdersMatch(bin, swapForY) == swapForY # bin.limit_order_ask_side

OrdersHold(bin, swapForY) ==
    IF OrdersMatch(bin, swapForY)
    THEN [processed |-> bin.processed_order_remaining_amount, open |-> bin.open_order_amount]
    ELSE [processed |-> 0, open |-> 0]

\* meteora_exact_in_fill_at_bin: a bin whose price the program has not stored yet
\* is an error; a layer is asked only for what is left.
FillAtBin(bin, amount, swapForY, limitOrders) ==
    LET orders == OrdersHold(bin, swapForY)
        Then(fills, held) ==
            UNION {AfterLayer(fill, IF fill.left > 0 /\ limitOrders THEN held ELSE 0,
                              bin.price, swapForY) : fill \in fills}
        makers == {[in |-> layer.in, left |-> layer.left, out |-> layer.out,
                    makers |-> layer.in] :
                      layer \in FillLayer(amount, MakersHold(bin, swapForY), bin.price, swapForY)}
    IN  IF bin.price = 0 THEN {} ELSE Then(Then(makers, orders.processed), orders.open)

NothingFilled == [consumed |-> 0, out |-> 0, fee |-> 0, protocol |-> 0]

\* fill_bin_exact_in: what a fill takes of the input, ...
InputAccounting(pair, fill, amount, insideFee, rate) ==
    LET fee == IF fill.left = 0 THEN insideFee ELSE ComputeFee(rate, fill.in)
        consumed == IF fill.left = 0 THEN amount ELSE fill.in + fee
    IN  IF fill.in = 0 THEN {NothingFilled}
        ELSE IF consumed > amount THEN {}
        ELSE {[consumed |-> consumed, out |-> fill.out, fee |-> fee, protocol |-> kept] :
                 kept \in SplitFee(pair, fee, fill.makers, fill.in)}

\* ... or leaves of the output.
OutputAccounting(pair, fill, rate) ==
    LET fee == ComputeFeeFromAmount(rate, fill.out)
    IN  IF fee > fill.out THEN {}
        ELSE {[consumed |-> fill.in, out |-> fill.out - fee, fee |-> fee, protocol |-> kept] :
                 kept \in SplitFee(pair, fee, fill.makers, fill.in)}

FilledWithFeeOnInput(pair, bin, amount, swapForY, limitOrders, rate) ==
    LET insideFee == ComputeFeeFromAmount(rate, amount)
    IN  IF insideFee > amount THEN {}
        ELSE UNION {InputAccounting(pair, fill, amount, insideFee, rate) :
                       fill \in FillAtBin(bin, amount - insideFee, swapForY, limitOrders)}

\* The rate is only asked for when something was filled.
FilledWithFeeOnOutput(pair, bin, amount, swapForY, limitOrders, volatility) ==
    UNION {IF fill.in = 0 THEN {NothingFilled}
           ELSE UNION {OutputAccounting(pair, fill, rate) : rate \in TotalFeeRate(pair, volatility)} :
              fill \in FillAtBin(bin, amount, swapForY, limitOrders)}

FillBin(pair, bin, amount, swapForY, limitOrders, feeOnInput, volatility) ==
    IF amount = 0 THEN {NothingFilled}
    ELSE IF feeOnInput
    THEN UNION {FilledWithFeeOnInput(pair, bin, amount, swapForY, limitOrders, rate) :
                   rate \in TotalFeeRate(pair, volatility)}
    ELSE FilledWithFeeOnOutput(pair, bin, amount, swapForY, limitOrders, volatility)
=============================================================================
