-------------------------- MODULE DlmmSwap_proofs --------------------------
(***************************************************************************)
(* Proofs about DlmmSwap: for every pool, amount and constant, a walk      *)
(* stays in the bins it has read and its totals in u64, passes no          *)
(* initialized array, takes no more than the bins hold and no better than  *)
(* their best price, and fails with an overflow only on what an account    *)
(* says; and the message compiled from the accounts of a swap says to a    *)
(* validator what was planned.                                             *)
(***************************************************************************)
EXTENDS DlmmSwap, IntegerFacts, TLAPS

(***************************************************************************)
(* Quotients and fees                                                      *)
(***************************************************************************)
\* What is rounded up is a quotient that is large enough, ...
LEMMA DivUpBounds ==
    ASSUME NEW n \in Nat, NEW d \in Nat \ {0}
    PROVE  DivUp(n, d) \in Nat /\ n <= d * DivUp(n, d)
<1>1. n + d - 1 \in Nat
  OBVIOUS
<1>2. (n + d - 1) \div d \in Nat /\ n + d - 1 < d * ((n + d - 1) \div d) + d
  BY <1>1, DivBounds
<1>3. d * ((n + d - 1) \div d) \in Nat
  BY <1>2, ProductIsNat
<1> QED
  BY <1>2, <1>3 DEF DivUp

\* ... and the least such.
LEMMA DivUpIsLeast ==
    ASSUME NEW n \in Nat, NEW d \in Nat \ {0}, NEW k \in Nat, n <= k * d
    PROVE  DivUp(n, d) <= k
<1> DEFINE q == (n + d - 1) \div d
<1>1. n + d - 1 \in Nat
  OBVIOUS
<1>2. q \in Nat /\ d * q <= n + d - 1
  BY <1>1, DivBounds
<1>3. d * q = q * d /\ q * d \in Nat /\ k * d \in Nat
  BY <1>2, Commutes, ProductIsNat
<1>4. (k + 1) * d = k * d + d
  BY Distributes
<1>5. q * d < (k + 1) * d
  BY <1>2, <1>3, <1>4
<1>6. q < k + 1
  BY <1>2, <1>5, Cancels
<1> QED
  BY <1>2, <1>6 DEF DivUp

LEMMA DivDownIsNat ==
    ASSUME NEW n \in Nat, NEW d \in Nat \ {0}
    PROVE  DivDown(n, d) \in Nat /\ d * DivDown(n, d) <= n
BY DivBounds DEF DivDown

\* A share of at most the whole is no more than the whole.
LEMMA ShareIsPart ==
    ASSUME NEW n \in Nat, NEW s \in Nat, NEW d \in Nat \ {0}, s <= d
    PROVE  DivUp(n * s, d) \in 0 .. n /\ DivDown(n * s, d) \in 0 .. n
<1>1. n * s \in Nat /\ n * d \in Nat /\ s * n <= d * n /\ n * s = s * n /\ n * d = d * n
  BY ProductIsNat, Commutes, ProductIsMonotone
<1>2. n * s <= n * d
  BY <1>1
<1>3. DivUp(n * s, d) \in Nat /\ DivUp(n * s, d) <= n
  BY <1>1, <1>2, DivUpBounds, DivUpIsLeast
<1>4. DivDown(n * s, d) \in Nat /\ d * DivDown(n * s, d) <= n * s
  BY <1>1, DivDownIsNat
<1> DEFINE q == DivDown(n * s, d)
<1>5. q * d < (n + 1) * d
  <2>1. (n + 1) * d = n * d + d
    BY Distributes
  <2>2. q * d = d * q /\ d * q \in Nat
    BY <1>4, Commutes, ProductIsNat
  <2> HIDE DEF q
  <2> QED
    BY <1>1, <1>2, <1>4, <2>1, <2>2 DEF q
<1>6. q < n + 1
  BY <1>4, <1>5, Cancels
<1> QED
  BY <1>3, <1>4, <1>6

\* What the accounts hold is unsigned.
LEMMA WidthsAreNat == U32 \subseteq Nat /\ U64 \subseteq Nat /\ U128 \subseteq Nat
BY WidthAssumption DEF U32, U64, U128

LEMMA PairsAreNat ==
    ASSUME NEW pair \in Pairs
    PROVE  /\ pair.base_factor \in Nat /\ pair.bin_step \in Nat
           /\ pair.base_fee_power_factor \in Nat /\ pair.variable_fee_control \in Nat
           /\ pair.protocol_share \in Nat /\ pair.max_volatility_accumulator \in Nat
           /\ pair.volatility_accumulator \in Nat /\ pair.volatility_reference \in Nat
           /\ pair.reduction_factor \in Nat /\ pair.index_reference \in Int
           /\ pair.active_id \in Int
BY WidthsAreNat DEF Pairs

LEMMA BinsAreNat ==
    ASSUME NEW bin \in Bins, NEW swapForY
    PROVE  /\ bin.price \in Nat /\ MakersHold(bin, swapForY) \in U64
           /\ OrdersHold(bin, swapForY).processed \in U64
           /\ OrdersHold(bin, swapForY).open \in U64
<1>1. 0 \in U64
  BY WidthAssumption DEF U64
<1> QED
  BY <1>1, WidthsAreNat DEF Bins, MakersHold, OrdersHold

\* The fee rate is capped, ...
LEMMA RateIsCapped ==
    ASSUME NEW pair \in Pairs, NEW volatility \in Nat, NEW rate \in TotalFeeRate(pair, volatility)
    PROVE  rate \in Nat /\ rate < FeePrecision
<1>1. PICK sum \in FeeRateSums(pair, volatility) \cap U128 : rate = LesserOf(sum, MaxFeeRate)
  BY DEF TotalFeeRate
<1>2. sum \in Nat
  BY <1>1, WidthsAreNat
<1> QED
  BY <1>1, <1>2, DlmmAssumption DEF LesserOf

LEMMA VolatilityIsNat ==
    ASSUME NEW pair \in Pairs, NEW now, NEW reference \in VolatilityReference(pair, now),
           NEW bin \in Int
    PROVE  VolatilityAccumulator(pair, reference, bin) \in Nat
<1>1. /\ pair.volatility_reference \in Nat /\ pair.index_reference \in Int
      /\ pair.active_id \in Int /\ pair.max_volatility_accumulator \in Nat
      /\ pair.volatility_accumulator \in Nat /\ pair.reduction_factor \in Nat
  BY PairsAreNat
<1>2. pair.volatility_accumulator * pair.reduction_factor \in Nat
  BY <1>1, ProductIsNat
<1>3. DivDown(pair.volatility_accumulator * pair.reduction_factor, BasisPointMax) \in Nat
  BY <1>2, DivDownIsNat, DlmmAssumption
<1>4. reference.reference \in Nat /\ reference.index \in Int
  BY <1>1, <1>3 DEF VolatilityReference
<1>5. Distance(reference.index, bin) \in Nat
  BY <1>4 DEF Distance
<1>6. Distance(reference.index, bin) * BasisPointMax \in Nat
  BY <1>5, ProductIsNat, DlmmAssumption
<1> QED
  BY <1>1, <1>4, <1>6 DEF VolatilityAccumulator, LesserOf

\* ... so that a fee inside of an amount is part of it, and what it leaves is
\* enough to pay for whatever is bought with it and the fee on top of that.
LEMMA FeeFits ==
    ASSUME NEW rate \in Nat, rate < FeePrecision,
           NEW amount \in Nat, NEW in \in Nat,
           in <= amount - ComputeFeeFromAmount(rate, amount)
    PROVE  ComputeFee(rate, in) \in Nat /\ in + ComputeFee(rate, in) <= amount
<1> DEFINE P == FeePrecision
           d == P - rate
           inside == DivUp(amount * rate, P)
<1>1. P \in Nat \ {0} /\ d \in Nat \ {0} /\ d = P - rate
  BY DlmmAssumption
<1>2. amount * rate \in Nat /\ in * rate \in Nat /\ in * d \in Nat /\ in * P \in Nat
      /\ amount * P \in Nat /\ amount * d \in Nat
  BY <1>1, ProductIsNat
<1>3. inside \in 0 .. amount /\ amount * rate <= P * inside
  <2>1. rate <= P
    BY <1>1
  <2> HIDE DEF P, d
  <2>2. inside \in 0 .. amount
    BY <1>1, <2>1, ShareIsPart
  <2>3. amount * rate <= P * inside
    BY <1>1, <1>2, DivUpBounds
  <2> QED
    BY <2>2, <2>3
<1>4. in <= amount - inside
  BY DEF ComputeFeeFromAmount
<1> HIDE DEF P, d, inside
<1>5. in + inside <= amount /\ amount - in \in Nat
  BY <1>3, <1>4
<1>6. (in + inside) * P <= amount * P
  BY <1>1, <1>3, <1>5, ProductIsMonotone
<1>7. /\ (in + inside) * P = in * P + inside * P
      /\ inside * P = P * inside /\ P * inside \in Nat
  BY <1>1, <1>3, Distributes, Commutes, ProductIsNat
<1>8. in * P = in * d + in * rate /\ amount * P = amount * d + amount * rate
  <2>1. (d + rate) * in = d * in + rate * in /\ (d + rate) * amount = d * amount + rate * amount
    BY <1>1, Distributes
  <2>2. d * in = in * d /\ rate * in = in * rate /\ (d + rate) * in = in * (d + rate)
    BY <1>1, Commutes
  <2>3. d * amount = amount * d /\ rate * amount = amount * rate
        /\ (d + rate) * amount = amount * (d + rate)
    BY <1>1, Commutes
  <2>4. d + rate = P
    BY <1>1
  <2> QED
    BY <2>1, <2>2, <2>3, <2>4
<1>9. (amount - in) * d = amount * d - in * d
  <2>1. ((amount - in) + in) * d = (amount - in) * d + in * d
    BY <1>1, <1>5, Distributes
  <2>2. (amount - in) + in = amount
    BY <1>5
  <2>3. (amount - in) * d \in Nat
    BY <1>1, <1>5, ProductIsNat
  <2> QED
    BY <1>2, <2>1, <2>2, <2>3
<1>10. in * rate <= (amount - in) * d
  BY <1>2, <1>3, <1>6, <1>7, <1>8, <1>9
<1>11. DivUp(in * rate, d) \in Nat /\ DivUp(in * rate, d) <= amount - in
  BY <1>1, <1>2, <1>5, <1>10, DivUpBounds, DivUpIsLeast
<1> QED
  BY <1>11, <1>5 DEF ComputeFee, d, P

LEMMA FeeInside ==
    ASSUME NEW rate \in Nat, rate < FeePrecision, NEW amount \in Nat
    PROVE  ComputeFeeFromAmount(rate, amount) \in 0 .. amount
<1>1. FeePrecision \in Nat \ {0} /\ rate <= FeePrecision
  BY DlmmAssumption
<1> QED
  BY <1>1, ShareIsPart DEF ComputeFeeFromAmount

\* What the protocol keeps is a part of the fee if its share is one of the whole.
LEMMA ProtocolKeepsAPart ==
    ASSUME NEW pair \in Pairs, NEW fee \in Nat, NEW total \in Nat, NEW makers \in 0 .. total
    PROVE  /\ ProtocolFee(pair, fee, makers, total) \in Nat
           /\ pair.protocol_share <= BasisPointMax => ProtocolFee(pair, fee, makers, total) <= fee
<1>1. CASE total = 0 \/ fee = 0
  BY <1>1 DEF ProtocolFee
<1>2. CASE ~(total = 0 \/ fee = 0)
  <2> DEFINE makersFee == DivUp(fee * makers, total)
             ordersFee == fee - makersFee
             share == pair.protocol_share
  <2>1. makersFee \in 0 .. fee
    <3>1. makers \in Nat /\ makers <= total /\ total \in Nat \ {0}
      BY <1>2
    <3> QED
      BY <3>1, ShareIsPart
  <2>2. ordersFee \in Nat /\ makersFee \in Nat /\ ordersFee + makersFee = fee
    BY <2>1
  <2>3. share \in Nat /\ BasisPointMax \in Nat \ {0}
    BY DlmmAssumption, PairsAreNat
  <2> HIDE DEF makersFee, ordersFee, share
  <2>4. DivDown(ordersFee * LimitOrderFeeShare, BasisPointMax) \in 0 .. ordersFee
    <3>1. LimitOrderFeeShare \in Nat /\ LimitOrderFeeShare <= BasisPointMax
      BY DlmmAssumption
    <3> QED
      BY <2>2, <2>3, <3>1, ShareIsPart
  <2>5. makersFee * share \in Nat
    BY <2>2, <2>3, ProductIsNat
  <2>6. DivDown(makersFee * share, BasisPointMax) \in Nat
    BY <2>3, <2>5, DivDownIsNat
  <2>7. share <= BasisPointMax => DivDown(makersFee * share, BasisPointMax) \in 0 .. makersFee
    BY <2>2, <2>3, ShareIsPart
  <2>8. ProtocolFee(pair, fee, makers, total) =
          ordersFee - DivDown(ordersFee * LimitOrderFeeShare, BasisPointMax)
          + DivDown(makersFee * share, BasisPointMax)
    BY <1>2 DEF ProtocolFee, makersFee, ordersFee, share
  <2> QED
    BY <2>2, <2>4, <2>6, <2>7, <2>8 DEF share
<1> QED
  BY <1>1, <1>2

LEMMA FeeIsSplit ==
    ASSUME NEW pair \in Pairs, NEW fee \in Nat, NEW total \in Nat, NEW makers \in 0 .. total
    PROVE  /\ \A kept \in SplitFee(pair, fee, makers, total) : kept \in Nat /\ kept <= fee
           /\ SplitFee(pair, fee, makers, total) = {} => pair.protocol_share > BasisPointMax
<1>1. pair.protocol_share \in Nat /\ BasisPointMax \in Nat
  BY DlmmAssumption, PairsAreNat
<1>2. /\ ProtocolFee(pair, fee, makers, total) \in Nat
      /\ pair.protocol_share <= BasisPointMax => ProtocolFee(pair, fee, makers, total) <= fee
  BY ProtocolKeepsAPart
<1> QED
  BY <1>1, <1>2 DEF SplitFee

(***************************************************************************)
(* One bin                                                                 *)
(***************************************************************************)
\* DlmmSwap's NoBetterThan and Holds, of a direction.
NoBetter(price, in, out, swapForY) ==
    IF swapForY THEN out * PriceOne <= in * price ELSE out * price <= in * PriceOne

Stored(bin, swapForY) ==
    MakersHold(bin, swapForY)
    + OrdersHold(bin, swapForY).processed + OrdersHold(bin, swapForY).open

LEMMA NothingIsNoBetter == \A price \in Nat, swapForY \in BOOLEAN : NoBetter(price, 0, 0, swapForY)
<1>1. PriceOne \in Nat /\ \A n \in Nat : 0 * n = 0
  BY DlmmAssumption
<1> QED
  BY <1>1 DEF NoBetter

LEMMA NoBetterAdds ==
    ASSUME NEW price \in Nat, NEW swapForY \in BOOLEAN,
           NEW in \in Nat, NEW out \in Nat, NEW in2 \in Nat, NEW out2 \in Nat,
           NoBetter(price, in, out, swapForY), NoBetter(price, in2, out2, swapForY)
    PROVE  NoBetter(price, in + in2, out + out2, swapForY)
<1>1. PriceOne \in Nat
  BY DlmmAssumption
<1>2. /\ in * price \in Nat /\ in2 * price \in Nat /\ out * price \in Nat /\ out2 * price \in Nat
      /\ in * PriceOne \in Nat /\ in2 * PriceOne \in Nat
      /\ out * PriceOne \in Nat /\ out2 * PriceOne \in Nat
  BY <1>1, ProductIsNat
<1>3. /\ (in + in2) * price = in * price + in2 * price
      /\ (out + out2) * price = out * price + out2 * price
      /\ (in + in2) * PriceOne = in * PriceOne + in2 * PriceOne
      /\ (out + out2) * PriceOne = out * PriceOne + out2 * PriceOne
  BY <1>1, Distributes
<1> QED
  BY <1>2, <1>3 DEF NoBetter

\* Of two prices one is at least as good as both.
LEMMA OneIsBest ==
    ASSUME NEW price \in Nat, NEW price2 \in Nat, NEW swapForY \in BOOLEAN,
           NEW in \in Nat, NEW out \in Nat, NEW in2 \in Nat, NEW out2 \in Nat,
           NoBetter(price, in, out, swapForY), NoBetter(price2, in2, out2, swapForY)
    PROVE  \E best \in {price, price2} : NoBetter(best, in + in2, out + out2, swapForY)
<1> DEFINE Weaker(p, q) == IF swapForY THEN p <= q ELSE q <= p
<1>1. PriceOne \in Nat
  BY DlmmAssumption
<1>2. ASSUME NEW p \in Nat, NEW q \in Nat, NEW i \in Nat, NEW o \in Nat, Weaker(p, q),
             NoBetter(p, i, o, swapForY)
      PROVE  NoBetter(q, i, o, swapForY)
  <2>1. /\ p * i = i * p /\ q * i = i * q /\ p * o = o * p /\ q * o = o * q
        /\ i * p \in Nat /\ i * q \in Nat /\ o * p \in Nat /\ o * q \in Nat
        /\ i * PriceOne \in Nat /\ o * PriceOne \in Nat
    BY <1>1, Commutes, ProductIsNat
  <2>2. /\ p <= q => i * p <= i * q
        /\ q <= p => o * q <= o * p
    BY <2>1, ProductIsMonotone
  <2> QED
    BY <1>2, <2>1, <2>2 DEF NoBetter
<1>3. CASE Weaker(price, price2)
  BY <1>2, <1>3, NoBetterAdds
<1>4. CASE Weaker(price2, price)
  BY <1>2, <1>4, NoBetterAdds
<1> QED
  BY <1>3, <1>4

\* What a layer costs and what a part of it gives, before either is checked.
CostOf(held, price, swapForY) ==
    IF swapForY THEN DivUp(held * PriceOne, price) ELSE DivUp(price * held, PriceOne)

PartOf(amount, price, swapForY) ==
    IF swapForY THEN DivDown(price * amount, PriceOne) ELSE DivDown(amount * PriceOne, price)

\* Where a layer fails, and the ways it is filled.
LEMMA LayerCases ==
    ASSUME NEW amount, NEW held, NEW price, NEW swapForY, held # 0
    PROVE  LET whole == CostOf(held, price, swapForY)
               part == PartOf(amount, price, swapForY)
           IN  FillLayer(amount, held, price, swapForY) =
                  IF ~(whole <= MaxU64) THEN {}
                  ELSE IF amount >= whole
                  THEN {[in |-> whole, left |-> amount - whole, out |-> held]}
                  ELSE IF part <= MaxU64 THEN {[in |-> amount, left |-> 0, out |-> part]}
                  ELSE {}
<1> DEFINE whole == CostOf(held, price, swapForY)
           part == PartOf(amount, price, swapForY)
<1>1. /\ AmountIn(held, price, swapForY) = IF whole <= MaxU64 THEN {whole} ELSE {}
      /\ AmountOut(amount, price, swapForY) = IF part <= MaxU64 THEN {part} ELSE {}
  BY DEF AmountIn, AmountOut, CostOf, PartOf, Checked
<1> DEFINE Parts == {[in |-> amount, left |-> 0, out |-> out] :
                        out \in AmountOut(amount, price, swapForY)}
           Taken(w) == IF amount >= w THEN {[in |-> w, left |-> amount - w, out |-> held]}
                       ELSE Parts
<1> HIDE DEF whole, part
<1>2. Parts = IF part <= MaxU64 THEN {[in |-> amount, left |-> 0, out |-> part]} ELSE {}
  BY <1>1
<1>3. FillLayer(amount, held, price, swapForY) =
        UNION {Taken(w) : w \in AmountIn(held, price, swapForY)}
  BY DEF FillLayer
<1> HIDE DEF Parts, Taken
<1>4. CASE whole <= MaxU64
  <2>1. {Taken(w) : w \in AmountIn(held, price, swapForY)} = {Taken(whole)}
    BY <1>1, <1>4
  <2>2. UNION {Taken(whole)} = Taken(whole)
    OBVIOUS
  <2>3. FillLayer(amount, held, price, swapForY) = Taken(whole)
    BY <1>3, <2>1, <2>2
  <2> QED
    BY <1>2, <1>4, <2>3 DEF Taken, whole, part
<1>5. CASE ~(whole <= MaxU64)
  <2>1. {Taken(w) : w \in AmountIn(held, price, swapForY)} = {}
    BY <1>1, <1>5
  <2> QED
    BY <1>3, <1>5, <2>1 DEF whole
<1> QED
  BY <1>4, <1>5

\* A layer takes what it uses from what is left, and no more than it holds is
\* taken from it, at its price or a worse one; it fails if it costs too much.
TakenFrom(layer, amount, held, price, swapForY) ==
    /\ layer.in \in Nat /\ layer.left \in Nat /\ layer.out \in Nat
    /\ layer.in + layer.left = amount
    /\ layer.out <= held /\ NoBetter(price, layer.in, layer.out, swapForY)

LEMMA LayerSplits ==
    ASSUME NEW amount \in Nat, NEW held \in U64, NEW price \in Nat \ {0},
           NEW swapForY \in BOOLEAN
    PROVE  /\ \A layer \in FillLayer(amount, held, price, swapForY) :
                 TakenFrom(layer, amount, held, price, swapForY)
           /\ FillLayer(amount, held, price, swapForY) = {} =>
                 held # 0 /\ AmountIn(held, price, swapForY) = {}
<1> DEFINE n == IF swapForY THEN PriceOne ELSE price
           d == IF swapForY THEN price ELSE PriceOne
           whole == DivUp(held * n, d)
           part == DivDown(amount * d, n)
           fills == FillLayer(amount, held, price, swapForY)
<1>0. held \in Nat /\ held <= MaxU64
  BY WidthAssumption DEF U64
<1>1. PriceOne \in Nat \ {0} /\ n \in Nat \ {0} /\ d \in Nat \ {0}
  BY DlmmAssumption
<1>2. \A in, out : NoBetter(price, in, out, swapForY) <=> out * n <= in * d
  BY DEF NoBetter
<1>3. CostOf(held, price, swapForY) = whole /\ PartOf(amount, price, swapForY) = part
  <2>1. price * held = held * price /\ price * amount = amount * price
    BY <1>0, Commutes
  <2> QED
    BY <2>1 DEF CostOf, PartOf
<1>4. held # 0 => fills = IF ~(whole <= MaxU64) THEN {}
                          ELSE IF amount >= whole
                          THEN {[in |-> whole, left |-> amount - whole, out |-> held]}
                          ELSE IF part <= MaxU64 THEN {[in |-> amount, left |-> 0, out |-> part]}
                          ELSE {}
  BY <1>3, LayerCases
<1>5. held = 0 => fills = {[in |-> 0, left |-> amount, out |-> 0]}
  BY DEF FillLayer
<1>6. AmountIn(held, price, swapForY) = IF whole <= MaxU64 THEN {whole} ELSE {}
  BY <1>3 DEF AmountIn, CostOf, Checked
<1> HIDE DEF fills, n, d
<1>7. held * n \in Nat /\ amount * d \in Nat
  BY <1>0, <1>1, ProductIsNat
<1>8. whole \in Nat /\ held * n <= d * whole /\ d * whole = whole * d /\ whole * d \in Nat
  <2>1. whole \in Nat /\ held * n <= d * whole
    BY <1>1, <1>7, DivUpBounds
  <2> HIDE DEF whole
  <2> QED
    BY <1>1, <2>1, Commutes, ProductIsNat
<1>9. part \in Nat /\ n * part <= amount * d /\ n * part = part * n /\ part * n \in Nat
  <2>1. part \in Nat /\ n * part <= amount * d
    BY <1>1, <1>7, DivDownIsNat
  <2> HIDE DEF part
  <2> QED
    BY <1>1, <2>1, Commutes, ProductIsNat
<1>10. ASSUME amount < whole PROVE part <= held
  <2>1. ~ (held * n <= amount * d)
    BY <1>0, <1>1, <1>7, <1>8, <1>10, DivUpIsLeast
  <2>2. part * n < held * n
    BY <1>7, <1>9, <2>1
  <2> HIDE DEF part
  <2>3. part < held
    BY <1>0, <1>1, <1>9, <2>2, Cancels
  <2> QED
    BY <1>0, <1>9, <2>3
<1>11. 0 * n = 0 /\ 0 * d = 0
  BY <1>1
<1> HIDE DEF whole, part
<1> DEFINE Right(layer) == TakenFrom(layer, amount, held, price, swapForY)
<1>12. Right([in |-> 0, left |-> amount, out |-> 0])
  BY <1>0, <1>2, <1>11 DEF TakenFrom
<1>13. whole <= MaxU64 /\ amount >= whole =>
          Right([in |-> whole, left |-> amount - whole, out |-> held])
  BY <1>0, <1>2, <1>7, <1>8 DEF TakenFrom
<1>14. ~(amount >= whole) =>
          part <= MaxU64 /\ Right([in |-> amount, left |-> 0, out |-> part])
  <2>1. ~(amount >= whole) => part <= held
    BY <1>8, <1>10
  <2> QED
    BY <1>0, <1>2, <1>7, <1>8, <1>9, <2>1, WidthAssumption DEF TakenFrom
<1> HIDE DEF Right
<1>15. (\A layer \in fills : Right(layer)) /\ (fills = {} => held # 0 /\ ~(whole <= MaxU64))
  <2>1. CASE held = 0
    BY <1>5, <1>12, <2>1
  <2>2. CASE held # 0 /\ whole <= MaxU64 /\ amount >= whole
    BY <1>4, <1>13, <2>2
  <2>3. CASE held # 0 /\ whole <= MaxU64 /\ ~(amount >= whole)
    BY <1>4, <1>14, <2>3
  <2>4. CASE held # 0 /\ ~(whole <= MaxU64)
    BY <1>4, <2>4
  <2> QED
    BY <2>1, <2>2, <2>3, <2>4
<1> QED
  BY <1>6, <1>15 DEF fills, Right

\* A fill of part of a bin, of which what was asked for so far holds so much.
FilledFrom(fill, amount, stored, price, swapForY) ==
    /\ fill.in \in Nat /\ fill.left \in Nat /\ fill.out \in Nat
    /\ fill.in + fill.left = amount
    /\ fill.makers \in 0 .. fill.in
    /\ fill.out <= stored
    /\ NoBetter(price, fill.in, fill.out, swapForY)

AllFilledFrom(fills, amount, stored, price, swapForY) ==
    \A fill \in fills : FilledFrom(fill, amount, stored, price, swapForY)

TooDear(held, price, swapForY) == AmountIn(held, price, swapForY) = {}

LEMMA LayerAdds ==
    ASSUME NEW amount \in Nat, NEW stored \in Nat, NEW price \in Nat \ {0},
           NEW swapForY \in BOOLEAN, NEW fill, FilledFrom(fill, amount, stored, price, swapForY),
           NEW held \in U64, NEW asked \in {0, held}
    PROVE  /\ \A f \in AfterLayer(fill, asked, price, swapForY) :
                 FilledFrom(f, amount, stored + held, price, swapForY)
           /\ AfterLayer(fill, asked, price, swapForY) = {} =>
                 TooDear(held, price, swapForY) \/ stored + held > MaxU64
<1> DEFINE layers == FillLayer(fill.left, asked, price, swapForY)
           After(l) == [in |-> fill.in + l.in, left |-> l.left, out |-> fill.out + l.out,
                        makers |-> fill.makers]
<1>1. held \in Nat /\ asked \in U64 /\ asked \in Nat /\ asked <= held /\ MaxU64 \in Nat
  BY WidthAssumption DEF U64
<1>2. fill.in \in Nat /\ fill.left \in Nat /\ fill.out \in Nat /\ fill.out <= stored
  BY DEF FilledFrom
<1>3. /\ \A l \in layers : TakenFrom(l, fill.left, asked, price, swapForY)
      /\ layers = {} => asked # 0 /\ AmountIn(asked, price, swapForY) = {}
  BY <1>1, <1>2, LayerSplits
<1>4. AfterLayer(fill, asked, price, swapForY) =
         {After(l) : l \in {m \in layers : fill.out + m.out <= MaxU64}}
  BY DEF AfterLayer
<1> HIDE DEF layers
<1>5. ASSUME NEW l \in layers
      PROVE  FilledFrom(After(l), amount, stored + held, price, swapForY)
             /\ fill.out + l.out <= stored + held /\ fill.out + l.out \in Nat
  <2>1. NoBetter(price, fill.in + l.in, fill.out + l.out, swapForY)
    BY <1>2, <1>3, <1>5, NoBetterAdds DEF FilledFrom, TakenFrom
  <2> QED
    BY <1>1, <1>2, <1>3, <1>5, <2>1 DEF FilledFrom, TakenFrom
<1> HIDE DEF After
<1>6. AfterLayer(fill, asked, price, swapForY) = {} =>
         TooDear(held, price, swapForY) \/ stored + held > MaxU64
  <2>1. CASE layers = {}
    BY <1>3, <2>1 DEF TooDear
  <2>2. CASE layers # {}
    <3>1. PICK l \in layers : TRUE
      BY <2>2
    <3>2. fill.out + l.out <= MaxU64 => AfterLayer(fill, asked, price, swapForY) # {}
      BY <1>4, <3>1
    <3> QED
      BY <1>1, <1>5, <3>1, <3>2
  <2> QED
    BY <2>1, <2>2
<1> QED
  BY <1>4, <1>5, <1>6

\* One layer more, of whatever was filled before.
AfterAll(fills, held, price, swapForY, limitOrders) ==
    UNION {AfterLayer(fill, IF fill.left > 0 /\ limitOrders THEN held ELSE 0, price, swapForY) :
              fill \in fills}

LEMMA LayersAdd ==
    ASSUME NEW amount \in Nat, NEW stored \in Nat, NEW price \in Nat \ {0},
           NEW swapForY \in BOOLEAN, NEW limitOrders,
           NEW fills, AllFilledFrom(fills, amount, stored, price, swapForY), NEW held \in U64
    PROVE  /\ AllFilledFrom(AfterAll(fills, held, price, swapForY, limitOrders),
                            amount, stored + held, price, swapForY)
           /\ AfterAll(fills, held, price, swapForY, limitOrders) = {} =>
                 fills = {} \/ TooDear(held, price, swapForY) \/ stored + held > MaxU64
<1> DEFINE Asked(fill) == IF fill.left > 0 /\ limitOrders THEN held ELSE 0
           Next1(fill) == AfterLayer(fill, Asked(fill), price, swapForY)
<1>1. ASSUME NEW fill \in fills
      PROVE  /\ \A f \in Next1(fill) : FilledFrom(f, amount, stored + held, price, swapForY)
             /\ Next1(fill) = {} => TooDear(held, price, swapForY) \/ stored + held > MaxU64
  <2>1. FilledFrom(fill, amount, stored, price, swapForY) /\ Asked(fill) \in {0, held}
    BY <1>1 DEF AllFilledFrom
  <2> HIDE DEF Asked
  <2> QED
    BY <2>1, LayerAdds
<1>2. AfterAll(fills, held, price, swapForY, limitOrders) = UNION {Next1(fill) : fill \in fills}
  BY DEF AfterAll
<1> HIDE DEF Next1
<1>3. ASSUME NEW f \in UNION {Next1(fill) : fill \in fills}
      PROVE  FilledFrom(f, amount, stored + held, price, swapForY)
  <2>1. PICK fill \in fills : f \in Next1(fill)
    BY <1>3
  <2> QED
    BY <1>1, <2>1
<1>4. ASSUME NEW fill \in fills, UNION {Next1(g) : g \in fills} = {}
      PROVE  Next1(fill) = {}
  BY <1>4
<1>5. CASE fills = {}
  BY <1>2, <1>3, <1>5 DEF AllFilledFrom
<1>6. CASE fills # {}
  <2>1. PICK fill \in fills : TRUE
    BY <1>6
  <2> QED
    BY <1>1, <1>2, <1>3, <1>4, <2>1 DEF AllFilledFrom
<1> QED
  BY <1>5, <1>6

\* One of the layers of a bin costs more than a u64.
DearLayer(bin, swapForY) ==
    \/ TooDear(MakersHold(bin, swapForY), bin.price, swapForY)
    \/ TooDear(OrdersHold(bin, swapForY).processed, bin.price, swapForY)
    \/ TooDear(OrdersHold(bin, swapForY).open, bin.price, swapForY)

LEMMA StoredIsNat ==
    ASSUME NEW bin \in Bins, NEW swapForY
    PROVE  Stored(bin, swapForY) \in Nat
<1>1. /\ MakersHold(bin, swapForY) \in Nat /\ OrdersHold(bin, swapForY).processed \in Nat
      /\ OrdersHold(bin, swapForY).open \in Nat
  BY BinsAreNat, WidthsAreNat
<1> QED
  BY <1>1 DEF Stored

\* The three layers of a bin do so in turn.
LEMMA BinSplits ==
    ASSUME NEW bin \in Bins, bin.price # 0, NEW amount \in Nat,
           NEW swapForY \in BOOLEAN, NEW limitOrders
    PROVE  LET fills == FillAtBin(bin, amount, swapForY, limitOrders)
           IN  /\ AllFilledFrom(fills, amount, Stored(bin, swapForY), bin.price, swapForY)
               /\ fills = {} => DearLayer(bin, swapForY) \/ Stored(bin, swapForY) > MaxU64
<1> DEFINE held == MakersHold(bin, swapForY)
           processed == OrdersHold(bin, swapForY).processed
           open == OrdersHold(bin, swapForY).open
           price == bin.price
           layers == FillLayer(amount, held, price, swapForY)
           From(layer) == [in |-> layer.in, left |-> layer.left, out |-> layer.out,
                           makers |-> layer.in]
           makers == {From(layer) : layer \in layers}
           afterMakers == AfterAll(makers, processed, price, swapForY, limitOrders)
           fills == AfterAll(afterMakers, open, price, swapForY, limitOrders)
<1>1. /\ price \in Nat \ {0} /\ held \in U64 /\ processed \in U64 /\ open \in U64
      /\ held \in Nat /\ processed \in Nat /\ open \in Nat /\ MaxU64 \in Nat
  BY BinsAreNat, WidthsAreNat, WidthAssumption
<1>2. FillAtBin(bin, amount, swapForY, limitOrders) = fills
      /\ Stored(bin, swapForY) = held + processed + open
  BY DEF FillAtBin, Stored, AfterAll
<1>3. DearLayer(bin, swapForY) <=>
        \/ TooDear(held, price, swapForY) \/ TooDear(processed, price, swapForY)
        \/ TooDear(open, price, swapForY)
  BY DEF DearLayer
<1> HIDE DEF held, processed, open, price, fills, afterMakers, layers, makers
<1>4. /\ AllFilledFrom(makers, amount, held, price, swapForY)
      /\ makers = {} => TooDear(held, price, swapForY)
  <2>1. /\ \A l \in layers : TakenFrom(l, amount, held, price, swapForY)
        /\ layers = {} => AmountIn(held, price, swapForY) = {}
    BY <1>1, LayerSplits DEF layers
  <2>2. \A l \in layers : FilledFrom(From(l), amount, held, price, swapForY)
    BY <2>1 DEF FilledFrom, TakenFrom
  <2> HIDE DEF From
  <2>3. AllFilledFrom(makers, amount, held, price, swapForY)
    BY <2>2 DEF AllFilledFrom, makers
  <2>4. makers = {} => layers = {}
    BY DEF makers
  <2> QED
    BY <2>1, <2>3, <2>4 DEF TooDear
<1>5. /\ AllFilledFrom(afterMakers, amount, held + processed, price, swapForY)
      /\ afterMakers = {} => \/ makers = {} \/ TooDear(processed, price, swapForY)
                             \/ held + processed > MaxU64
  BY <1>1, <1>4, LayersAdd DEF afterMakers
<1>6. held + processed \in Nat
  BY <1>1
<1>7. /\ AllFilledFrom(fills, amount, held + processed + open, price, swapForY)
      /\ fills = {} => \/ afterMakers = {} \/ TooDear(open, price, swapForY)
                       \/ held + processed + open > MaxU64
  <2> DEFINE both == held + processed
  <2>1. both \in Nat /\ AllFilledFrom(afterMakers, amount, both, price, swapForY)
    BY <1>5, <1>6
  <2>2. fills = AfterAll(afterMakers, open, price, swapForY, limitOrders)
    BY DEF fills
  <2> HIDE DEF both
  <2>3. /\ AllFilledFrom(fills, amount, both + open, price, swapForY)
        /\ fills = {} => \/ afterMakers = {} \/ TooDear(open, price, swapForY)
                         \/ both + open > MaxU64
    BY <1>1, <2>1, <2>2, LayersAdd
  <2> QED
    BY <2>3 DEF both
<1>8. fills = {} => \/ TooDear(held, price, swapForY) \/ TooDear(processed, price, swapForY)
                    \/ TooDear(open, price, swapForY) \/ held + processed + open > MaxU64
  <2>1. held + processed > MaxU64 => held + processed + open > MaxU64
    BY <1>1
  <2> QED
    BY <1>4, <1>5, <1>7, <2>1
<1>9. AllFilledFrom(fills, amount, Stored(bin, swapForY), price, swapForY)
  BY <1>2, <1>7
<1> QED
  BY <1>2, <1>3, <1>8, <1>9 DEF price

\* What is put into a bin but for the fee, and taken out of it with the fee.
PutIn(fill, onInput) == fill.consumed - IF onInput THEN fill.fee ELSE 0

TakenOut(fill, onInput) == fill.out + IF onInput THEN 0 ELSE fill.fee

Filled(fill, amount, bin, swapForY, onInput) ==
    /\ fill.consumed \in 0 .. amount
    /\ fill.out \in Nat /\ fill.fee \in Nat /\ fill.protocol \in Nat
    /\ fill.protocol <= fill.fee
    /\ PutIn(fill, onInput) \in Nat /\ TakenOut(fill, onInput) \in Nat
    /\ TakenOut(fill, onInput) <= Stored(bin, swapForY)
    /\ NoBetter(bin.price, PutIn(fill, onInput), TakenOut(fill, onInput), swapForY)

LEMMA NothingIsFilled ==
    ASSUME NEW amount \in Nat, NEW bin \in Bins, NEW swapForY \in BOOLEAN, NEW onInput \in BOOLEAN
    PROVE  Filled(NothingFilled, amount, bin, swapForY, onInput)
<1>1. bin.price \in Nat /\ Stored(bin, swapForY) \in Nat
  BY BinsAreNat, StoredIsNat
<1>2. PutIn(NothingFilled, onInput) = 0 /\ TakenOut(NothingFilled, onInput) = 0
  BY DEF NothingFilled, PutIn, TakenOut
<1>3. NoBetter(bin.price, 0, 0, swapForY)
  BY <1>1, NothingIsNoBetter
<1> QED
  BY <1>1, <1>2, <1>3 DEF NothingFilled, Filled

\* What fill_bin_exact_in makes of a fill.
LEMMA InputIsAccounted ==
    ASSUME NEW pair \in Pairs, NEW bin \in Bins, bin.price # 0, NEW amount \in Nat,
           NEW swapForY \in BOOLEAN, NEW rate \in Nat, rate < FeePrecision,
           NEW f, FilledFrom(f, amount - ComputeFeeFromAmount(rate, amount),
                             Stored(bin, swapForY), bin.price, swapForY)
    PROVE  LET fills == InputAccounting(pair, f, amount, ComputeFeeFromAmount(rate, amount), rate)
           IN  /\ fills = {} => pair.protocol_share > BasisPointMax
               /\ \A fill \in fills : Filled(fill, amount, bin, swapForY, TRUE)
<1> DEFINE inside == ComputeFeeFromAmount(rate, amount)
           fee == IF f.left = 0 THEN inside ELSE ComputeFee(rate, f.in)
           consumed == IF f.left = 0 THEN amount ELSE f.in + fee
           split == SplitFee(pair, fee, f.makers, f.in)
           fills == InputAccounting(pair, f, amount, inside, rate)
<1>1. inside \in 0 .. amount
  BY FeeInside
<1>2. amount - inside \in Nat /\ inside \in Nat
  BY <1>1
<1>3. /\ f.in \in Nat /\ f.left \in Nat /\ f.out \in Nat /\ f.in + f.left = amount - inside
      /\ f.makers \in 0 .. f.in
      /\ f.out <= Stored(bin, swapForY) /\ Stored(bin, swapForY) \in Nat
      /\ NoBetter(bin.price, f.in, f.out, swapForY)
  BY StoredIsNat DEF FilledFrom
<1>4. f.in <= amount - inside
  BY <1>2, <1>3
<1>5. ComputeFee(rate, f.in) \in Nat /\ f.in + ComputeFee(rate, f.in) <= amount
  BY <1>3, <1>4, FeeFits
<1>8. fills = IF f.in = 0 THEN {NothingFilled}
              ELSE IF consumed > amount THEN {}
              ELSE {[consumed |-> consumed, out |-> f.out, fee |-> fee, protocol |-> kept] :
                       kept \in split}
  BY DEF InputAccounting
<1> HIDE DEF inside
<1>6. fee \in Nat /\ consumed \in 0 .. amount /\ consumed - fee = f.in
  BY <1>1, <1>2, <1>3, <1>5
<1> HIDE DEF fee, consumed
<1>7. /\ \A kept \in split : kept \in Nat /\ kept <= fee
      /\ split = {} => pair.protocol_share > BasisPointMax
  BY <1>3, <1>6, FeeIsSplit
<1> HIDE DEF fills, split
<1>9. CASE f.in = 0
  BY <1>8, <1>9, NothingIsFilled DEF fills, inside
<1>10. CASE f.in # 0
  <2>1. fills = {[consumed |-> consumed, out |-> f.out, fee |-> fee, protocol |-> kept] :
                    kept \in split}
    BY <1>6, <1>8, <1>10
  <2>2. ASSUME NEW fill \in fills PROVE Filled(fill, amount, bin, swapForY, TRUE)
    <3>1. PICK kept \in split :
             fill = [consumed |-> consumed, out |-> f.out, fee |-> fee, protocol |-> kept]
      BY <2>1
    <3>2. PutIn(fill, TRUE) = f.in /\ TakenOut(fill, TRUE) = f.out
      BY <1>3, <1>6, <3>1 DEF PutIn, TakenOut
    <3> QED
      BY <1>3, <1>6, <1>7, <3>1, <3>2 DEF Filled
  <2>3. fills = {} => split = {}
    BY <2>1
  <2> QED
    BY <1>7, <2>2, <2>3 DEF fills, inside
<1> QED
  BY <1>9, <1>10

LEMMA OutputIsAccounted ==
    ASSUME NEW pair \in Pairs, NEW bin \in Bins, bin.price # 0, NEW amount \in Nat,
           NEW swapForY \in BOOLEAN, NEW rate \in Nat, rate < FeePrecision,
           NEW f, FilledFrom(f, amount, Stored(bin, swapForY), bin.price, swapForY)
    PROVE  LET fills == OutputAccounting(pair, f, rate)
           IN  /\ fills = {} => pair.protocol_share > BasisPointMax
               /\ \A fill \in fills : Filled(fill, amount, bin, swapForY, FALSE)
<1> DEFINE fee == ComputeFeeFromAmount(rate, f.out)
           split == SplitFee(pair, fee, f.makers, f.in)
           fills == OutputAccounting(pair, f, rate)
<1>1. /\ f.in \in Nat /\ f.left \in Nat /\ f.out \in Nat /\ f.in + f.left = amount
      /\ f.makers \in 0 .. f.in
      /\ f.out <= Stored(bin, swapForY) /\ Stored(bin, swapForY) \in Nat
      /\ NoBetter(bin.price, f.in, f.out, swapForY)
  BY StoredIsNat DEF FilledFrom
<1>2. fee \in 0 .. f.out
  BY <1>1, FeeInside
<1>5. fills = IF fee > f.out THEN {}
              ELSE {[consumed |-> f.in, out |-> f.out - fee, fee |-> fee, protocol |-> kept] :
                       kept \in split}
  BY DEF OutputAccounting
<1> HIDE DEF fee
<1>3. fee \in Nat /\ fee <= f.out /\ f.out - fee \in Nat /\ f.in \in 0 .. amount
  BY <1>1, <1>2
<1>4. /\ \A kept \in split : kept \in Nat /\ kept <= fee
      /\ split = {} => pair.protocol_share > BasisPointMax
  BY <1>1, <1>3, FeeIsSplit
<1> HIDE DEF fills, split
<1>6. fills = {[consumed |-> f.in, out |-> f.out - fee, fee |-> fee, protocol |-> kept] :
                  kept \in split}
  BY <1>1, <1>3, <1>5
<1>7. ASSUME NEW fill \in fills PROVE Filled(fill, amount, bin, swapForY, FALSE)
  <2>1. PICK kept \in split :
           fill = [consumed |-> f.in, out |-> f.out - fee, fee |-> fee, protocol |-> kept]
    BY <1>6
  <2>2. PutIn(fill, FALSE) = f.in /\ TakenOut(fill, FALSE) = f.out
    BY <1>1, <1>3, <2>1 DEF PutIn, TakenOut
  <2> QED
    BY <1>1, <1>3, <1>4, <2>1, <2>2 DEF Filled
<1>8. fills = {} => split = {}
  BY <1>6
<1> QED
  BY <1>4, <1>7, <1>8 DEF fills

\* What an account can say of a bin so that it cannot be filled.
BinFails(pair, bin, swapForY) ==
    \/ bin.price = 0
    \/ DearLayer(bin, swapForY)
    \/ Stored(bin, swapForY) > MaxU64
    \/ pair.protocol_share > BasisPointMax

LEMMA InputFeeFills ==
    ASSUME NEW pair \in Pairs, NEW bin \in Bins, NEW amount \in Nat,
           NEW swapForY \in BOOLEAN, NEW rate \in Nat, rate < FeePrecision
    PROVE  LET fills == FilledWithFeeOnInput(pair, bin, amount, swapForY, TRUE, rate)
           IN  /\ fills = {} => BinFails(pair, bin, swapForY)
               /\ \A fill \in fills : Filled(fill, amount, bin, swapForY, TRUE)
<1> DEFINE inside == ComputeFeeFromAmount(rate, amount)
           taken == FillAtBin(bin, amount - inside, swapForY, TRUE)
           Of(f) == InputAccounting(pair, f, amount, inside, rate)
           fills == FilledWithFeeOnInput(pair, bin, amount, swapForY, TRUE, rate)
<1>1. inside \in 0 .. amount /\ amount - inside \in Nat /\ ~(inside > amount)
  BY FeeInside
<1>2. fills = UNION {Of(f) : f \in taken}
  BY <1>1 DEF FilledWithFeeOnInput
<1>3. CASE bin.price = 0
  <2>1. taken = {}
    BY <1>3 DEF FillAtBin
  <2> HIDE DEF taken, Of
  <2>2. fills = {}
    BY <1>2, <2>1
  <2> QED
    BY <1>3, <2>2 DEF BinFails
<1>4. CASE bin.price # 0
  <2>1. /\ AllFilledFrom(taken, amount - inside, Stored(bin, swapForY), bin.price, swapForY)
        /\ taken = {} => DearLayer(bin, swapForY) \/ Stored(bin, swapForY) > MaxU64
    BY <1>1, <1>4, BinSplits
  <2> HIDE DEF taken
  <2>2. ASSUME NEW f \in taken
        PROVE  /\ Of(f) = {} => pair.protocol_share > BasisPointMax
               /\ \A fill \in Of(f) : Filled(fill, amount, bin, swapForY, TRUE)
    BY <1>4, <2>1, InputIsAccounted DEF AllFilledFrom
  <2> HIDE DEF fills, Of
  <2>3. ASSUME NEW fill \in fills PROVE Filled(fill, amount, bin, swapForY, TRUE)
    <3>1. PICK f \in taken : fill \in Of(f)
      BY <1>2, <2>3
    <3> QED
      BY <2>2, <3>1
  <2>4. fills = {} => taken = {} \/ \E f \in taken : Of(f) = {}
    BY <1>2
  <2> QED
    BY <2>1, <2>2, <2>3, <2>4 DEF BinFails, fills
<1> QED
  BY <1>3, <1>4

LEMMA OutputFeeFills ==
    ASSUME NEW pair \in Pairs, NEW bin \in Bins, NEW amount \in Nat,
           NEW swapForY \in BOOLEAN, NEW volatility \in Nat
    PROVE  LET fills == FilledWithFeeOnOutput(pair, bin, amount, swapForY, TRUE, volatility)
           IN  /\ fills = {} => TotalFeeRate(pair, volatility) = {} \/ BinFails(pair, bin, swapForY)
               /\ \A fill \in fills : Filled(fill, amount, bin, swapForY, FALSE)
<1> DEFINE rates == TotalFeeRate(pair, volatility)
           taken == FillAtBin(bin, amount, swapForY, TRUE)
           At(f, rate) == OutputAccounting(pair, f, rate)
           Of(f) == IF f.in = 0 THEN {NothingFilled} ELSE UNION {At(f, rate) : rate \in rates}
           fills == FilledWithFeeOnOutput(pair, bin, amount, swapForY, TRUE, volatility)
<1>1. fills = UNION {Of(f) : f \in taken}
  BY DEF FilledWithFeeOnOutput
<1>2. CASE bin.price = 0
  <2>1. taken = {}
    BY <1>2 DEF FillAtBin
  <2> HIDE DEF taken, Of
  <2>2. fills = {}
    BY <1>1, <2>1
  <2> QED
    BY <1>2, <2>2 DEF BinFails
<1>3. CASE bin.price # 0
  <2>1. /\ AllFilledFrom(taken, amount, Stored(bin, swapForY), bin.price, swapForY)
        /\ taken = {} => DearLayer(bin, swapForY) \/ Stored(bin, swapForY) > MaxU64
    BY <1>3, BinSplits
  <2> HIDE DEF taken, rates
  <2>2. ASSUME NEW f \in taken, NEW rate \in rates
        PROVE  /\ At(f, rate) = {} => pair.protocol_share > BasisPointMax
               /\ \A fill \in At(f, rate) : Filled(fill, amount, bin, swapForY, FALSE)
    <3>1. rate \in Nat /\ rate < FeePrecision
      BY RateIsCapped DEF rates
    <3>2. FilledFrom(f, amount, Stored(bin, swapForY), bin.price, swapForY)
      BY <2>1 DEF AllFilledFrom
    <3> QED
      BY <1>3, <3>1, <3>2, OutputIsAccounted
  <2> HIDE DEF At
  <2>3. ASSUME NEW f \in taken
        PROVE  /\ Of(f) = {} => rates = {} \/ pair.protocol_share > BasisPointMax
               /\ \A fill \in Of(f) : Filled(fill, amount, bin, swapForY, FALSE)
    <3>1. CASE f.in = 0
      <4>1. Of(f) = {NothingFilled}
        BY <3>1
      <4> HIDE DEF Of
      <4> QED
        BY <4>1, NothingIsFilled
    <3>2. CASE f.in # 0
      <4>1. Of(f) = UNION {At(f, rate) : rate \in rates}
        BY <3>2
      <4> HIDE DEF Of
      <4>2. ASSUME NEW fill \in Of(f) PROVE Filled(fill, amount, bin, swapForY, FALSE)
        <5>1. PICK rate \in rates : fill \in At(f, rate)
          BY <4>1, <4>2
        <5> QED
          BY <2>2, <5>1
      <4>3. Of(f) = {} => rates = {} \/ \E rate \in rates : At(f, rate) = {}
        BY <4>1
      <4> QED
        BY <2>2, <4>2, <4>3
    <3> QED
      BY <3>1, <3>2
  <2> HIDE DEF fills, Of
  <2>4. ASSUME NEW fill \in fills PROVE Filled(fill, amount, bin, swapForY, FALSE)
    <3>1. PICK f \in taken : fill \in Of(f)
      BY <1>1, <2>4
    <3> QED
      BY <2>3, <3>1
  <2>5. fills = {} => taken = {} \/ \E f \in taken : Of(f) = {}
    BY <1>1
  <2> QED
    BY <2>1, <2>3, <2>4, <2>5 DEF BinFails, fills, rates
<1> QED
  BY <1>2, <1>3

LEMMA BinFills ==
    ASSUME NEW pair \in Pairs, NEW bin \in Bins, NEW amount \in Nat,
           NEW swapForY \in BOOLEAN, NEW onInput \in BOOLEAN, NEW volatility \in Nat
    PROVE  LET fills == FillBin(pair, bin, amount, swapForY, TRUE, onInput, volatility)
           IN  /\ fills = {} => TotalFeeRate(pair, volatility) = {} \/ BinFails(pair, bin, swapForY)
               /\ \A fill \in fills : Filled(fill, amount, bin, swapForY, onInput)
<1> DEFINE rates == TotalFeeRate(pair, volatility)
           Of(rate) == FilledWithFeeOnInput(pair, bin, amount, swapForY, TRUE, rate)
           fills == FillBin(pair, bin, amount, swapForY, TRUE, onInput, volatility)
<1>1. CASE amount = 0
  <2>1. fills = {NothingFilled}
    BY <1>1 DEF FillBin
  <2> QED
    BY <2>1, NothingIsFilled
<1>2. CASE amount # 0 /\ onInput
  <2>1. fills = UNION {Of(rate) : rate \in rates}
    BY <1>2 DEF FillBin
  <2>2. ASSUME NEW rate \in rates
        PROVE  /\ Of(rate) = {} => BinFails(pair, bin, swapForY)
               /\ \A fill \in Of(rate) : Filled(fill, amount, bin, swapForY, TRUE)
    <3>1. rate \in Nat /\ rate < FeePrecision
      BY RateIsCapped
    <3> QED
      BY <3>1, InputFeeFills
  <2> HIDE DEF fills, Of, rates
  <2>3. ASSUME NEW fill \in fills PROVE Filled(fill, amount, bin, swapForY, TRUE)
    <3>1. PICK rate \in rates : fill \in Of(rate)
      BY <2>1, <2>3
    <3> QED
      BY <2>2, <3>1
  <2>4. fills = {} => rates = {} \/ \E rate \in rates : Of(rate) = {}
    BY <2>1
  <2>5. onInput = TRUE
    BY <1>2
  <2> QED
    BY <2>2, <2>3, <2>4, <2>5 DEF fills, rates
<1>3. CASE amount # 0 /\ ~onInput
  <2>1. fills = FilledWithFeeOnOutput(pair, bin, amount, swapForY, TRUE, volatility)
        /\ onInput = FALSE
    BY <1>3 DEF FillBin
  <2> QED
    BY <2>1, OutputFeeFills
<1> QED
  BY <1>1, <1>2, <1>3

(***************************************************************************)
(* The walk                                                                *)
(***************************************************************************)
Walks ==
    [start : Int, array : Indexes, bin : Int, first : BOOLEAN, left : U64, out : U64,
     fee : U64, protocol : U64, bins : Seq(Int), arrays : Seq(Int)]

LEMMA CountersAreNat ==
    ASSUME walk \in Walks
    PROVE  walk.left \in Nat /\ walk.out \in Nat /\ walk.fee \in Nat /\ walk.protocol \in Nat
BY WidthsAreNat DEF Walks

LEMMA NothingWalked == NoWalk \in Walks
<1>1. 0 \in U64 /\ 0 \in Indexes /\ << >> \in Seq(Int)
  BY WidthAssumption, PoolAssumption DEF U64
<1> QED
  BY <1>1 DEF NoWalk, Walks

\* Whatever was hydrated of the initialized arrays has all of its bins.
SnapshotFits ==
    /\ snapshot.pair \in Pairs
    /\ snapshot.bitmap \subseteq Indexes
    /\ \A i \in DOMAIN snapshot.arrays \cap snapshot.bitmap :
          snapshot.arrays[i] \in [LowerBin(i) .. UpperBin(i) -> Bins]

PlanFits ==
    /\ plan = [source |-> snapshot.source, targets |-> plan.targets,
               swap_for_y |-> plan.swap_for_y]
    /\ snapshot.source.slot \in DOMAIN chain

WalkFits ==
    /\ phase \in {"searching", "filling"} => walk.start \in Indexes
    /\ phase = "filling" =>
         /\ walk.array \in DOMAIN snapshot.arrays \cap snapshot.bitmap
         /\ walk.bin \in LowerBin(walk.array) .. UpperBin(walk.array)

Inductive ==
    /\ chain \in Seq(PoolStates) /\ chain # <<>>
    /\ request \in [amount : Amounts, swap_for_y : BOOLEAN]
    /\ SnapshotFits
    /\ PlanFits
    /\ walk \in Walks
    /\ WalkFits

LEMMA BoundsOfAnArray ==
    ASSUME NEW index \in Indexes
    PROVE  LowerBin(index) \in Int /\ UpperBin(index) \in Int /\ LowerBin(index) <= UpperBin(index)
<1>1. MaxBinPerArray \in Nat \ {0} /\ index \in Int
  BY ArrayAssumption DEF Indexes
<1>2. index * MaxBinPerArray \in Int
  BY <1>1
<1> QED
  BY <1>1, <1>2 DEF LowerBin, UpperBin

\* A bin lies in its array, ...
LEMMA BinLiesInItsArray ==
    ASSUME NEW bin \in Int
    PROVE  /\ BinArrayIndex(bin) \in Int
           /\ bin \in LowerBin(BinArrayIndex(bin)) .. UpperBin(BinArrayIndex(bin))
<1> DEFINE M == MaxBinPerArray
           q == bin \div M
<1>1. M \in Nat \ {0}
  BY ArrayAssumption
<1>2. q \in Int /\ M * q <= bin /\ bin < M * q + M
  BY <1>1, FloorBounds
<1> HIDE DEF M, q
<1>3. M * q = q * M /\ q * M \in Int
  BY <1>1, <1>2, Commutes
<1>4. bin \in q * M .. q * M + M - 1
  BY <1>1, <1>2, <1>3
<1> QED
  BY <1>2, <1>4 DEF M, q, BinArrayIndex, LowerBin, UpperBin

\* ... and in no other.
LEMMA ArrayOfABin ==
    ASSUME NEW index \in Indexes, NEW bin \in LowerBin(index) .. UpperBin(index)
    PROVE  BinArrayIndex(bin) = index
<1> DEFINE M == MaxBinPerArray
           q == BinArrayIndex(bin)
<1>1. M \in Nat \ {0} /\ index \in Int /\ bin \in Int
  BY ArrayAssumption, BoundsOfAnArray DEF Indexes
<1>2. index * M \in Int /\ index * M <= bin /\ bin <= index * M + M - 1
  BY <1>1, BoundsOfAnArray DEF LowerBin, UpperBin
<1>3. q \in Int /\ q * M <= bin /\ bin <= q * M + M - 1 /\ q * M \in Int
  <2>1. q \in Int /\ bin \in LowerBin(q) .. UpperBin(q)
    BY <1>1, BinLiesInItsArray
  <2> HIDE DEF q
  <2>2. q * M \in Int
    BY <1>1, <2>1
  <2> QED
    BY <1>1, <2>1, <2>2 DEF LowerBin, UpperBin
<1> HIDE DEF q, M
<1>4. (q + 1) * M = q * M + 1 * M /\ (index + 1) * M = index * M + 1 * M
  BY <1>1, <1>3, Distributes
<1>5. 1 * M = M
  BY <1>1
<1>6. index * M < (q + 1) * M /\ q * M < (index + 1) * M
  BY <1>1, <1>2, <1>3, <1>4, <1>5
<1>7. index < q + 1 /\ q < index + 1
  BY <1>1, <1>3, <1>6, Cancels
<1> QED
  BY <1>1, <1>3, <1>7 DEF q

\* What is hydrated from a pool fits.
LEMMA HydratedFits ==
    ASSUME NEW pool \in PoolStates, NEW targets, NEW source,
           snapshot' = SnapshotOf(pool, targets, source)
    PROVE  SnapshotFits' /\ snapshot'.source = source
<1>1. /\ snapshot'.pair = pool.pair /\ snapshot'.bitmap = pool.bitmap
      /\ snapshot'.arrays = [i \in Elements(targets) |-> pool.arrays[i]]
      /\ snapshot'.source = source
  BY DEF SnapshotOf
<1>2. \A i \in DOMAIN snapshot'.arrays \cap snapshot'.bitmap :
         snapshot'.arrays[i] = pool.arrays[i] /\ i \in pool.bitmap
  BY <1>1
<1> QED
  BY <1>1, <1>2, PoolAssumption DEF SnapshotFits

LEMMA InitIsInductive == Init => Inductive
<1> SUFFICES ASSUME Init PROVE Inductive
  OBVIOUS
<1>1. PICK pool \in PoolStates : chain = <<pool>>
  BY DEF Init
<1>2. chain \in Seq(PoolStates) /\ chain # <<>> /\ chain[1] = pool /\ 1 \in DOMAIN chain
  BY <1>1
<1>3. PICK targets : /\ snapshot = SnapshotOf(pool, targets, Source(1, 1))
                     /\ plan = [source |-> Source(1, 1), targets |-> targets,
                                swap_for_y |-> request.swap_for_y]
  BY <1>2 DEF Init
<1>4. /\ snapshot.pair = pool.pair /\ snapshot.bitmap = pool.bitmap
      /\ snapshot.arrays = [i \in Elements(targets) |-> pool.arrays[i]]
      /\ snapshot.source = Source(1, 1)
  BY <1>3 DEF SnapshotOf
<1>5. \A i \in DOMAIN snapshot.arrays \cap snapshot.bitmap :
         snapshot.arrays[i] = pool.arrays[i] /\ i \in pool.bitmap
  BY <1>4
<1>6. SnapshotFits
  BY <1>4, <1>5, PoolAssumption DEF SnapshotFits
<1>7. PlanFits
  BY <1>2, <1>3, <1>4 DEF PlanFits, Source
<1>8. walk \in Walks /\ WalkFits
  BY NothingWalked DEF Init, WalkFits
<1> QED
  BY <1>2, <1>6, <1>7, <1>8 DEF Init, Inductive

LEMMA MovesAreInductive ==
    ASSUME Inductive, NEW pool \in PoolStates, PoolMoves(pool)
    PROVE  Inductive'
<1>1. chain' = Append(chain, pool)
      /\ UNCHANGED <<request, snapshot, plan, walk, phase>>
  BY DEF PoolMoves
<1>2. chain' \in Seq(PoolStates) /\ chain' # <<>> /\ DOMAIN chain \subseteq DOMAIN chain'
  BY <1>1 DEF Inductive
<1>3. SnapshotFits' /\ WalkFits'
  BY <1>1 DEF Inductive, SnapshotFits, WalkFits
<1>4. PlanFits'
  BY <1>1, <1>2 DEF Inductive, PlanFits
<1> QED
  BY <1>1, <1>2, <1>3, <1>4 DEF Inductive

\* What the actions of a walk have in common.
Stays == UNCHANGED <<chain, request, snapshot, plan>>

LEMMA StayingKeeps ==
    ASSUME Inductive, Stays, (walk \in Walks)', WalkFits'
    PROVE  Inductive'
BY DEF Inductive, Stays, SnapshotFits, PlanFits

LEMMA BeginIsInductive == Inductive /\ BeginWalk => Inductive'
<1> SUFFICES ASSUME Inductive, BeginWalk PROVE Inductive'
  OBVIOUS
<1> DEFINE active == snapshot.pair.active_id
<1>1. active \in Int /\ BinArrayIndex(active) \in Int
  BY PairsAreNat, BinLiesInItsArray DEF Inductive, SnapshotFits
<1>2. walk' = [NoWalk EXCEPT !.start = BinArrayIndex(active), !.left = request.amount]
  BY DEF BeginWalk
<1>3. request.amount \in U64 /\ 0 \in U64
  <2>1. request.amount \in Amounts
    BY DEF Inductive
  <2>2. Amounts \subseteq U64
    BY PoolAssumption
  <2>3. 0 \in U64
    BY WidthAssumption DEF U64
  <2> QED
    BY <2>1, <2>2, <2>3
<1>4. walk' \in Walks /\ walk'.start = BinArrayIndex(active)
  <2>1. walk' = [start |-> BinArrayIndex(active), array |-> 0, bin |-> 0, first |-> TRUE,
                 left |-> request.amount, out |-> 0, fee |-> 0, protocol |-> 0,
                 bins |-> <<>>, arrays |-> <<>>]
    BY <1>2 DEF NoWalk
  <2>2. 0 \in Indexes
    BY PoolAssumption
  <2>3. <<>> \in Seq(Int)
    OBVIOUS
  <2> HIDE DEF active
  <2> QED
    BY <1>1, <1>3, <2>1, <2>2, <2>3 DEF Walks
<1>5. phase' = "searching" => BinArrayIndex(active) \in Indexes
  BY DEF BeginWalk, InRange
<1>6. phase' # "filling"
  BY DEF BeginWalk
<1>7. WalkFits'
  BY <1>4, <1>5, <1>6 DEF WalkFits
<1> QED
  BY <1>4, <1>7, StayingKeeps DEF BeginWalk, Stays

LEMMA SearchIsInductive == Inductive /\ Search => Inductive'
<1> SUFFICES ASSUME Inductive, Search PROVE Inductive'
  OBVIOUS
<1> DEFINE next == NextInitialized(snapshot, walk.start, request.swap_for_y)
<1>1. Stays
  BY DEF Search, Stop, EnterArray, Stays
<1>2. next \subseteq snapshot.bitmap /\ snapshot.bitmap \subseteq Indexes
  BY DEF NextInitialized, Nearest, Inductive, SnapshotFits
<1>3. CASE walk' = walk /\ phase' \in {"BitmapExtensionRequired", "LiquiditySearchExhausted"}
  <2>1. (walk \in Walks)' /\ WalkFits'
    BY <1>3 DEF Inductive, WalkFits
  <2> QED
    BY <1>1, <2>1, StayingKeeps
<1>4. ASSUME NEW index \in next, walk' = [walk EXCEPT !.array = index],
             phase' = "MissingHydratedBinArray"
      PROVE  Inductive'
  <2>1. (walk \in Walks)' /\ WalkFits'
    BY <1>2, <1>4 DEF Inductive, WalkFits, Walks
  <2> QED
    BY <1>1, <2>1, StayingKeeps
<1>5. ASSUME NEW index \in next, index \in DOMAIN snapshot.arrays, EnterArray(index)
      PROVE  Inductive'
  <2> DEFINE active == snapshot.pair.active_id
             bin == IF walk.first /\ index = BinArrayIndex(active) THEN active
                    ELSE IF request.swap_for_y THEN UpperBin(index) ELSE LowerBin(index)
  <2>1. walk' = [walk EXCEPT !.array = index, !.arrays = Append(@, index), !.bin = bin]
        /\ phase' = "filling"
    BY <1>5 DEF EnterArray, Stop
  <2>2. active \in Int /\ index \in Indexes /\ index \in Int
    BY <1>2, PairsAreNat DEF Inductive, SnapshotFits, Indexes
  <2>3. bin \in LowerBin(index) .. UpperBin(index) /\ bin \in Int
    BY <2>2, BoundsOfAnArray, BinLiesInItsArray
  <2> HIDE DEF bin
  <2>4. /\ walk' \in Walks /\ walk'.array = index /\ walk'.bin = bin
        /\ walk'.start = walk.start
    <3>1. walk \in Walks /\ Append(walk.arrays, index) \in Seq(Int)
      BY <2>2 DEF Inductive, Walks
    <3>2. walk' = [walk EXCEPT !.array = index, !.arrays = Append(walk.arrays, index),
                               !.bin = bin]
      BY <2>1
    <3> QED
      BY <2>2, <2>3, <3>1, <3>2 DEF Walks
  <2>5. walk.start \in Indexes
    BY DEF Search, Inductive, WalkFits
  <2>6. WalkFits'
    BY <1>1, <1>2, <1>5, <2>3, <2>4, <2>5 DEF WalkFits, Stays
  <2> QED
    BY <1>1, <2>4, <2>6, StayingKeeps
<1> QED
  BY <1>3, <1>4, <1>5 DEF Search, Stop

\* Where the walk is after a bin it could fill.
Moved(left) ==
    IF WalkOn(left) = "filling"
    THEN (IF request.swap_for_y THEN walk.bin - 1 ELSE walk.bin + 1) ELSE walk.bin

LEMMA WalkingOnStays ==
    ASSUME Inductive, phase = "filling", NEW left \in Nat
    PROVE  /\ Moved(left) \in Int
           /\ WalkOn(left) = "filling" => Moved(left) \in LowerBin(walk.array) .. UpperBin(walk.array)
           /\ WalkOn(left) = "searching" => ArrayAfter(walk.array, request.swap_for_y) \in Indexes
           /\ WalkOn(left) # "ArithmeticOverflow"
           /\ ArrayAfter(walk.array, request.swap_for_y) \in Int
<1>1. /\ walk.array \in Indexes /\ walk.array \in Int
      /\ walk.bin \in LowerBin(walk.array) .. UpperBin(walk.array)
      /\ request.swap_for_y \in BOOLEAN
  BY DEF Inductive, Walks, WalkFits, Indexes
<1>2. LowerBin(walk.array) \in Int /\ UpperBin(walk.array) \in Int
  BY <1>1, BoundsOfAnArray
<1>3. walk.bin \in Int
  BY <1>1, <1>2
<1>4. WalkOn(left) = "filling" => walk.bin # LastBin(walk.array, request.swap_for_y)
  BY DEF WalkOn
<1>5. WalkOn(left) = "searching" => walk.array # LastArray(request.swap_for_y)
  BY DEF WalkOn
<1>6. WalkOn(left) = "filling" => Moved(left) \in LowerBin(walk.array) .. UpperBin(walk.array)
  BY <1>1, <1>2, <1>3, <1>4 DEF Moved, LastBin
<1>7. WalkOn(left) = "searching" => ArrayAfter(walk.array, request.swap_for_y) \in Indexes
  BY <1>1, <1>5, ArrayAssumption DEF LastArray, ArrayAfter, Indexes
<1>8. Moved(left) \in Int /\ ArrayAfter(walk.array, request.swap_for_y) \in Int
  BY <1>1, <1>3 DEF Moved, ArrayAfter
<1>9. WalkOn(left) # "ArithmeticOverflow"
  BY DEF WalkOn
<1> QED
  BY <1>6, <1>7, <1>8, <1>9

\* Why a bin may not be filled, ...
FailsWith(reference, onInput) ==
    \/ TotalFeeRate(snapshot.pair, Volatility(reference)) = {}
    \/ BinFails(snapshot.pair, BinAt(walk.bin), request.swap_for_y)
    \/ \E fill : /\ Filled(fill, walk.left, BinAt(walk.bin), request.swap_for_y, onInput)
                 /\ ~TotalsFit(fill)

Fails ==
    /\ walk' = [walk EXCEPT !.bins = Append(@, walk.bin)]
    /\ Stop("ArithmeticOverflow")

\* ... and where it is left when it is.
Passes(fill) ==
    /\ walk' = [walk EXCEPT
         !.left = @ - fill.consumed, !.out = @ + fill.out,
         !.fee = @ + fill.fee, !.protocol = @ + fill.protocol,
         !.bins = Append(@, walk.bin),
         !.bin = Moved(walk.left - fill.consumed),
         !.first = @ /\ WalkOn(walk.left - fill.consumed) # "searching",
         !.start = IF WalkOn(walk.left - fill.consumed) = "searching"
                   THEN ArrayAfter(walk.array, request.swap_for_y) ELSE @]
    /\ Stop(WalkOn(walk.left - fill.consumed))

FilledAndFits(fill, onInput) ==
    Filled(fill, walk.left, BinAt(walk.bin), request.swap_for_y, onInput) /\ TotalsFit(fill)

LEMMA BinIsThere ==
    ASSUME Inductive, phase = "filling"
    PROVE  /\ request.swap_for_y \in BOOLEAN /\ snapshot.pair \in Pairs /\ walk \in Walks
           /\ walk.array \in DOMAIN snapshot.arrays \cap snapshot.bitmap /\ walk.array \in Indexes
           /\ walk.bin \in LowerBin(walk.array) .. UpperBin(walk.array) /\ walk.bin \in Int
           /\ BinAt(walk.bin) \in Bins
           /\ walk.start \in Indexes
<1>1. /\ request.swap_for_y \in BOOLEAN /\ snapshot.pair \in Pairs /\ walk \in Walks
      /\ walk.start \in Indexes
  BY DEF Inductive, SnapshotFits, WalkFits
<1>2. /\ walk.array \in DOMAIN snapshot.arrays \cap snapshot.bitmap /\ walk.array \in Indexes
      /\ walk.bin \in LowerBin(walk.array) .. UpperBin(walk.array)
      /\ snapshot.arrays[walk.array] \in [LowerBin(walk.array) .. UpperBin(walk.array) -> Bins]
  BY DEF Inductive, WalkFits, SnapshotFits
<1>3. BinAt(walk.bin) \in Bins /\ walk.bin \in Int
  BY <1>2, BoundsOfAnArray DEF BinAt
<1> QED
  BY <1>1, <1>2, <1>3

\* What a step through one bin is.
LEMMA BinIsTried ==
    ASSUME Inductive, FillOneBin
    PROVE  /\ phase = "filling"
           /\ \E onInput \in FeeOnInput(snapshot.pair, request.swap_for_y),
                 reference \in VolatilityReference(snapshot.pair, snapshot.now) :
                \/ Fails /\ FailsWith(reference, onInput)
                \/ \E fill : Passes(fill) /\ FilledAndFits(fill, onInput)
<1> DEFINE bin == BinAt(walk.bin)
           y == request.swap_for_y
           Fills(o, r) == FillBin(snapshot.pair, bin, walk.left, y, TRUE, o, Volatility(r))
           Fitting(o, r) == {fill \in Fills(o, r) : TotalsFit(fill)}
<1>1. phase = "filling"
  BY DEF FillOneBin
<1>2. PICK onInput \in FeeOnInput(snapshot.pair, y),
           reference \in VolatilityReference(snapshot.pair, snapshot.now) :
         \/ Fitting(onInput, reference) = {} /\ Fails
         \/ \E fill \in Fitting(onInput, reference) : Passes(fill)
  BY DEF FillOneBin, Fails, Passes, Moved
<1>3. /\ y \in BOOLEAN /\ snapshot.pair \in Pairs /\ walk \in Walks /\ walk.bin \in Int
      /\ bin \in Bins
  BY <1>1, BinIsThere
<1>4. onInput \in BOOLEAN
  BY <1>3 DEF FeeOnInput
<1>5. Volatility(reference) \in Nat /\ walk.left \in Nat
  BY <1>3, VolatilityIsNat, CountersAreNat DEF Volatility
<1>6. /\ Fills(onInput, reference) = {} =>
           \/ TotalFeeRate(snapshot.pair, Volatility(reference)) = {}
           \/ BinFails(snapshot.pair, bin, y)
      /\ \A fill \in Fills(onInput, reference) : Filled(fill, walk.left, bin, y, onInput)
  BY <1>3, <1>4, <1>5, BinFills
<1> DEFINE fills == Fills(onInput, reference)
<1> HIDE DEF Fills, bin, y
<1>7. CASE Fitting(onInput, reference) = {} /\ Fails
  <2>1. fills = {} => FailsWith(reference, onInput)
    BY <1>6 DEF FailsWith, bin, y
  <2>2. ASSUME fills # {} PROVE FailsWith(reference, onInput)
    <3>1. PICK fill \in fills : ~TotalsFit(fill)
      BY <1>7, <2>2
    <3>2. Filled(fill, walk.left, BinAt(walk.bin), request.swap_for_y, onInput)
      BY <1>6, <3>1 DEF bin, y
    <3> QED
      BY <3>1, <3>2 DEF FailsWith
  <2>3. FailsWith(reference, onInput)
    BY <2>1, <2>2
  <2> QED
    BY <1>1, <1>7, <2>3 DEF y
<1>8. ASSUME NEW fill \in Fitting(onInput, reference), Passes(fill)
      PROVE  Passes(fill) /\ FilledAndFits(fill, onInput)
  BY <1>6, <1>8 DEF FilledAndFits, bin, y
<1> QED
  BY <1>1, <1>2, <1>7, <1>8 DEF y

LEMMA FillIsInductive == Inductive /\ FillOneBin => Inductive'
<1> SUFFICES ASSUME Inductive, FillOneBin PROVE Inductive'
  OBVIOUS
<1>1. phase = "filling"
  BY DEF FillOneBin
<1>2. PICK onInput : Fails \/ \E fill : Passes(fill) /\ FilledAndFits(fill, onInput)
  BY BinIsTried
<1>3. /\ walk \in Walks /\ walk.start \in Indexes /\ walk.bin \in Int
      /\ walk.left \in Nat /\ walk.out \in Nat /\ walk.fee \in Nat /\ walk.protocol \in Nat
  BY <1>1, BinIsThere, CountersAreNat
<1>4. Append(walk.bins, walk.bin) \in Seq(Int) /\ walk.bins \in Seq(Int)
  BY <1>3 DEF Walks
<1>5. CASE Fails
  <2>1. walk' \in Walks
    BY <1>3, <1>4, <1>5 DEF Fails, Walks
  <2>2. WalkFits' /\ Stays
    BY <1>5 DEF Fails, Stop, Stays, WalkFits
  <2> QED
    BY <2>1, <2>2, StayingKeeps
<1>6. ASSUME NEW fill, Passes(fill), FilledAndFits(fill, onInput) PROVE Inductive'
  <2> DEFINE left == walk.left - fill.consumed
             start == IF WalkOn(left) = "searching"
                      THEN ArrayAfter(walk.array, request.swap_for_y) ELSE walk.start
             first == walk.first /\ WalkOn(left) # "searching"
             out == walk.out + fill.out
             fee == walk.fee + fill.fee
             protocol == walk.protocol + fill.protocol
  <2>1. /\ fill.consumed \in 0 .. walk.left
        /\ fill.out \in Nat /\ fill.fee \in Nat /\ fill.protocol \in Nat
        /\ out <= MaxU64 /\ fee <= MaxU64 /\ protocol <= MaxU64
    BY <1>6 DEF FilledAndFits, Filled, TotalsFit
  <2>2. left \in Nat /\ left \in U64 /\ out \in U64 /\ fee \in U64 /\ protocol \in U64
    <3>1. walk.left <= MaxU64
      BY <1>3, WidthAssumption DEF Walks, U64
    <3>2. left \in Nat /\ left <= MaxU64 /\ out \in Nat /\ fee \in Nat /\ protocol \in Nat
      BY <1>3, <2>1, <3>1, WidthAssumption
    <3> HIDE DEF left, out, fee, protocol
    <3> QED
      BY <2>1, <3>2, WidthAssumption DEF U64
  <2>3. /\ Moved(left) \in Int
        /\ WalkOn(left) = "filling" => Moved(left) \in LowerBin(walk.array) .. UpperBin(walk.array)
        /\ WalkOn(left) = "searching" => ArrayAfter(walk.array, request.swap_for_y) \in Indexes
        /\ WalkOn(left) # "ArithmeticOverflow"
        /\ ArrayAfter(walk.array, request.swap_for_y) \in Int
    BY <1>1, <2>2, WalkingOnStays
  <2>4. start \in Indexes /\ start \in Int
    BY <1>3, <2>3 DEF Indexes
  <2>5. phase' = WalkOn(left) /\ Stays
    BY <1>6 DEF Passes, Stop, Stays
  <2>6. walk' = [walk EXCEPT
                   !.left = left, !.out = out, !.fee = fee, !.protocol = protocol,
                   !.bins = Append(walk.bins, walk.bin),
                   !.bin = Moved(left), !.first = first, !.start = start]
    BY <1>6 DEF Passes
  <2>7. first \in BOOLEAN
    BY <1>3 DEF Walks
  <2> HIDE DEF left, start, first, out, fee, protocol
  <2>8. /\ walk' \in Walks /\ walk'.start = start /\ walk'.bin = Moved(left)
        /\ walk'.array = walk.array
    <3>1. walk = [start |-> walk.start, array |-> walk.array, bin |-> walk.bin,
                  first |-> walk.first, left |-> walk.left, out |-> walk.out,
                  fee |-> walk.fee, protocol |-> walk.protocol,
                  bins |-> walk.bins, arrays |-> walk.arrays]
      BY <1>3 DEF Walks
    <3>2. walk' = [start |-> start, array |-> walk.array, bin |-> Moved(left),
                   first |-> first, left |-> left, out |-> out, fee |-> fee,
                   protocol |-> protocol,
                   bins |-> Append(walk.bins, walk.bin), arrays |-> walk.arrays]
      BY <2>6, <3>1
    <3>3. walk.array \in Indexes /\ walk.arrays \in Seq(Int)
      BY <1>3 DEF Walks
    <3> QED
      BY <1>4, <2>2, <2>3, <2>4, <2>7, <3>2, <3>3 DEF Walks
  <2>9. WalkFits'
    BY <1>1, <2>3, <2>4, <2>5, <2>8 DEF WalkFits, Inductive, Stays
  <2> QED
    BY <2>5, <2>8, <2>9, StayingKeeps
<1> QED
  BY <1>2, <1>5, <1>6

LEMMA ExpandIsInductive ==
    ASSUME Inductive, NEW slot \in DOMAIN chain, NEW generation \in 1 .. MaxGeneration,
           Expand(slot, generation)
    PROVE  Inductive'
<1> DEFINE pool == chain[slot]
           source == Source(generation, slot)
<1>1. UNCHANGED <<chain, request>> /\ pool \in PoolStates
  <2>1. UNCHANGED <<chain, request>>
    BY DEF Expand
  <2>2. pool \in PoolStates
    BY DEF Inductive
  <2> QED
    BY <2>1, <2>2
<1>2. CASE phase' = "StaleState" /\ UNCHANGED <<plan, snapshot, walk>>
  <2>1. WalkFits'
    BY <1>2 DEF WalkFits
  <2> QED
    BY <1>1, <1>2, <2>1, StayingKeeps DEF Stays, Inductive
<1>3. ASSUME NEW targets, plan' = [plan EXCEPT !.source = source, !.targets = targets],
             snapshot' = SnapshotOf(pool, targets, source),
             walk' = NoWalk, phase' = "hydrated"
      PROVE  Inductive'
  <2>1. SnapshotFits' /\ snapshot'.source = source
    BY <1>1, <1>3, HydratedFits
  <2>2. PlanFits'
    <3>1. plan = [source |-> snapshot.source, targets |-> plan.targets,
                  swap_for_y |-> plan.swap_for_y]
      BY DEF Inductive, PlanFits
    <3>2. plan' = [source |-> source, targets |-> targets, swap_for_y |-> plan.swap_for_y]
      BY <1>3, <3>1
    <3>3. plan' = [source |-> source, targets |-> plan'.targets,
                   swap_for_y |-> plan'.swap_for_y]
      BY <3>2
    <3>4. source.slot \in DOMAIN chain'
      BY <1>1 DEF Source
    <3> HIDE DEF source
    <3> QED
      BY <2>1, <3>3, <3>4 DEF PlanFits
  <2>3. walk' \in Walks
    BY <1>3, NothingWalked
  <2>4. WalkFits'
    BY <1>3 DEF WalkFits
  <2> QED
    BY <1>1, <2>1, <2>2, <2>3, <2>4 DEF Inductive
<1> QED
  BY <1>2, <1>3 DEF Expand

LEMMA AccountsAreInductive ==
    ASSUME Inductive, NEW provided, NEW buffers, PlanAccounts(provided, buffers)
    PROVE  Inductive'
<1>1. walk' = walk /\ Stays /\ phase' \in {"InvalidLayout", "planned"}
  BY DEF PlanAccounts, Stays
<1>2. (walk \in Walks)' /\ WalkFits'
  BY <1>1 DEF Inductive, WalkFits
<1> QED
  BY <1>1, <1>2, StayingKeeps

LEMMA CompilingIsInductive ==
    ASSUME Inductive, NEW tables, Compile(tables)
    PROVE  Inductive'
<1>1. walk' = walk /\ Stays /\ phase' \in {"AccountFootprintExceeded", "compiled"}
  BY DEF Compile, Stays
<1>2. (walk \in Walks)' /\ WalkFits'
  BY <1>1 DEF Inductive, WalkFits
<1> QED
  BY <1>1, <1>2, StayingKeeps

LEMMA NextIsInductive == Inductive /\ [Next]_vars => Inductive'
<1> SUFFICES ASSUME Inductive, [Next]_vars PROVE Inductive'
  OBVIOUS
<1>1. CASE UNCHANGED vars
  BY <1>1 DEF vars, Inductive, SnapshotFits, PlanFits, WalkFits
<1>2. CASE Next
  BY <1>2, MovesAreInductive, BeginIsInductive, SearchIsInductive, FillIsInductive,
     ExpandIsInductive, AccountsAreInductive, CompilingIsInductive DEF Next
<1> QED
  BY <1>1, <1>2

(***************************************************************************)
(* The arrays of a walk                                                    *)
(***************************************************************************)
\* Who comes first on the way.
Sooner(i, j, swapForY) == IF swapForY THEN j < i ELSE i < j

LEMMA NearestExists ==
    ASSUME NEW T \in SUBSET Indexes, T # {}, NEW swapForY \in BOOLEAN
    PROVE  \E i \in T : \A j \in T : i = j \/ Sooner(i, j, swapForY)
<1>1. /\ BinArrayMinIndex \in Int /\ BinArrayMaxIndex \in Int
      /\ \A i \in T : i \in Int /\ BinArrayMinIndex <= i /\ i <= BinArrayMaxIndex
  BY ArrayAssumption DEF Indexes
<1> DEFINE far(i) == IF swapForY THEN BinArrayMaxIndex - i ELSE i - BinArrayMinIndex
           D == {far(i) : i \in T}
<1>2. D \in SUBSET Nat /\ D # {}
  BY <1>1
<1>3. PICK x \in D : \A y \in D : x <= y
  BY <1>2, LeastElement
<1>4. PICK i \in T : x = far(i)
  BY <1>3
<1>5. ASSUME NEW j \in T PROVE i = j \/ Sooner(i, j, swapForY)
  <2>1. far(i) <= far(j)
    BY <1>3, <1>4
  <2> QED
    BY <1>1, <2>1 DEF Sooner
<1> QED
  BY <1>5

LEMMA IndexesAreWeighed ==
    ASSUME NEW T \in SUBSET Indexes, NEW swapForY \in BOOLEAN
    PROVE  Weighed(T, [i \in T |-> IF swapForY THEN -i ELSE i])
<1>1. BinArrayMinIndex \in Int /\ BinArrayMaxIndex \in Int
  BY ArrayAssumption
<1>2. IsFiniteSet(Indexes)
  BY <1>1, FS_Interval DEF Indexes
<1>3. IsFiniteSet(T)
  BY <1>2, FS_Subset
<1>4. \A i \in T : i \in Int
  BY <1>1 DEF Indexes
<1> QED
  BY <1>3, <1>4 DEF Weighed

\* Sorting a set of arrays lists its elements and nothing else, ...
LEMMA InOrderLists ==
    ASSUME NEW T \in SUBSET Indexes, NEW swapForY \in BOOLEAN
    PROVE  InOrder(T, swapForY) \in Seq(Indexes) /\ Elements(InOrder(T, swapForY)) = T
<1> DEFINE w == [i \in T |-> IF swapForY THEN -i ELSE i]
           r == Ranked(T, w)
           n == Cardinality(T)
<1>1. Weighed(T, w)
  BY IndexesAreWeighed
<1> HIDE DEF w
<1>2. /\ n \in Nat /\ r \in [1 .. n -> T]
      /\ \A i \in T : \E k \in 1 .. n : r[k] = i
  BY <1>1, RankedIsOrdered
<1>3. InOrder(T, swapForY) = r
  BY DEF InOrder, w
<1> HIDE DEF r, n
<1>4. r \in Seq(Indexes) /\ DOMAIN r = 1 .. n
  BY <1>2
<1>5. Elements(r) = T
  BY <1>2, <1>4 DEF Elements
<1> QED
  BY <1>3, <1>4, <1>5

LEMMA InOrderOfNothing == \A swapForY : InOrder({}, swapForY) = << >>
BY RankedNothing DEF InOrder

\* ... and who is farther than all of them comes last.
LEMMA InOrderAppends ==
    ASSUME NEW T \in SUBSET Indexes, NEW x \in Indexes, NEW swapForY \in BOOLEAN,
           \A i \in T : Sooner(i, x, swapForY)
    PROVE  InOrder(T \cup {x}, swapForY) = Append(InOrder(T, swapForY), x)
<1> DEFINE v == [i \in T |-> IF swapForY THEN -i ELSE i]
           w == [i \in T \cup {x} |-> IF swapForY THEN -i ELSE i]
<1>1. T \cup {x} \in SUBSET Indexes /\ \A i \in T \cup {x} : i \in Int
  BY ArrayAssumption DEF Indexes
<1>2. Weighed(T \cup {x}, w)
  BY <1>1, IndexesAreWeighed
<1>3. ASSUME NEW i \in T PROVE v[i] = w[i] /\ Before(w, i, x)
  <2>1. Sooner(i, x, swapForY) /\ i \in Int /\ x \in Int
    BY <1>1
  <2> QED
    BY <2>1 DEF Sooner, Before
<1>4. InOrder(T \cup {x}, swapForY) = Ranked(T \cup {x}, w) /\ InOrder(T, swapForY) = Ranked(T, v)
  BY DEF InOrder
<1> HIDE DEF v, w
<1>5. Ranked(T \cup {x}, w) = Append(Ranked(T, v), x)
  BY <1>2, <1>3, RankedAppends
<1> QED
  BY <1>4, <1>5

\* meteora_next_initialized_bin_array_index: what is found is the first array
\* from there on, for the bits before it could be read; ...
LEMMA NextIsFirst ==
    ASSUME NEW pool, NEW start \in Indexes, NEW swapForY \in BOOLEAN,
           ~ ExtensionRequired(pool, start, swapForY),
           NEW next \in NextInitialized(pool, start, swapForY),
           NEW i \in pool.bitmap \cap Ahead(start, swapForY)
    PROVE  i = next \/ Sooner(next, i, swapForY)
<1> DEFINE unread == Ahead(start, swapForY) \ Known(pool)
           found == Ahead(start, swapForY) \cap pool.bitmap \cap Known(pool)
<1>1. /\ Ahead(start, swapForY) \in SUBSET Indexes
      /\ \A k \in Ahead(start, swapForY) : k \in Int
  BY ArrayAssumption DEF Ahead, Indexes
<1>2. /\ next \in found /\ next \in Int /\ i \in Int
      /\ \A j \in found : IF swapForY THEN j <= next ELSE next <= j
  BY <1>1 DEF NextInitialized, Nearest
<1>3. CASE i \in found
  BY <1>2, <1>3 DEF Sooner
<1>4. CASE i \notin found
  <2>1. i \in unread
    BY <1>4
  <2>2. unread \in SUBSET Indexes /\ \A k \in unread : k \in Int
    BY <1>1
  <2> HIDE DEF unread
  <2>3. PICK u \in unread : \A j \in unread : u = j \/ Sooner(u, j, swapForY)
    BY <2>1, <2>2, NearestExists
  <2>4. u \in Nearest(unread, swapForY)
    BY <2>2, <2>3 DEF Nearest, Sooner
  <2>5. PICK j \in NextInitialized(pool, start, swapForY) : ~ Sooner(u, j, swapForY)
    BY <2>4 DEF ExtensionRequired, Sooner, unread
  <2>6. j \in found /\ \A k \in found : IF swapForY THEN k <= j ELSE j <= k
    BY <2>5 DEF NextInitialized, Nearest
  <2>7. j = next
    BY <1>1, <1>2, <2>6
  <2>8. next # u
    BY <1>2 DEF unread
  <2>9. u = i \/ Sooner(u, i, swapForY)
    BY <2>1, <2>3
  <2> HIDE DEF found
  <2> QED
    BY <1>2, <2>2, <2>5, <2>7, <2>8, <2>9 DEF Sooner
<1> QED
  BY <1>3, <1>4

\* ... and if nothing is found there is nothing.
LEMMA NothingIsNext ==
    ASSUME NEW pool, NEW start \in Indexes, NEW swapForY \in BOOLEAN,
           ~ ExtensionRequired(pool, start, swapForY),
           NextInitialized(pool, start, swapForY) = {}
    PROVE  pool.bitmap \cap Ahead(start, swapForY) = {}
<1> DEFINE unread == Ahead(start, swapForY) \ Known(pool)
           found == Ahead(start, swapForY) \cap pool.bitmap \cap Known(pool)
<1>1. /\ unread \in SUBSET Indexes /\ found \in SUBSET Indexes
      /\ \A k \in unread : k \in Int /\ \A l \in found : l \in Int
  BY ArrayAssumption DEF Ahead, Indexes
<1>2. \A k \in unread \cup found : k \in Int
  BY ArrayAssumption DEF Ahead, Indexes
<1>3. NextInitialized(pool, start, swapForY) = Nearest(found, swapForY)
  BY DEF NextInitialized
<1>4. ~ \E i \in Nearest(unread, swapForY) : TRUE
  BY DEF ExtensionRequired
<1> SUFFICES unread = {} /\ found = {}
  OBVIOUS
<1> HIDE DEF unread, found
<1>5. ASSUME unread # {} PROVE FALSE
  <2>1. PICK u \in unread : \A j \in unread : u = j \/ Sooner(u, j, swapForY)
    BY <1>1, <1>5, NearestExists
  <2>2. u \in Nearest(unread, swapForY)
    BY <1>2, <2>1 DEF Nearest, Sooner
  <2> QED
    BY <1>4, <2>2
<1>6. ASSUME found # {} PROVE FALSE
  <2>1. PICK u \in found : \A j \in found : u = j \/ Sooner(u, j, swapForY)
    BY <1>1, <1>6, NearestExists
  <2>2. u \in Nearest(found, swapForY)
    BY <1>2, <2>1 DEF Nearest, Sooner
  <2> QED
    BY <1>3, <2>2
<1> QED
  BY <1>5, <1>6

Active == BinArrayIndex(snapshot.pair.active_id)

\* The initialized arrays the walk has met when it searches from an index.
InitializedBefore(index) ==
    (snapshot.bitmap \cap Ahead(Active, request.swap_for_y)) \ Ahead(index, request.swap_for_y)

\* No array is skipped, and neither is one before the place the walk is at.
WalkIsComplete ==
    /\ DOMAIN snapshot.arrays = Elements(plan.targets)
    /\ phase = "hydrated" => walk.arrays = <<>>
    /\ phase \in {"searching", "filling"} =>
         Active \in Indexes /\ walk.start \in Ahead(Active, request.swap_for_y)
    /\ phase = "searching" =>
         walk.arrays = InOrder(InitializedBefore(walk.start), request.swap_for_y)
    /\ phase = "filling" =>
         /\ walk.arrays # <<>> /\ walk.arrays[Len(walk.arrays)] = walk.array
         /\ walk.array \in Ahead(Active, request.swap_for_y)
    /\ NoArrayIsSkipped

LEMMA ElementsOfAppended ==
    ASSUME NEW S, NEW s \in Seq(S), NEW x \in S
    PROVE  Elements(Append(s, x)) = Elements(s) \cup {x}
<1>1. /\ DOMAIN s = 1 .. Len(s) /\ Len(s) \in Nat
      /\ DOMAIN Append(s, x) = 1 .. Len(s) + 1
      /\ Append(s, x)[Len(s) + 1] = x
      /\ \A i \in 1 .. Len(s) : Append(s, x)[i] = s[i]
  OBVIOUS
<1> DEFINE t == Append(s, x)
<1> HIDE DEF t
<1>2. ASSUME NEW i \in DOMAIN t PROVE t[i] \in Elements(s) \cup {x}
  <2>1. i = Len(s) + 1 \/ i \in 1 .. Len(s)
    BY <1>1 DEF t
  <2> QED
    BY <1>1, <2>1 DEF t, Elements
<1>3. ASSUME NEW i \in DOMAIN s PROVE s[i] \in Elements(t)
  <2>1. i \in DOMAIN t /\ t[i] = s[i]
    BY <1>1 DEF t
  <2> QED
    BY <2>1 DEF Elements
<1>4. x \in Elements(t)
  BY <1>1 DEF t, Elements
<1>5. Elements(t) \subseteq Elements(s) \cup {x}
  BY <1>2 DEF Elements
<1>6. Elements(s) \subseteq Elements(t)
  BY <1>3 DEF Elements
<1> QED
  BY <1>4, <1>5, <1>6 DEF t

\* Between where the walk searches from and what it finds there is nothing.
LEMMA NothingBetween ==
    ASSUME Inductive, Active \in Indexes, NEW start \in Ahead(Active, request.swap_for_y),
           ~ ExtensionRequired(snapshot, start, request.swap_for_y),
           NEW index \in NextInitialized(snapshot, start, request.swap_for_y)
    PROVE  /\ InitializedUpTo(index) = InitializedBefore(start) \cup {index}
           /\ index \notin InitializedBefore(start)
           /\ index \in Ahead(Active, request.swap_for_y) /\ index \in Indexes
           /\ \A i \in InitializedBefore(start) : Sooner(i, index, request.swap_for_y)
           /\ InitializedBefore(start) \in SUBSET Indexes
<1> DEFINE y == request.swap_for_y
<1>1. y \in BOOLEAN /\ snapshot.bitmap \subseteq Indexes
  BY DEF Inductive, SnapshotFits
<1>2. /\ BinArrayMinIndex \in Int /\ BinArrayMaxIndex \in Int
      /\ start \in Indexes /\ start \in Int /\ Active \in Int
  BY <1>1, ArrayAssumption DEF Ahead, Indexes
<1>3. index \in snapshot.bitmap \cap Ahead(start, y) /\ index \in Int
  BY <1>1, <1>2 DEF NextInitialized, Nearest, Indexes
<1> HIDE DEF Active
<1>4. ASSUME NEW i \in snapshot.bitmap \cap Ahead(start, y)
      PROVE  i = index \/ Sooner(index, i, y)
  BY <1>1, <1>2, <1>4, NextIsFirst
<1>5. ASSUME NEW i \in snapshot.bitmap
      PROVE  i \in Int /\ BinArrayMinIndex <= i /\ i <= BinArrayMaxIndex
  BY <1>1, <1>2 DEF Indexes
<1>6. ASSUME NEW i \in InitializedBefore(start)
      PROVE  Sooner(i, index, y) /\ i \in InitializedUpTo(index)
  <2>1. i \in snapshot.bitmap /\ i \in Ahead(Active, y) /\ i \notin Ahead(start, y)
    BY DEF InitializedBefore
  <2>2. i \in Ahead(index, ~y) /\ Sooner(i, index, y)
    BY <1>1, <1>2, <1>3, <1>5, <2>1 DEF Ahead, Sooner
  <2> QED
    BY <2>1, <2>2 DEF InitializedUpTo, Active
<1>7. index \in Ahead(Active, y) /\ index \in Ahead(index, ~y)
  BY <1>1, <1>2, <1>3, <1>5 DEF Ahead
<1>8. ASSUME NEW i \in InitializedUpTo(index) PROVE i \in InitializedBefore(start) \cup {index}
  <2>1. i \in snapshot.bitmap /\ i \in Ahead(Active, y) /\ i \in Ahead(index, ~y)
    BY DEF InitializedUpTo, Active
  <2>2. CASE i \in Ahead(start, y)
    BY <1>1, <1>2, <1>3, <1>4, <1>5, <2>1, <2>2 DEF Ahead, Sooner
  <2>3. CASE i \notin Ahead(start, y)
    BY <2>1, <2>3 DEF InitializedBefore
  <2> QED
    BY <2>2, <2>3
<1>9. index \in InitializedUpTo(index) /\ index \notin InitializedBefore(start)
  BY <1>3, <1>7 DEF InitializedUpTo, InitializedBefore, Active
<1>10. InitializedBefore(start) \in SUBSET Indexes
  BY <1>1 DEF InitializedBefore
<1>11. index \in Indexes
  BY <1>1, <1>3
<1> QED
  BY <1>6, <1>7, <1>8, <1>9, <1>10, <1>11

\* From the array after one, the walk has met what it has met up to that one.
LEMMA BeforeTheNext ==
    ASSUME Inductive, Active \in Indexes, NEW array \in Ahead(Active, request.swap_for_y)
    PROVE  LET y == request.swap_for_y
           IN  /\ InitializedBefore(ArrayAfter(array, y)) = InitializedUpTo(array)
               /\ array # LastArray(y) => ArrayAfter(array, y) \in Ahead(Active, y)
<1> DEFINE y == request.swap_for_y
<1>1. y \in BOOLEAN /\ snapshot.bitmap \subseteq Indexes
  BY DEF Inductive, SnapshotFits
<1>2. /\ BinArrayMinIndex \in Int /\ BinArrayMaxIndex \in Int
      /\ array \in Indexes /\ array \in Int /\ Active \in Int
  BY <1>1, ArrayAssumption DEF Ahead, Indexes
<1> HIDE DEF Active
<1>3. ASSUME NEW i \in snapshot.bitmap
      PROVE  i \in Int /\ BinArrayMinIndex <= i /\ i <= BinArrayMaxIndex
  BY <1>1, <1>2 DEF Indexes
<1>4. ASSUME NEW i \in snapshot.bitmap
      PROVE  i \notin Ahead(ArrayAfter(array, y), y) <=> i \in Ahead(array, ~y)
  BY <1>1, <1>2, <1>3, <1>4 DEF Ahead, ArrayAfter
<1>5. InitializedBefore(ArrayAfter(array, y)) = InitializedUpTo(array)
  BY <1>4 DEF InitializedBefore, InitializedUpTo, Active
<1>6. array # LastArray(y) => ArrayAfter(array, y) \in Ahead(Active, y)
  BY <1>1, <1>2 DEF LastArray, ArrayAfter, Ahead, Indexes
<1> QED
  BY <1>5, <1>6

\* The last array is not behind any other.
LEMMA UpToTheLast ==
    ASSUME Inductive
    PROVE  InitializedUpTo(LastArray(request.swap_for_y)) =
             snapshot.bitmap \cap Ahead(Active, request.swap_for_y)
<1>1. request.swap_for_y \in BOOLEAN /\ snapshot.bitmap \subseteq Indexes
  BY DEF Inductive, SnapshotFits
<1>2. Ahead(LastArray(request.swap_for_y), ~request.swap_for_y) = Indexes
  BY <1>1 DEF Ahead, LastArray, Indexes
<1> QED
  BY <1>1, <1>2 DEF InitializedUpTo, Active

LEMMA HydratedIsComplete ==
    ASSUME NEW targets, plan.targets = targets, walk = NoWalk, phase = "hydrated",
           DOMAIN snapshot.arrays = Elements(targets)
    PROVE  WalkIsComplete
<1>1. walk.arrays = << >> /\ Elements(<< >>) = {}
  BY DEF NoWalk, Elements
<1>2. NoArrayIsSkipped
  BY <1>1 DEF NoArrayIsSkipped
<1> QED
  BY <1>1, <1>2 DEF WalkIsComplete

LEMMA InitIsComplete == Init => WalkIsComplete
<1> SUFFICES ASSUME Init PROVE WalkIsComplete
  OBVIOUS
<1>1. PICK targets : /\ snapshot = SnapshotOf(chain[1], targets, Source(1, 1))
                     /\ plan.targets = targets
  BY DEF Init
<1>2. DOMAIN snapshot.arrays = Elements(targets)
  BY <1>1 DEF SnapshotOf
<1> QED
  BY <1>1, <1>2, HydratedIsComplete DEF Init

\* What a step that stays with its snapshot has to show.
LEMMA StayingIsComplete ==
    ASSUME WalkIsComplete, Stays, phase' # "hydrated",
           phase' \in {"searching", "filling"} =>
             Active \in Indexes /\ walk'.start \in Ahead(Active, request.swap_for_y),
           phase' = "searching" =>
             walk'.arrays = InOrder(InitializedBefore(walk'.start), request.swap_for_y),
           phase' = "filling" =>
             /\ walk'.arrays # <<>> /\ walk'.arrays[Len(walk'.arrays)] = walk'.array
             /\ walk'.array \in Ahead(Active, request.swap_for_y),
           NoArrayIsSkipped'
    PROVE  WalkIsComplete'
<1>1. /\ snapshot' = snapshot /\ plan' = plan /\ request' = request
  BY DEF Stays
<1>2. Active' = Active /\ \A i : InitializedBefore(i)' = InitializedBefore(i)
  BY <1>1 DEF Active, InitializedBefore
<1> QED
  BY <1>1, <1>2 DEF WalkIsComplete

\* A walk that has ended says nothing more of its arrays.
LEMMA EndingIsComplete ==
    ASSUME WalkIsComplete, Stays, walk' = walk,
           phase' \notin {"hydrated", "searching", "filling", "LiquiditySearchExhausted",
                          "MissingHydratedBinArray"}
    PROVE  WalkIsComplete'
<1>1. NoArrayIsSkipped'
  BY DEF WalkIsComplete, NoArrayIsSkipped, InitializedUpTo, Stays
<1> QED
  BY <1>1, StayingIsComplete

LEMMA BeginIsComplete == Inductive /\ WalkIsComplete /\ BeginWalk => WalkIsComplete'
<1> SUFFICES ASSUME Inductive, WalkIsComplete, BeginWalk PROVE WalkIsComplete'
  OBVIOUS
<1>1. Stays /\ walk'.arrays = << >> /\ walk'.start = Active
  BY DEF BeginWalk, Stays, NoWalk, Active
<1>2. phase' \in {"UnsupportedCollectFeeMode", "ArithmeticOverflow",
                  "ProtocolSearchRangeExceeded", "RequestedInputFullyConsumed", "searching"}
  BY DEF BeginWalk
<1>3. NoArrayIsSkipped'
  BY <1>1, <1>2 DEF NoArrayIsSkipped, Elements
<1>4. phase' = "searching" => Active \in Indexes
  BY DEF BeginWalk, InRange, Active
<1>5. Active \in Indexes => Active \in Ahead(Active, request.swap_for_y)
  BY ArrayAssumption DEF Ahead, Indexes
<1>6. InitializedBefore(Active) = {}
  BY DEF InitializedBefore
<1>7. InOrder({}, request.swap_for_y) = << >>
  BY InOrderOfNothing
<1> QED
  BY <1>1, <1>2, <1>3, <1>4, <1>5, <1>6, <1>7, StayingIsComplete

LEMMA SearchIsComplete == Inductive /\ WalkIsComplete /\ Search => WalkIsComplete'
<1> SUFFICES ASSUME Inductive, WalkIsComplete, Search PROVE WalkIsComplete'
  OBVIOUS
<1> DEFINE y == request.swap_for_y
           next == NextInitialized(snapshot, walk.start, y)
           met == InitializedBefore(walk.start)
<1>1. /\ Stays /\ phase = "searching" /\ y \in BOOLEAN
      /\ DOMAIN snapshot.arrays = Elements(plan.targets)
      /\ Active \in Indexes /\ walk.start \in Ahead(Active, y)
      /\ walk.arrays = InOrder(met, y)
      /\ Elements(walk.arrays) \subseteq DOMAIN snapshot.arrays
      /\ NoArrayIsSkipped
  BY DEF Search, Stop, EnterArray, Stays, WalkIsComplete, Inductive, NoArrayIsSkipped
<1>2. walk.start \in Indexes /\ met \in SUBSET Indexes
  BY <1>1 DEF Inductive, WalkFits, SnapshotFits, InitializedBefore
<1>3. walk.arrays \in Seq(Indexes) /\ Elements(walk.arrays) = met
  BY <1>1, <1>2, InOrderLists
<1>4. \A index : InitializedUpTo(index)' = InitializedUpTo(index)
  BY <1>1 DEF InitializedUpTo, Stays
<1>5. CASE walk' = walk /\ phase' = "BitmapExtensionRequired"
  BY <1>1, <1>5, EndingIsComplete
<1>6. ASSUME ~ExtensionRequired(snapshot, walk.start, y), next = {}, walk' = walk,
             phase' = "LiquiditySearchExhausted"
      PROVE  WalkIsComplete'
  <2>1. snapshot.bitmap \cap Ahead(walk.start, y) = {}
    BY <1>1, <1>2, <1>6, NothingIsNext
  <2>2. met = InitializedUpTo(LastArray(y))
    BY <2>1, UpToTheLast DEF InitializedBefore
  <2>3. NoArrayIsSkipped'
    BY <1>1, <1>3, <1>4, <1>6, <2>2 DEF NoArrayIsSkipped, Stays
  <2> QED
    BY <1>1, <1>6, <2>3, StayingIsComplete
<1>7. ASSUME ~ExtensionRequired(snapshot, walk.start, y), NEW index \in next
      PROVE  /\ InitializedUpTo(index) = met \cup {index} /\ index \notin met
             /\ index \in Ahead(Active, y) /\ index \in Indexes
             /\ Append(walk.arrays, index) = InOrder(InitializedUpTo(index), y)
  <2>1. /\ InitializedUpTo(index) = met \cup {index} /\ index \notin met
        /\ index \in Ahead(Active, y) /\ index \in Indexes
        /\ \A i \in met : Sooner(i, index, y)
    BY <1>1, <1>7, NothingBetween
  <2> HIDE DEF met
  <2>2. InOrder(met \cup {index}, y) = Append(InOrder(met, y), index)
    BY <1>1, <1>2, <2>1, InOrderAppends
  <2> QED
    BY <1>1, <2>1, <2>2
<1>8. ASSUME ~ExtensionRequired(snapshot, walk.start, y), NEW index \in next,
             index \notin DOMAIN snapshot.arrays,
             walk' = [walk EXCEPT !.array = index], phase' = "MissingHydratedBinArray"
      PROVE  WalkIsComplete'
  <2>1. walk'.arrays = walk.arrays /\ walk'.array = index
    BY <1>8 DEF Inductive, Walks
  <2>2. Elements(walk.arrays) = InitializedUpTo(index) \ {index}
    BY <1>3, <1>7, <1>8
  <2>3. NoArrayIsSkipped'
    BY <1>1, <1>4, <1>8, <2>1, <2>2 DEF NoArrayIsSkipped, Stays
  <2> QED
    BY <1>1, <1>8, <2>3, StayingIsComplete
<1>9. ASSUME ~ExtensionRequired(snapshot, walk.start, y), NEW index \in next,
             index \in DOMAIN snapshot.arrays, EnterArray(index)
      PROVE  WalkIsComplete'
  <2>1. /\ walk'.arrays = Append(walk.arrays, index) /\ walk'.array = index
        /\ walk'.start = walk.start /\ phase' = "filling"
    BY <1>9 DEF EnterArray, Stop, Inductive, Walks
  <2>2. /\ walk'.arrays # << >> /\ walk'.arrays[Len(walk'.arrays)] = index
        /\ Elements(walk'.arrays) = Elements(walk.arrays) \cup {index}
    <3>1. walk.arrays \in Seq(Indexes) /\ index \in Indexes
      BY <1>3, <1>7, <1>9
    <3> QED
      BY <2>1, <3>1, ElementsOfAppended
  <2>3. NoArrayIsSkipped'
    BY <1>1, <1>4, <1>7, <1>9, <2>1, <2>2 DEF NoArrayIsSkipped, Stays
  <2> QED
    BY <1>1, <1>7, <1>9, <2>1, <2>2, <2>3, StayingIsComplete
<1> QED
  BY <1>5, <1>6, <1>8, <1>9 DEF Search, Stop

LEMMA FillIsComplete == Inductive /\ WalkIsComplete /\ FillOneBin => WalkIsComplete'
<1> SUFFICES ASSUME Inductive, WalkIsComplete, FillOneBin PROVE WalkIsComplete'
  OBVIOUS
<1> DEFINE y == request.swap_for_y
<1>1. /\ Stays /\ phase = "filling" /\ y \in BOOLEAN
      /\ Active \in Indexes /\ walk.start \in Ahead(Active, y)
      /\ walk.arrays # << >> /\ walk.arrays[Len(walk.arrays)] = walk.array
      /\ walk.array \in Ahead(Active, y)
      /\ walk.arrays = InOrder(InitializedUpTo(walk.array), y)
      /\ NoArrayIsSkipped
  BY DEF FillOneBin, Stop, Stays, WalkIsComplete, Inductive, NoArrayIsSkipped
<1>2. Elements(walk.arrays) = InitializedUpTo(walk.array)
  <2>1. InitializedUpTo(walk.array) \in SUBSET Indexes
    BY DEF Inductive, SnapshotFits, InitializedUpTo
  <2> QED
    BY <1>1, <2>1, InOrderLists
<1>3. \A index : InitializedUpTo(index)' = InitializedUpTo(index)
  BY <1>1 DEF InitializedUpTo, Stays
<1>4. walk'.arrays = walk.arrays /\ walk'.array = walk.array
  BY DEF FillOneBin, Inductive, Walks
<1>5. CASE phase' = "ArithmeticOverflow"
  <2>1. NoArrayIsSkipped'
    BY <1>1, <1>3, <1>4, <1>5 DEF NoArrayIsSkipped, Stays
  <2> QED
    BY <1>1, <1>5, <2>1, StayingIsComplete
<1>6. ASSUME NEW left, phase' = WalkOn(left),
             walk'.start = IF WalkOn(left) = "searching" THEN ArrayAfter(walk.array, y)
                           ELSE walk.start
      PROVE  WalkIsComplete'
  <2>1. CASE phase' = "searching"
    <3>1. walk'.start = ArrayAfter(walk.array, y) /\ walk.array # LastArray(y)
      BY <1>6, <2>1 DEF WalkOn
    <3>2. /\ InitializedBefore(walk'.start) = InitializedUpTo(walk.array)
          /\ walk'.start \in Ahead(Active, y)
      BY <1>1, <3>1, BeforeTheNext
    <3>3. NoArrayIsSkipped'
      BY <1>1, <1>3, <1>4, <2>1 DEF NoArrayIsSkipped, Stays
    <3> QED
      BY <1>1, <1>4, <2>1, <3>2, <3>3, StayingIsComplete
  <2>2. CASE phase' = "filling"
    <3>1. walk'.start = walk.start
      BY <1>6, <2>2
    <3>2. NoArrayIsSkipped'
      BY <1>1, <1>3, <1>4, <2>2 DEF NoArrayIsSkipped, Stays
    <3> QED
      BY <1>1, <1>4, <2>2, <3>1, <3>2, StayingIsComplete
  <2>3. CASE phase' = "LiquiditySearchExhausted"
    <3>1. walk.array = LastArray(y)
      BY <1>6, <2>3 DEF WalkOn
    <3>2. NoArrayIsSkipped'
      BY <1>1, <1>2, <1>3, <1>4, <2>3, <3>1 DEF NoArrayIsSkipped, Stays
    <3> QED
      BY <1>1, <2>3, <3>2, StayingIsComplete
  <2>4. CASE phase' = "RequestedInputFullyConsumed"
    <3>1. NoArrayIsSkipped'
      BY <1>1, <1>3, <1>4, <2>4 DEF NoArrayIsSkipped, Stays
    <3> QED
      BY <1>1, <2>4, <3>1, StayingIsComplete
  <2> QED
    BY <1>6, <2>1, <2>2, <2>3, <2>4 DEF WalkOn
<1>7. \/ phase' = "ArithmeticOverflow"
      \/ \E left : /\ phase' = WalkOn(left)
                   /\ walk'.start = IF WalkOn(left) = "searching"
                                    THEN ArrayAfter(walk.array, y) ELSE walk.start
  <2>1. walk \in Walks
    BY DEF Inductive
  <2> QED
    BY <2>1 DEF FillOneBin, Stop, Walks
<1> QED
  BY <1>5, <1>6, <1>7

LEMMA ExpandIsComplete ==
    ASSUME WalkIsComplete, Inductive, NEW slot \in DOMAIN chain,
           NEW generation \in 1 .. MaxGeneration, Expand(slot, generation)
    PROVE  WalkIsComplete'
<1>1. CASE phase' = "StaleState" /\ UNCHANGED <<plan, snapshot, walk>>
  <2>1. Stays
    BY <1>1 DEF Expand, Stays
  <2> QED
    BY <1>1, <2>1, EndingIsComplete
<1>2. ASSUME NEW targets,
             plan' = [plan EXCEPT !.source = Source(generation, slot), !.targets = targets],
             snapshot' = SnapshotOf(chain[slot], targets, Source(generation, slot)),
             walk' = NoWalk, phase' = "hydrated"
      PROVE  WalkIsComplete'
  <2>1. plan'.targets = targets
    BY <1>2 DEF Inductive, PlanFits
  <2>2. DOMAIN snapshot'.arrays = Elements(targets)
    BY <1>2 DEF SnapshotOf
  <2>3. walk'.arrays = << >> /\ Elements(<< >>) = {}
    BY <1>2 DEF NoWalk, Elements
  <2>4. NoArrayIsSkipped'
    BY <1>2, <2>3 DEF NoArrayIsSkipped
  <2> QED
    BY <1>2, <2>1, <2>2, <2>3, <2>4 DEF WalkIsComplete
<1> QED
  BY <1>1, <1>2 DEF Expand

LEMMA NextIsComplete == Inductive /\ WalkIsComplete /\ [Next]_vars => WalkIsComplete'
<1> SUFFICES ASSUME Inductive, WalkIsComplete, [Next]_vars PROVE WalkIsComplete'
  OBVIOUS
<1>1. ASSUME UNCHANGED <<request, snapshot, plan, walk, phase>> PROVE WalkIsComplete'
  BY <1>1 DEF WalkIsComplete, NoArrayIsSkipped, Active, InitializedBefore, InitializedUpTo
<1>2. ASSUME NEW pool, PoolMoves(pool) PROVE WalkIsComplete'
  BY <1>1, <1>2 DEF PoolMoves
<1>3. ASSUME NEW provided, NEW buffers, PlanAccounts(provided, buffers) PROVE WalkIsComplete'
  <2>1. walk' = walk /\ Stays /\ phase' \in {"InvalidLayout", "planned"}
    BY <1>3 DEF PlanAccounts, Stays
  <2> QED
    BY <2>1, EndingIsComplete
<1>4. ASSUME NEW tables, Compile(tables) PROVE WalkIsComplete'
  <2>1. walk' = walk /\ Stays /\ phase' \in {"AccountFootprintExceeded", "compiled"}
    BY <1>4 DEF Compile, Stays
  <2> QED
    BY <2>1, EndingIsComplete
<1>5. CASE UNCHANGED vars
  BY <1>1, <1>5 DEF vars
<1> QED
  BY <1>2, <1>3, <1>4, <1>5, BeginIsComplete, SearchIsComplete, FillIsComplete,
     ExpandIsComplete DEF Next

(***************************************************************************)
(* What a walk pays and takes                                              *)
(***************************************************************************)
BinsAreRead ==
    \A bin \in Elements(walk.bins) :
        BinArrayIndex(bin) \in DOMAIN snapshot.arrays \cap snapshot.bitmap

\* What was put in so far but for the fee, which FillsAreHonest compares with
\* what was taken out.
Spent(onInput) == request.amount - walk.left - PaidInFees(onInput)

AccountedFor(onInput) ==
    /\ TakenFromBins(onInput) <= HeldByWalked
    /\ walk.protocol <= walk.fee
    /\ Spent(onInput) \in Nat
    /\ \E bin \in Touched : NoBetterThan(bin.price, Spent(onInput), TakenFromBins(onInput))

WalkIsHonest ==
    /\ BinsAreRead
    /\ phase \notin {"hydrated", "ArithmeticOverflow"} =>
         IF walk.bins = <<>>
         THEN walk.left = request.amount /\ walk.out = 0 /\ walk.fee = 0 /\ walk.protocol = 0
         ELSE \E onInput \in FeeOnInput(snapshot.pair, request.swap_for_y) : AccountedFor(onInput)

\* A bin of the snapshot.
AsRead(bin) == snapshot.arrays[BinArrayIndex(bin)][bin]

LEMMA ReadBinsAreBins ==
    ASSUME Inductive, NEW bin \in Int,
           BinArrayIndex(bin) \in DOMAIN snapshot.arrays \cap snapshot.bitmap
    PROVE  AsRead(bin) \in Bins /\ Holds(AsRead(bin)) \in Nat
<1> DEFINE index == BinArrayIndex(bin)
<1>1. snapshot.arrays[index] \in [LowerBin(index) .. UpperBin(index) -> Bins]
  BY DEF Inductive, SnapshotFits
<1>2. bin \in LowerBin(index) .. UpperBin(index)
  BY BinLiesInItsArray
<1>3. AsRead(bin) \in Bins
  BY <1>1, <1>2 DEF AsRead
<1> HIDE DEF index
<1>4. \A b \in Bins : Holds(b) \in Nat
  BY StoredIsNat DEF Holds, Stored
<1> QED
  BY <1>3, <1>4

HeldInTurn == [k \in DOMAIN walk.bins |-> Holds(AsRead(walk.bins[k]))]

LEMMA HeldIsNat ==
    ASSUME Inductive, BinsAreRead
    PROVE  HeldInTurn \in Seq(Nat) /\ HeldByWalked = SumOf(HeldInTurn) /\ HeldByWalked \in Nat
<1>1. walk.bins \in Seq(Int)
  BY DEF Inductive, Walks
<1>2. \A k \in DOMAIN walk.bins : Holds(AsRead(walk.bins[k])) \in Nat
  BY <1>1, ReadBinsAreBins DEF BinsAreRead, Elements
<1>3. HeldInTurn \in Seq(Nat)
  BY <1>1, <1>2 DEF HeldInTurn
<1>4. HeldByWalked = SumOf(HeldInTurn)
  BY DEF HeldByWalked, HeldInTurn, AsRead
<1> QED
  BY <1>3, <1>4, SumIsNat

\* What a step through one bin is, whatever came of it.
LEMMA OneBinIsFilled ==
    ASSUME Inductive, FillOneBin
    PROVE  /\ Stays /\ phase = "filling" /\ walk'.bins = Append(walk.bins, walk.bin)
           /\ walk.bins \in Seq(Int) /\ walk.bin \in Int /\ AsRead(walk.bin) \in Bins
           /\ BinAt(walk.bin) = AsRead(walk.bin)
           /\ BinArrayIndex(walk.bin) \in DOMAIN snapshot.arrays \cap snapshot.bitmap
           /\ phase' # "hydrated"
           /\ \/ phase' = "ArithmeticOverflow"
              \/ \E onInput \in FeeOnInput(snapshot.pair, request.swap_for_y) : \E fill :
                    /\ Filled(fill, walk.left, AsRead(walk.bin), request.swap_for_y, onInput)
                    /\ walk'.left = walk.left - fill.consumed /\ walk'.out = walk.out + fill.out
                    /\ walk'.fee = walk.fee + fill.fee
                    /\ walk'.protocol = walk.protocol + fill.protocol
<1>1. /\ phase = "filling" /\ walk \in Walks /\ walk.bin \in Int
      /\ walk.array \in DOMAIN snapshot.arrays \cap snapshot.bitmap /\ walk.array \in Indexes
      /\ walk.bin \in LowerBin(walk.array) .. UpperBin(walk.array)
      /\ BinAt(walk.bin) \in Bins
  BY BinIsThere DEF FillOneBin
<1>2. BinArrayIndex(walk.bin) = walk.array
  BY <1>1, ArrayOfABin
<1>3. BinAt(walk.bin) = AsRead(walk.bin)
  BY <1>2 DEF BinAt, AsRead
<1>4. walk.bins \in Seq(Int)
  BY <1>1 DEF Walks
<1>5. PICK onInput \in FeeOnInput(snapshot.pair, request.swap_for_y) :
         Fails \/ \E fill : Passes(fill) /\ FilledAndFits(fill, onInput)
  BY BinIsTried
<1>6. CASE Fails
  <2>1. /\ walk'.bins = Append(walk.bins, walk.bin) /\ phase' = "ArithmeticOverflow"
        /\ Stays
    BY <1>1, <1>6 DEF Fails, Stop, Stays, Walks
  <2> QED
    BY <1>1, <1>2, <1>3, <1>4, <2>1
<1>7. ASSUME NEW fill, Passes(fill), FilledAndFits(fill, onInput)
      PROVE  /\ walk'.bins = Append(walk.bins, walk.bin) /\ Stays /\ phase' # "hydrated"
             /\ Filled(fill, walk.left, AsRead(walk.bin), request.swap_for_y, onInput)
             /\ walk'.left = walk.left - fill.consumed /\ walk'.out = walk.out + fill.out
             /\ walk'.fee = walk.fee + fill.fee
             /\ walk'.protocol = walk.protocol + fill.protocol
  <2>1. /\ walk'.bins = Append(walk.bins, walk.bin)
        /\ walk'.left = walk.left - fill.consumed /\ walk'.out = walk.out + fill.out
        /\ walk'.fee = walk.fee + fill.fee
        /\ walk'.protocol = walk.protocol + fill.protocol
    BY <1>1, <1>7 DEF Passes, Walks
  <2>2. Stays /\ phase' # "hydrated"
    BY <1>7 DEF Passes, Stop, Stays, WalkOn
  <2>3. Filled(fill, walk.left, AsRead(walk.bin), request.swap_for_y, onInput)
    BY <1>3, <1>7 DEF FilledAndFits
  <2> QED
    BY <2>1, <2>2, <2>3
<1> QED
  BY <1>1, <1>2, <1>3, <1>4, <1>5, <1>6, <1>7

LEMMA WalkedGrows ==
    ASSUME Inductive, BinsAreRead, FillOneBin
    PROVE  /\ BinsAreRead'
           /\ Touched' = Touched \cup {AsRead(walk.bin)}
           /\ HeldByWalked' = HeldByWalked + Holds(AsRead(walk.bin))
           /\ Holds(AsRead(walk.bin)) \in Nat
<1>1. /\ Stays /\ walk'.bins = Append(walk.bins, walk.bin)
      /\ walk.bins \in Seq(Int) /\ walk.bin \in Int
      /\ BinArrayIndex(walk.bin) \in DOMAIN snapshot.arrays \cap snapshot.bitmap
  BY OneBinIsFilled
<1>2. Elements(walk'.bins) = Elements(walk.bins) \cup {walk.bin}
  BY <1>1, ElementsOfAppended
<1>3. BinsAreRead'
  BY <1>1, <1>2 DEF BinsAreRead, Stays
<1>4. Touched' = Touched \cup {AsRead(walk.bin)}
  <2>1. Touched = {AsRead(b) : b \in Elements(walk.bins)}
    BY DEF Touched, AsRead
  <2>2. Touched' = {AsRead(b) : b \in Elements(walk'.bins)}
    BY <1>1 DEF Touched, AsRead, Stays
  <2> QED
    BY <1>2, <2>1, <2>2
<1>5. Holds(AsRead(walk.bin)) \in Nat
  BY <1>1, ReadBinsAreBins
<1>6. HeldByWalked' = HeldByWalked + Holds(AsRead(walk.bin))
  <2> DEFINE more == [k \in DOMAIN walk'.bins |-> Holds(AsRead(walk'.bins[k]))]
             s == HeldInTurn
             x == Holds(AsRead(walk.bin))
  <2>1. HeldByWalked' = SumOf(more)
    BY <1>1 DEF HeldByWalked, Holds, AsRead, Stays
  <2>2. HeldInTurn \in Seq(Nat) /\ HeldByWalked = SumOf(HeldInTurn)
    BY HeldIsNat
  <2>3. more = Append(s, x)
    <3> DEFINE n == Len(walk.bins)
    <3>1. /\ n \in Nat /\ DOMAIN walk.bins = 1 .. n /\ DOMAIN walk'.bins = 1 .. n + 1
          /\ walk'.bins[n + 1] = walk.bin
          /\ \A k \in 1 .. n : walk'.bins[k] = walk.bins[k]
      BY <1>1
    <3>2. Len(s) = n /\ s \in Seq(Nat) /\ \A k \in 1 .. n : s[k] = Holds(AsRead(walk.bins[k]))
      BY <2>2, <3>1 DEF HeldInTurn
    <3>3. /\ DOMAIN more = 1 .. n + 1 /\ more[n + 1] = x
          /\ \A k \in 1 .. n : more[k] = s[k]
      BY <3>1, <3>2
    <3>4. more \in Seq(Nat) /\ Len(more) = n + 1
      <4>1. \A k \in 1 .. n + 1 : Holds(AsRead(walk'.bins[k])) \in Nat
        <5>1. \A k \in 1 .. n : s[k] \in Nat
          BY <3>2
        <5>2. \A k \in 1 .. n + 1 : k \in 1 .. n \/ k = n + 1
          BY <3>1
        <5> QED
          BY <1>5, <3>1, <3>2, <5>1, <5>2
      <4> QED
        BY <3>1, <4>1
    <3> HIDE DEF more, s, x, n
    <3>5. x \in Nat
      BY <1>5 DEF x
    <3>6. Append(s, x) \in Seq(Nat) /\ Len(Append(s, x)) = n + 1
          /\ Append(s, x)[n + 1] = x /\ \A k \in 1 .. n : Append(s, x)[k] = s[k]
      BY <3>2, <3>5
    <3>7. \A k \in 1 .. n + 1 : more[k] = Append(s, x)[k]
      BY <3>1, <3>3, <3>6
    <3> QED
      BY <3>4, <3>6, <3>7
  <2> HIDE DEF more, s, x
  <2>4. s \in Seq(Nat) /\ x \in Nat /\ HeldByWalked = SumOf(s)
    BY <1>5, <2>2 DEF s, x
  <2>5. SumOf(more) = SumOf(s) + x
    BY <2>3, <2>4, SumAppends
  <2> QED
    BY <2>1, <2>4, <2>5 DEF x
<1> QED
  BY <1>3, <1>4, <1>5, <1>6

\* There is one place a fee is paid at.
LEMMA OneFeeSide ==
    ASSUME NEW pair, NEW swapForY, NEW a \in FeeOnInput(pair, swapForY),
           NEW b \in FeeOnInput(pair, swapForY)
    PROVE  a = b /\ a \in BOOLEAN
<1>1. CASE pair.collect_fee_mode = 0
  BY <1>1 DEF FeeOnInput
<1>2. CASE pair.collect_fee_mode = 1
  <2>1. FeeOnInput(pair, swapForY) = {~swapForY}
    BY <1>2 DEF FeeOnInput
  <2> QED
    BY <2>1
<1>3. CASE pair.collect_fee_mode # 0 /\ pair.collect_fee_mode # 1
  BY <1>3 DEF FeeOnInput
<1> QED
  BY <1>1, <1>2, <1>3

\* What is accounted for before a bin is filled.
LEMMA SoFar ==
    ASSUME Inductive, WalkIsHonest, phase = "filling",
           NEW onInput \in FeeOnInput(snapshot.pair, request.swap_for_y)
    PROVE  /\ Spent(onInput) \in Nat /\ TakenFromBins(onInput) \in Nat
           /\ TakenFromBins(onInput) <= HeldByWalked
           /\ walk.protocol <= walk.fee
           /\ IF walk.bins = << >> THEN Spent(onInput) = 0 /\ TakenFromBins(onInput) = 0
              ELSE \E b \in Touched :
                      NoBetterThan(b.price, Spent(onInput), TakenFromBins(onInput))
<1>1. /\ walk.left \in Nat /\ walk.out \in Nat /\ walk.fee \in Nat /\ walk.protocol \in Nat
      /\ request.amount \in Nat /\ HeldByWalked \in Nat
  BY CountersAreNat, HeldIsNat, WidthsAreNat, PoolAssumption DEF Inductive, WalkIsHonest
<1>2. onInput \in BOOLEAN
  BY OneFeeSide
<1>3. TakenFromBins(onInput) \in Nat
  BY <1>1, <1>2 DEF TakenFromBins
<1>4. CASE walk.bins = << >>
  <2>1. walk.left = request.amount /\ walk.out = 0 /\ walk.fee = 0 /\ walk.protocol = 0
    BY <1>4 DEF WalkIsHonest
  <2>2. Spent(onInput) = 0 /\ TakenFromBins(onInput) = 0
    BY <1>1, <2>1 DEF Spent, PaidInFees, TakenFromBins
  <2> QED
    BY <1>1, <1>4, <2>1, <2>2
<1>5. CASE walk.bins # << >>
  <2>1. PICK side \in FeeOnInput(snapshot.pair, request.swap_for_y) : AccountedFor(side)
    BY <1>5 DEF WalkIsHonest
  <2>2. side = onInput
    BY OneFeeSide
  <2> QED
    BY <1>3, <1>5, <2>1, <2>2 DEF AccountedFor
<1> QED
  BY <1>4, <1>5

LEMMA FillIsHonest ==
    ASSUME Inductive, WalkIsHonest, FillOneBin
    PROVE  WalkIsHonest'
<1> DEFINE y == request.swap_for_y
           bin == AsRead(walk.bin)
<1>1. /\ Stays /\ phase = "filling" /\ walk'.bins = Append(walk.bins, walk.bin)
      /\ walk.bins \in Seq(Int) /\ bin \in Bins /\ y \in BOOLEAN /\ request.amount \in Nat
      /\ walk.left \in Nat /\ walk.out \in Nat /\ walk.fee \in Nat /\ walk.protocol \in Nat
  BY OneBinIsFilled, CountersAreNat, WidthsAreNat, PoolAssumption DEF Inductive
<1>2. /\ BinsAreRead' /\ Touched' = Touched \cup {bin}
      /\ HeldByWalked' = HeldByWalked + Holds(bin) /\ Holds(bin) \in Nat
      /\ HeldByWalked \in Nat
  BY WalkedGrows, HeldIsNat DEF WalkIsHonest
<1>3. Holds(bin) = Stored(bin, y) /\ bin.price \in Nat
  BY <1>1, BinsAreNat DEF Holds, Stored
<1>4. walk'.bins # << >>
  BY <1>1
<1> HIDE DEF bin
<1>5. CASE phase' = "ArithmeticOverflow"
  BY <1>2, <1>5 DEF WalkIsHonest
<1>6. ASSUME NEW onInput \in FeeOnInput(snapshot.pair, y), NEW fill,
             Filled(fill, walk.left, bin, y, onInput),
             walk'.left = walk.left - fill.consumed, walk'.out = walk.out + fill.out,
             walk'.fee = walk.fee + fill.fee,
             walk'.protocol = walk.protocol + fill.protocol
      PROVE  WalkIsHonest'
  <2>1. /\ fill.consumed \in 0 .. walk.left /\ fill.out \in Nat /\ fill.fee \in Nat
        /\ fill.protocol \in Nat /\ fill.protocol <= fill.fee
        /\ PutIn(fill, onInput) \in Nat /\ TakenOut(fill, onInput) \in Nat
        /\ TakenOut(fill, onInput) <= Holds(bin)
        /\ NoBetter(bin.price, PutIn(fill, onInput), TakenOut(fill, onInput), y)
    BY <1>3, <1>6 DEF Filled
  <2>2. /\ Spent(onInput)' = Spent(onInput) + PutIn(fill, onInput)
        /\ TakenFromBins(onInput)' = TakenFromBins(onInput) + TakenOut(fill, onInput)
        /\ TakenFromBins(onInput) \in Nat
    <3>1. onInput \in BOOLEAN /\ request' = request
      BY <1>1, OneFeeSide DEF Stays
    <3>0. /\ request.amount \in Nat /\ walk.left \in Nat /\ walk.out \in Nat /\ walk.fee \in Nat
          /\ fill.consumed \in Int /\ fill.out \in Nat /\ fill.fee \in Nat
          /\ walk'.left = walk.left - fill.consumed /\ walk'.out = walk.out + fill.out
          /\ walk'.fee = walk.fee + fill.fee
      BY <1>1, <1>6, <2>1
    <3>2. CASE onInput = TRUE
      <4>1. /\ Spent(onInput) = request.amount - walk.left - walk.fee
            /\ Spent(onInput)' = request.amount - walk'.left - walk'.fee
            /\ PutIn(fill, onInput) = fill.consumed - fill.fee
            /\ TakenFromBins(onInput) = walk.out + 0 /\ TakenFromBins(onInput)' = walk'.out + 0
            /\ TakenOut(fill, onInput) = fill.out + 0
        BY <3>1, <3>2 DEF Spent, PaidInFees, TakenFromBins, PutIn, TakenOut
      <4> QED
        BY <3>0, <4>1
    <3>3. CASE onInput = FALSE
      <4>1. /\ Spent(onInput) = request.amount - walk.left - 0
            /\ Spent(onInput)' = request.amount - walk'.left - 0
            /\ PutIn(fill, onInput) = fill.consumed - 0
            /\ TakenFromBins(onInput) = walk.out + walk.fee
            /\ TakenFromBins(onInput)' = walk'.out + walk'.fee
            /\ TakenOut(fill, onInput) = fill.out + fill.fee
        BY <3>1, <3>3 DEF Spent, PaidInFees, TakenFromBins, PutIn, TakenOut
      <4> QED
        BY <3>0, <4>1
    <3> QED
      BY <3>1, <3>2, <3>3
  <2>3. /\ Spent(onInput) \in Nat /\ TakenFromBins(onInput) <= HeldByWalked
        /\ walk.protocol <= walk.fee
        /\ IF walk.bins = << >> THEN Spent(onInput) = 0 /\ TakenFromBins(onInput) = 0
           ELSE \E b \in Touched : NoBetterThan(b.price, Spent(onInput), TakenFromBins(onInput))
    BY <1>1, SoFar
  <2> DEFINE in == Spent(onInput)
             out == TakenFromBins(onInput)
             in2 == PutIn(fill, onInput)
             out2 == TakenOut(fill, onInput)
  <2>4. \E b \in Touched \cup {bin} : NoBetter(b.price, in + in2, out + out2, y)
    <3>0. in \in Nat /\ out \in Nat /\ in2 \in Nat /\ out2 \in Nat
          /\ NoBetter(bin.price, in2, out2, y)
      BY <2>1, <2>2, <2>3
    <3>1. CASE walk.bins = << >>
      <4>1. in = 0 /\ out = 0
        BY <2>3, <3>1
      <4>2. in + in2 = in2 /\ out + out2 = out2
        BY <3>0, <4>1
      <4> HIDE DEF in, out, in2, out2
      <4> QED
        BY <3>0, <4>2
    <3>2. CASE walk.bins # << >>
      <4>1. PICK b \in Touched : NoBetterThan(b.price, in, out)
        BY <2>3, <3>2
      <4>2. NoBetter(b.price, in, out, y)
        BY <4>1 DEF NoBetterThan, NoBetter
      <4>3. b \in Bins
        BY <1>1, ReadBinsAreBins DEF Touched, AsRead, WalkIsHonest, BinsAreRead, Elements
      <4>4. b.price \in Nat
        BY <4>3, BinsAreNat
      <4> DEFINE p == b.price
                 q == bin.price
      <4>5. p \in Nat /\ q \in Nat /\ y \in BOOLEAN
            /\ NoBetter(p, in, out, y) /\ NoBetter(q, in2, out2, y)
        BY <1>1, <1>3, <3>0, <4>2, <4>4
      <4> HIDE DEF in, out, in2, out2, p, q, y
      <4>6. \E best \in {p, q} : NoBetter(best, in + in2, out + out2, y)
        BY <3>0, <4>5, OneIsBest
      <4> QED
        BY <4>6 DEF p, q
    <3> QED
      BY <3>1, <3>2
  <2>5. AccountedFor(onInput)'
    <3>1. PICK b \in Touched' : NoBetter(b.price, Spent(onInput)', TakenFromBins(onInput)', y)
      BY <1>2, <2>2, <2>4
    <3>2. request' = request
      BY <1>1 DEF Stays
    <3>3. NoBetterThan(b.price, Spent(onInput), TakenFromBins(onInput))'
      BY <3>1, <3>2 DEF NoBetterThan, NoBetter
    <3>4. Spent(onInput)' \in Nat
      BY <2>1, <2>2, <2>3
    <3>5. walk'.protocol <= walk'.fee
      BY <1>1, <1>6, <2>1, <2>3
    <3>6. TakenFromBins(onInput)' <= HeldByWalked'
      <4> DEFINE a == TakenFromBins(onInput)
                 b2 == TakenOut(fill, onInput)
                 c == HeldByWalked
                 d == Holds(bin)
      <4>1. a \in Nat /\ b2 \in Nat /\ c \in Nat /\ d \in Nat /\ a <= c /\ b2 <= d
        BY <1>2, <2>1, <2>2, <2>3
      <4> HIDE DEF a, b2, c, d
      <4>2. a + b2 <= c + d
        BY <4>1
      <4> QED
        BY <1>2, <2>2, <4>2 DEF a, b2, c, d
    <3> QED
      BY <3>1, <3>3, <3>4, <3>5, <3>6 DEF AccountedFor
  <2>6. onInput \in FeeOnInput(snapshot.pair, request.swap_for_y)'
    BY <1>1 DEF Stays
  <2> QED
    BY <1>2, <1>4, <2>5, <2>6 DEF WalkIsHonest
<1> QED
  BY <1>5, <1>6, OneBinIsFilled DEF bin

\* What is said of a walk stays said while it and the snapshot stay.
LEMMA KeepingIsHonest ==
    ASSUME WalkIsHonest, UNCHANGED <<request, snapshot>>,
           walk'.bins = walk.bins, walk'.left = walk.left, walk'.out = walk.out,
           walk'.fee = walk.fee, walk'.protocol = walk.protocol,
           phase \notin {"hydrated", "ArithmeticOverflow"} \/ phase' = phase
    PROVE  WalkIsHonest'
<1>1. BinsAreRead'
  BY DEF WalkIsHonest, BinsAreRead
<1>2. \A onInput : AccountedFor(onInput)' <=> AccountedFor(onInput)
  BY DEF AccountedFor, TakenFromBins, HeldByWalked, Spent, PaidInFees, Touched, NoBetterThan,
         Holds
<1> QED
  BY <1>1, <1>2 DEF WalkIsHonest

LEMMA StartingIsHonest ==
    ASSUME walk'.bins = << >>,
           \/ phase' = "hydrated"
           \/ /\ walk'.left = request'.amount /\ walk'.out = 0
              /\ walk'.fee = 0 /\ walk'.protocol = 0
    PROVE  WalkIsHonest'
BY DEF WalkIsHonest, BinsAreRead, Elements

LEMMA InitIsHonest == Init => WalkIsHonest
<1> SUFFICES ASSUME Init PROVE WalkIsHonest
  OBVIOUS
<1>1. walk.bins = << >> /\ phase = "hydrated"
  BY DEF Init, NoWalk
<1> QED
  BY <1>1 DEF WalkIsHonest, BinsAreRead, Elements

LEMMA NextIsHonest == Inductive /\ WalkIsHonest /\ [Next]_vars => WalkIsHonest'
<1> SUFFICES ASSUME Inductive, WalkIsHonest, [Next]_vars PROVE WalkIsHonest'
  OBVIOUS
<1>1. ASSUME UNCHANGED <<request, snapshot, walk>>,
             phase \notin {"hydrated", "ArithmeticOverflow"} \/ phase' = phase
      PROVE  WalkIsHonest'
  BY <1>1, KeepingIsHonest
<1>2. ASSUME NEW pool, PoolMoves(pool) PROVE WalkIsHonest'
  BY <1>1, <1>2 DEF PoolMoves
<1>3. CASE BeginWalk
  <2>1. /\ walk'.bins = << >> /\ walk'.left = request.amount /\ walk'.out = 0
        /\ walk'.fee = 0 /\ walk'.protocol = 0 /\ request' = request
    BY <1>3 DEF BeginWalk, NoWalk
  <2> QED
    BY <2>1, StartingIsHonest
<1>4. CASE Search
  <2>1. /\ walk'.bins = walk.bins /\ walk'.left = walk.left /\ walk'.out = walk.out
        /\ walk'.fee = walk.fee /\ walk'.protocol = walk.protocol
    BY <1>4 DEF Search, EnterArray, Inductive, Walks
  <2>2. UNCHANGED <<request, snapshot>> /\ phase = "searching"
    BY <1>4 DEF Search, EnterArray, Stop
  <2> QED
    BY <2>1, <2>2, KeepingIsHonest
<1>5. ASSUME NEW slot, NEW generation, Expand(slot, generation) PROVE WalkIsHonest'
  <2>1. CASE UNCHANGED <<request, snapshot, walk>>
    BY <1>1, <1>5, <2>1 DEF Expand
  <2>2. CASE walk' = NoWalk /\ phase' = "hydrated"
    <3>1. walk'.bins = << >>
      BY <2>2 DEF NoWalk
    <3> QED
      BY <2>2, <3>1, StartingIsHonest
  <2> QED
    BY <1>5, <2>1, <2>2 DEF Expand
<1>6. ASSUME NEW provided, NEW buffers, PlanAccounts(provided, buffers) PROVE WalkIsHonest'
  BY <1>1, <1>6 DEF PlanAccounts
<1>7. ASSUME NEW tables, Compile(tables) PROVE WalkIsHonest'
  BY <1>1, <1>7 DEF Compile
<1>8. CASE UNCHANGED vars
  BY <1>1, <1>8 DEF vars
<1> QED
  BY <1>2, <1>3, <1>4, <1>5, <1>6, <1>7, <1>8, FillIsHonest DEF Next

(***************************************************************************)
(* Why a walk fails                                                        *)
(***************************************************************************)
\* There is one reference of the volatility, if any.
LEMMA OneReference ==
    ASSUME NEW pair, NEW now, NEW a \in VolatilityReference(pair, now),
           NEW b \in VolatilityReference(pair, now)
    PROVE  a = b
BY DEF VolatilityReference

\* Totals that do not fit were taken from more than fits.
LEMMA TotalsAreHeld ==
    ASSUME Inductive, WalkIsHonest, phase = "filling",
           NEW onInput \in FeeOnInput(snapshot.pair, request.swap_for_y),
           NEW bin \in Bins, NEW fill,
           Filled(fill, walk.left, bin, request.swap_for_y, onInput), ~TotalsFit(fill)
    PROVE  HeldByWalked + Stored(bin, request.swap_for_y) > MaxU64
<1> DEFINE held == HeldByWalked
           stored == Stored(bin, request.swap_for_y)
           taken == TakenFromBins(onInput)
           more == TakenOut(fill, onInput)
<1>1. /\ walk.left \in Nat /\ walk.out \in Nat /\ walk.fee \in Nat /\ walk.protocol \in Nat
      /\ request.amount \in Nat /\ request.amount <= MaxU64 /\ held \in Nat /\ MaxU64 \in Nat
  <2>1. request.amount \in U64
    BY PoolAssumption DEF Inductive
  <2>2. request.amount \in Nat /\ request.amount <= MaxU64 /\ MaxU64 \in Nat
    BY <2>1, WidthAssumption DEF U64
  <2> QED
    BY <2>2, CountersAreNat, HeldIsNat DEF Inductive, WalkIsHonest
<1>2. /\ Spent(onInput) \in Nat /\ taken \in Nat /\ taken <= held
      /\ walk.protocol <= walk.fee
  BY SoFar
<1>3. /\ fill.consumed \in 0 .. walk.left
      /\ fill.out \in Nat /\ fill.fee \in Nat /\ fill.protocol \in Nat
      /\ fill.protocol <= fill.fee
      /\ PutIn(fill, onInput) \in Nat /\ more \in Nat /\ more <= stored
  BY DEF Filled
<1>4. stored \in Nat
  BY StoredIsNat
<1>5. onInput \in BOOLEAN
  BY OneFeeSide
<1>6. taken + more <= held + stored
  <2> HIDE DEF held, stored, taken, more
  <2> QED
    BY <1>1, <1>2, <1>3, <1>4
<1>7. walk.out + fill.out <= taken + more
  BY <1>1, <1>3, <1>5 DEF TakenFromBins, TakenOut
<1>8. CASE walk.out + fill.out > MaxU64
  <2> HIDE DEF held, stored, taken, more
  <2> QED
    BY <1>1, <1>2, <1>3, <1>4, <1>6, <1>7, <1>8 DEF held, stored
<1>9. CASE walk.fee + fill.fee > MaxU64
  <2>1. CASE onInput = TRUE
    <3>1. Spent(onInput) = request.amount - walk.left - walk.fee
          /\ PutIn(fill, onInput) = fill.consumed - fill.fee
      BY <2>1 DEF Spent, PaidInFees, PutIn
    <3>2. walk.fee + fill.fee <= request.amount
      BY <1>1, <1>2, <1>3, <3>1
    <3> QED
      BY <1>1, <1>3, <1>9, <3>2
  <2>2. CASE onInput = FALSE
    <3>1. walk.fee + fill.fee <= taken + more
      BY <1>1, <1>3, <2>2 DEF TakenFromBins, TakenOut
    <3> HIDE DEF held, stored, taken, more
    <3> QED
      BY <1>1, <1>2, <1>3, <1>4, <1>6, <1>9, <3>1 DEF held, stored
  <2> QED
    BY <1>5, <2>1, <2>2
<1>10. walk.protocol + fill.protocol <= walk.fee + fill.fee
  BY <1>1, <1>2, <1>3
<1> QED
  BY <1>1, <1>3, <1>8, <1>9, <1>10 DEF TotalsFit

LEMMA DearCannotBeFilled ==
    ASSUME NEW bin, bin.price = 0 \/ DearLayer(bin, request.swap_for_y)
    PROVE  CannotBeFilled(bin)
BY DEF DearLayer, TooDear, CannotBeFilled

LEMMA FillFailsRightly ==
    ASSUME Inductive, WalkIsHonest, FillOneBin
    PROVE  FeesFitTheRest'
<1> DEFINE bin == AsRead(walk.bin)
           y == request.swap_for_y
<1>1. /\ Stays /\ phase = "filling" /\ walk \in Walks /\ bin \in Bins
      /\ BinAt(walk.bin) = bin
  BY OneBinIsFilled DEF Inductive
<1>2. /\ HeldByWalked' = HeldByWalked + Holds(bin) /\ Holds(bin) \in Nat
      /\ HeldByWalked \in Nat /\ Holds(bin) = Stored(bin, y) /\ MaxU64 \in Nat
  BY WalkedGrows, HeldIsNat, WidthAssumption DEF WalkIsHonest, Holds, Stored
<1>3. PICK onInput \in FeeOnInput(snapshot.pair, y),
           reference \in VolatilityReference(snapshot.pair, snapshot.now) :
         \/ Fails /\ FailsWith(reference, onInput)
         \/ \E fill : Passes(fill)
  BY BinIsTried
<1> HIDE DEF bin, y
<1>4. ASSUME NEW fill, Passes(fill) PROVE FeesFitTheRest'
  BY <1>4 DEF Passes, Stop, WalkOn, FeesFitTheRest
<1>5. CASE Fails /\ FailsWith(reference, onInput)
  <2>1. /\ walk'.bin = walk.bin /\ walk'.array = walk.array
        /\ snapshot' = snapshot /\ request' = request
    BY <1>1, <1>5 DEF Fails, Stays, Walks
  <2>2. BinAt(walk.bin)' = bin
    BY <1>1, <2>1 DEF BinAt
  <2>3. CASE TotalFeeRate(snapshot.pair, Volatility(reference)) = {}
    <3>1. HasNoFeeRate(snapshot.pair, snapshot.now, walk.bin)
      BY <1>3, <2>3, OneReference DEF HasNoFeeRate, Volatility
    <3> QED
      BY <2>1, <3>1 DEF FeesFitTheRest
  <2>4. CASE bin.price = 0 \/ DearLayer(bin, y)
    <3>1. CannotBeFilled(bin)
      BY <2>4, DearCannotBeFilled DEF y
    <3>2. CannotBeFilled(bin)'
      BY <2>1, <3>1 DEF CannotBeFilled, bin, AsRead
    <3>3. CannotBeFilled(BinAt(walk.bin))'
      BY <2>1, <2>2, <3>2 DEF bin, AsRead
    <3> QED
      BY <3>3 DEF FeesFitTheRest
  <2>5. CASE HeldByWalked' > MaxU64
    BY <2>5 DEF FeesFitTheRest
  <2>6. CASE snapshot.pair.protocol_share > BasisPointMax
    BY <2>1, <2>6 DEF FeesFitTheRest
  <2>7. Stored(bin, y) > MaxU64 => HeldByWalked' > MaxU64
    BY <1>2
  <2>8. ASSUME NEW fill, Filled(fill, walk.left, bin, y, onInput), ~TotalsFit(fill)
        PROVE  HeldByWalked' > MaxU64
    BY <1>1, <1>2, <2>8, TotalsAreHeld DEF y
  <2> QED
    BY <1>1, <1>5, <2>3, <2>4, <2>5, <2>6, <2>7, <2>8 DEF FailsWith, BinFails, y
<1> QED
  BY <1>3, <1>4, <1>5

LEMMA InitFailsNothing == Init => FeesFitTheRest
BY DEF Init, FeesFitTheRest

LEMMA NextFailsRightly ==
    Inductive /\ WalkIsHonest /\ FeesFitTheRest /\ [Next]_vars => FeesFitTheRest'
<1> SUFFICES ASSUME Inductive, WalkIsHonest, FeesFitTheRest, [Next]_vars PROVE FeesFitTheRest'
  OBVIOUS
<1>1. ASSUME UNCHANGED <<request, snapshot, walk, phase>> PROVE FeesFitTheRest'
  BY <1>1 DEF FeesFitTheRest, HeldByWalked, Holds, BinAt, CannotBeFilled
<1>2. ASSUME phase' # "ArithmeticOverflow" PROVE FeesFitTheRest'
  BY <1>2 DEF FeesFitTheRest
<1>3. ASSUME NEW pool, PoolMoves(pool) PROVE FeesFitTheRest'
  BY <1>1, <1>3 DEF PoolMoves
<1>4. CASE BeginWalk
  <2>1. phase' = "ArithmeticOverflow" => VolatilityReference(snapshot.pair, snapshot.now) = {}
    BY <1>4 DEF BeginWalk
  <2>2. snapshot' = snapshot
    BY <1>4 DEF BeginWalk
  <2> QED
    BY <2>1, <2>2 DEF FeesFitTheRest, HasNoFeeRate
<1>5. CASE Search
  BY <1>2, <1>5 DEF Search, EnterArray, Stop
<1>6. ASSUME NEW slot, NEW generation, Expand(slot, generation) PROVE FeesFitTheRest'
  BY <1>2, <1>6 DEF Expand
<1>7. ASSUME NEW provided, NEW buffers, PlanAccounts(provided, buffers) PROVE FeesFitTheRest'
  BY <1>2, <1>7 DEF PlanAccounts
<1>8. ASSUME NEW tables, Compile(tables) PROVE FeesFitTheRest'
  BY <1>2, <1>8 DEF Compile
<1>9. CASE UNCHANGED vars
  BY <1>1, <1>9 DEF vars
<1> QED
  BY <1>3, <1>4, <1>5, <1>6, <1>7, <1>8, <1>9, FillFailsRightly DEF Next

(***************************************************************************)
(* Lists of accounts                                                       *)
(***************************************************************************)
\* A list of a set: every element once.
Lists(s, A) == s \in Seq(A) /\ Elements(s) = A /\ IsUnique(s)

LEMMA ListsPicked ==
    ASSUME NEW A, NEW s, Lists(s, A), NEW P \in SUBSET DOMAIN s
    PROVE  Lists(Picked(s, P), {s[i] : i \in P})
<1> DEFINE p == Picked(s, P)
           B == {s[i] : i \in P}
<1>0. PICK q, n : InTurn(s, P, q, n)
  BY PickedInOrder DEF Lists
<1>1. /\ n \in Nat /\ q \in [1 .. n -> P]
      /\ \A i \in P : \E k \in 1 .. n : q[k] = i
      /\ \A j, k \in 1 .. n : j < k => q[j] < q[k]
      /\ p = [k \in 1 .. n |-> s[q[k]]]
  BY <1>0 DEF InTurn
<1>2. s \in Seq(A) /\ IsUnique(s) /\ \A i \in P : i \in Int
  BY DEF Lists
<1> HIDE DEF p, B
<1>3. DOMAIN p = 1 .. n /\ \A k \in 1 .. n : q[k] \in P /\ p[k] = s[q[k]]
  BY <1>1
<1>4. p \in [1 .. n -> B]
  BY <1>1, <1>3 DEF B
<1>5. p \in Seq(B)
  BY <1>1, <1>4
<1>6. Elements(p) = B
  <2>1. \A k \in DOMAIN p : p[k] \in B
    BY <1>3, <1>4
  <2>2. \A i \in P : \E k \in DOMAIN p : p[k] = s[i]
    BY <1>1, <1>3
  <2> QED
    BY <2>1, <2>2 DEF Elements, B
<1>7. IsUnique(p)
  <2> SUFFICES ASSUME NEW j \in DOMAIN p, NEW k \in DOMAIN p, p[j] = p[k] PROVE j = k
    BY DEF IsUnique
  <2>1. j \in Int /\ k \in Int /\ q[j] \in P /\ q[k] \in P /\ s[q[j]] = s[q[k]]
    BY <1>1, <1>3
  <2>2. q[j] = q[k] /\ q[j] \in Int
    BY <1>2, <2>1 DEF IsUnique
  <2>3. ~ (j < k) /\ ~ (k < j)
    BY <1>1, <1>3, <2>2
  <2> QED
    BY <2>1, <2>3
<1> QED
  BY <1>5, <1>6, <1>7 DEF Lists, p, B

LEMMA ListsJoined ==
    ASSUME NEW A, NEW B, A \cap B = {}, NEW s, NEW t, Lists(s, A), Lists(t, B)
    PROVE  Lists(s \o t, A \cup B)
<1> DEFINE m == Len(s)
           n == Len(t)
           r == s \o t
<1>1. /\ s \in Seq(A \cup B) /\ t \in Seq(A \cup B) /\ m \in Nat /\ n \in Nat
      /\ DOMAIN s = 1 .. m /\ DOMAIN t = 1 .. n
      /\ Elements(s) = A /\ Elements(t) = B /\ IsUnique(s) /\ IsUnique(t)
  BY DEF Lists
<1>2. /\ r \in Seq(A \cup B) /\ DOMAIN r = 1 .. m + n
      /\ \A i \in 1 .. m : r[i] = s[i]
      /\ \A i \in 1 .. n : r[m + i] = t[i]
  BY <1>1
<1> HIDE DEF m, n, r
<1>3. ASSUME NEW k \in 1 .. m + n
      PROVE  \/ k \in 1 .. m /\ r[k] = s[k] /\ r[k] \in A
             \/ k - m \in 1 .. n /\ r[k] = t[k - m] /\ r[k] \in B
  <2>1. CASE k <= m
    <3>1. k \in 1 .. m
      BY <1>1, <2>1
    <3> QED
      BY <1>1, <1>2, <3>1 DEF Elements
  <2>2. CASE ~(k <= m)
    <3>1. k - m \in 1 .. n /\ m + (k - m) = k
      BY <1>1, <2>2
    <3> QED
      BY <1>1, <1>2, <3>1 DEF Elements
  <2> QED
    BY <2>1, <2>2
<1>4. Elements(r) = A \cup B
  <2>1. Elements(r) \subseteq A \cup B
    BY <1>2, <1>3 DEF Elements
  <2>2. \A i \in 1 .. m : i \in DOMAIN r /\ r[i] = s[i]
    BY <1>1, <1>2
  <2>3. \A i \in 1 .. n : m + i \in DOMAIN r /\ r[m + i] = t[i]
    BY <1>1, <1>2
  <2>4. A \subseteq Elements(r) /\ B \subseteq Elements(r)
    BY <1>1, <2>2, <2>3 DEF Elements
  <2> QED
    BY <2>1, <2>4
<1>5. IsUnique(r)
  <2> SUFFICES ASSUME NEW j \in 1 .. m + n, NEW k \in 1 .. m + n, r[j] = r[k] PROVE j = k
    BY <1>2 DEF IsUnique
  <2> QED
    BY <1>1, <1>3 DEF IsUnique
<1> QED
  BY <1>2, <1>4, <1>5 DEF Lists, r

\* Accounts that are told apart by their keys.
Keyed(A) == \A a, b \in A : a.key = b.key => a = b

LEMMA KeysOfAList ==
    ASSUME NEW A, NEW s, Lists(s, A), Keyed(A)
    PROVE  Lists(Keys(s), {a.key : a \in A}) /\ Len(Keys(s)) = Len(s)
<1>1. /\ s \in Seq(A) /\ DOMAIN s = 1 .. Len(s) /\ Len(s) \in Nat
      /\ Elements(s) = A /\ IsUnique(s)
  BY DEF Lists
<1> DEFINE k == Keys(s)
           K == {a.key : a \in A}
           n == Len(s)
<1>2. k = [i \in 1 .. n |-> s[i].key] /\ \A i \in 1 .. n : s[i] \in A
  BY <1>1 DEF Keys, Elements
<1> HIDE DEF k, n, K
<1>3. k \in [1 .. n -> K]
  BY <1>2 DEF K
<1>4. k \in Seq(K) /\ Len(k) = n
  BY <1>1, <1>3 DEF n
<1>5. Elements(k) = K
  BY <1>1, <1>2 DEF Elements, K, n
<1>6. IsUnique(k)
  BY <1>1, <1>2 DEF IsUnique, Keyed, n
<1> QED
  BY <1>4, <1>5, <1>6 DEF Lists, k, K, n

\* Every key has a first occurrence.
LEMMA FirstOccurrencesList ==
    ASSUME NEW S, NEW keys \in Seq(S)
    PROVE  Lists(FirstOccurrences(keys), Elements(keys))
<1> DEFINE P == {i \in DOMAIN keys : \A j \in 1 .. i - 1 : keys[j] # keys[i]}
           f == Picked(keys, P)
           K == Elements(keys)
<1>1. DOMAIN keys = 1 .. Len(keys) /\ Len(keys) \in Nat /\ P \in SUBSET DOMAIN keys
  OBVIOUS
<1>0. PICK q, n : InTurn(keys, P, q, n)
  <2> HIDE DEF P
  <2> QED
    BY <1>1, PickedInOrder
<1>2. /\ n \in Nat /\ q \in [1 .. n -> P]
      /\ \A i \in P : \E k \in 1 .. n : q[k] = i
      /\ \A j, k \in 1 .. n : j < k => q[j] < q[k]
      /\ f = [k \in 1 .. n |-> keys[q[k]]]
  BY <1>0 DEF InTurn
<1>3. ASSUME NEW i \in DOMAIN keys PROVE \E j \in P : keys[j] = keys[i]
  <2> DEFINE T == {j \in DOMAIN keys : keys[j] = keys[i]}
  <2>1. T \in SUBSET Nat /\ T # {}
    BY <1>1
  <2>2. PICK x \in T : \A y \in T : x <= y
    BY <2>1, LeastElement
  <2>3. \A j \in 1 .. x - 1 : keys[j] # keys[x]
    BY <1>1, <2>2
  <2> QED
    BY <2>2, <2>3
<1>4. ASSUME NEW i \in P, NEW j \in P, keys[i] = keys[j] PROVE i = j
  <2>1. i \in Int /\ j \in Int /\ i >= 1 /\ j >= 1
    BY <1>1
  <2>2. ~ (i < j) /\ ~ (j < i)
    BY <1>4, <2>1
  <2> QED
    BY <2>1, <2>2
<1> HIDE DEF P, f, K
<1>5. DOMAIN f = 1 .. n /\ \A k \in 1 .. n : q[k] \in P /\ f[k] = keys[q[k]]
  BY <1>2
<1>6. f \in [1 .. n -> K]
  BY <1>1, <1>2, <1>5 DEF K, Elements
<1>7. f \in Seq(K)
  BY <1>2, <1>6
<1>8. Elements(f) = K
  <2>1. \A k \in DOMAIN f : f[k] \in K
    BY <1>5, <1>6
  <2>2. \A i \in DOMAIN keys : \E k \in DOMAIN f : f[k] = keys[i]
    BY <1>2, <1>3, <1>5
  <2> QED
    BY <2>1, <2>2 DEF Elements, K
<1>9. IsUnique(f)
  <2> SUFFICES ASSUME NEW j \in 1 .. n, NEW k \in 1 .. n, f[j] = f[k] PROVE j = k
    BY <1>5 DEF IsUnique
  <2>1. q[j] = q[k] /\ q[j] \in Int
    BY <1>1, <1>4, <1>5
  <2>2. ~ (j < k) /\ ~ (k < j)
    BY <1>2, <2>1
  <2> QED
    BY <1>2, <2>2
<1> QED
  BY <1>7, <1>8, <1>9 DEF Lists, FirstOccurrences, f, P, K

\* What the mentions of a key say together, and the accounts of a swap.
Merged(ordered, key) ==
    LET mentions == {a \in Elements(ordered) : a.key = key}
    IN  [key |-> key,
         signer |-> \E a \in mentions : a.signer \/ a.kind = "User",
         writable |-> \E a \in mentions : a.writable \/ a.kind = "User",
         invoked |-> \E a \in mentions : a.kind = "Program"]

AllAccounts(ordered) == {Merged(ordered, key) : key \in Elements(Keys(ordered))}

Flagged(A) == \A a \in A : a.signer \in BOOLEAN /\ a.writable \in BOOLEAN

LEMMA AccountsAreKeyed ==
    ASSUME NEW ordered
    PROVE  Keyed(AllAccounts(ordered)) /\ Flagged(AllAccounts(ordered))
<1>1. \A key : /\ Merged(ordered, key).key = key
               /\ Merged(ordered, key).signer \in BOOLEAN
               /\ Merged(ordered, key).writable \in BOOLEAN
  BY DEF Merged
<1> QED
  BY <1>1 DEF Keyed, Flagged, AllAccounts

LEMMA UniqueAccountsList ==
    ASSUME NEW S, NEW ordered \in Seq(S)
    PROVE  Lists(UniqueAccounts(ordered), AllAccounts(ordered))
<1> DEFINE f == FirstOccurrences(Keys(ordered))
           K == Elements(Keys(ordered))
           n == Len(f)
           u == UniqueAccounts(ordered)
           A == AllAccounts(ordered)
<1>1. Keys(ordered) \in Seq(K)
  <2> DEFINE k == Keys(ordered)
             m == Len(ordered)
  <2>1. m \in Nat /\ k = [i \in 1 .. m |-> ordered[i].key] /\ DOMAIN k = 1 .. m
    BY DEF Keys
  <2>2. \A i \in 1 .. m : k[i] \in K
    BY <2>1 DEF Elements
  <2> HIDE DEF k, K, m
  <2>3. k \in [1 .. m -> K]
    BY <2>1, <2>2
  <2> QED
    BY <2>1, <2>3 DEF k
<1>2. Lists(f, K)
  BY <1>1, FirstOccurrencesList
<1>3. u = [i \in DOMAIN f |-> Merged(ordered, f[i])]
  BY DEF UniqueAccounts, Merged
<1>4. A = {Merged(ordered, key) : key \in K}
  BY DEF AllAccounts
<1>5. \A key : Merged(ordered, key).key = key
  BY DEF Merged
<1> HIDE DEF f, K, u, A
<1>6. f \in Seq(K) /\ DOMAIN f = 1 .. n /\ n \in Nat /\ Elements(f) = K /\ IsUnique(f)
  BY <1>2 DEF Lists
<1> HIDE DEF n
<1>7. u \in [1 .. n -> A] /\ DOMAIN u = 1 .. n
  BY <1>3, <1>4, <1>6 DEF Elements
<1>8. u \in Seq(A)
  BY <1>6, <1>7
<1>9. Elements(u) = A
  <2>1. \A i \in DOMAIN u : u[i] \in A
    BY <1>7
  <2>2. \A i \in DOMAIN f : i \in DOMAIN u /\ u[i] = Merged(ordered, f[i])
    BY <1>3, <1>6, <1>7
  <2>3. \A key \in K : \E i \in DOMAIN f : f[i] = key
    BY <1>6 DEF Elements
  <2> QED
    BY <1>4, <2>1, <2>2, <2>3 DEF Elements
<1>10. IsUnique(u)
  <2> SUFFICES ASSUME NEW i \in DOMAIN u, NEW j \in DOMAIN u, u[i] = u[j] PROVE i = j
    BY DEF IsUnique
  <2>1. u[i].key = f[i] /\ u[j].key = f[j]
    BY <1>3, <1>5, <1>6, <1>7
  <2> QED
    BY <1>6, <1>7, <2>1 DEF IsUnique
<1> QED
  BY <1>8, <1>9, <1>10 DEF Lists, u, A

\* The classes of canonical_account_order.
ClassOf(a) ==
    IF a.signer THEN (IF a.writable THEN 1 ELSE 2) ELSE (IF a.writable THEN 3 ELSE 4)

Sorted(s) == \A i, j \in DOMAIN s : i < j => ClassOf(s[i]) <= ClassOf(s[j])

LEMMA SortedPicked ==
    ASSUME NEW A, NEW s \in Seq(A), Sorted(s), NEW P \in SUBSET DOMAIN s
    PROVE  Sorted(Picked(s, P))
<1>1. PICK q, n : InTurn(s, P, q, n)
  BY PickedInOrder
<1>2. /\ n \in Nat /\ q \in [1 .. n -> P]
      /\ \A j, k \in 1 .. n : j < k => q[j] < q[k]
      /\ Picked(s, P) = [k \in 1 .. n |-> s[q[k]]]
  BY <1>1 DEF InTurn
<1> QED
  BY <1>2 DEF Sorted

LEMMA SortedJoined ==
    ASSUME NEW A, NEW B, NEW s \in Seq(A), NEW t \in Seq(B), Sorted(s), Sorted(t),
           \A a \in A, b \in B : ClassOf(a) <= ClassOf(b)
    PROVE  Sorted(s \o t)
<1> DEFINE m == Len(s)
           n == Len(t)
           r == s \o t
<1>1. /\ m \in Nat /\ n \in Nat /\ DOMAIN s = 1 .. m /\ DOMAIN t = 1 .. n
      /\ DOMAIN r = 1 .. m + n
      /\ \A i \in 1 .. m : r[i] = s[i] /\ s[i] \in A
      /\ \A i \in 1 .. n : r[m + i] = t[i] /\ t[i] \in B
  OBVIOUS
<1> HIDE DEF m, n, r
<1> SUFFICES ASSUME NEW j \in 1 .. m + n, NEW k \in 1 .. m + n, j < k
             PROVE  ClassOf(r[j]) <= ClassOf(r[k])
  BY <1>1 DEF Sorted, r
<1>2. CASE k <= m
  <2>1. j \in 1 .. m /\ k \in 1 .. m
    BY <1>1, <1>2
  <2> QED
    BY <1>1, <2>1 DEF Sorted
<1>3. CASE m < j
  <2>1. /\ j - m \in 1 .. n /\ k - m \in 1 .. n /\ j - m < k - m
        /\ m + (j - m) = j /\ m + (k - m) = k
    BY <1>1, <1>3
  <2>2. r[j] = t[j - m] /\ r[k] = t[k - m]
    BY <1>1, <2>1
  <2> QED
    BY <1>1, <2>1, <2>2 DEF Sorted
<1>4. CASE j <= m /\ m < k
  <2>1. j \in 1 .. m /\ k - m \in 1 .. n /\ m + (k - m) = k
    BY <1>1, <1>4
  <2>2. r[j] \in A /\ r[k] \in B
    BY <1>1, <2>1
  <2> QED
    BY <2>2
<1>5. j \in Int /\ k \in Int
  BY <1>1
<1> QED
  BY <1>1, <1>2, <1>3, <1>4, <1>5

\* The accounts of one class.
LEMMA ClassIsPicked ==
    ASSUME NEW A, NEW u, Lists(u, A), Flagged(A), NEW signer \in BOOLEAN, NEW writable \in BOOLEAN
    PROVE  LET s == AccountClass(u, signer, writable)
               B == {a \in A : a.signer = signer /\ a.writable = writable}
           IN  Lists(s, B) /\ Sorted(s)
<1> DEFINE s == AccountClass(u, signer, writable)
           B == {a \in A : a.signer = signer /\ a.writable = writable}
           P == {i \in DOMAIN u : u[i].signer = signer /\ u[i].writable = writable}
<1>1. Lists(s, {u[i] : i \in P})
  BY ListsPicked DEF AccountClass
<1>2. {u[i] : i \in P} = B
  BY DEF Lists, Elements
<1>3. Lists(s, B)
  BY <1>1, <1>2
<1> HIDE DEF s
<1>4. s \in Seq(B) /\ \A i \in DOMAIN s : s[i] \in B
  BY <1>3 DEF Lists, Elements
<1>5. \A a, b \in B : ClassOf(a) <= ClassOf(b)
  BY DEF ClassOf
<1>6. Sorted(s)
  BY <1>4, <1>5 DEF Sorted
<1> QED
  BY <1>3, <1>6 DEF s

LEMMA CanonicalList ==
    ASSUME NEW A, NEW u, Lists(u, A), Flagged(A)
    PROVE  Lists(CanonicalOrder(u), A) /\ Sorted(CanonicalOrder(u))
<1> DEFINE B(x, y) == {a \in A : a.signer = x /\ a.writable = y}
           s1 == AccountClass(u, TRUE, TRUE)
           s2 == AccountClass(u, TRUE, FALSE)
           s3 == AccountClass(u, FALSE, TRUE)
           s4 == AccountClass(u, FALSE, FALSE)
           B1 == B(TRUE, TRUE)
           B2 == B(TRUE, FALSE)
           B3 == B(FALSE, TRUE)
           B4 == B(FALSE, FALSE)
<1>1. /\ Lists(s1, B1) /\ Sorted(s1) /\ Lists(s2, B2) /\ Sorted(s2)
      /\ Lists(s3, B3) /\ Sorted(s3) /\ Lists(s4, B4) /\ Sorted(s4)
  BY ClassIsPicked
<1>2. /\ B1 \cap B2 = {} /\ (B1 \cup B2) \cap B3 = {} /\ (B1 \cup B2 \cup B3) \cap B4 = {}
      /\ B1 \cup B2 \cup B3 \cup B4 = A
  BY DEF Flagged
<1>3. /\ \A a \in B1, b \in B2 : ClassOf(a) <= ClassOf(b)
      /\ \A a \in B1 \cup B2, b \in B3 : ClassOf(a) <= ClassOf(b)
      /\ \A a \in B1 \cup B2 \cup B3, b \in B4 : ClassOf(a) <= ClassOf(b)
  BY DEF ClassOf, Flagged
<1>4. CanonicalOrder(u) = s1 \o s2 \o s3 \o s4
  BY DEF CanonicalOrder
<1> HIDE DEF s1, s2, s3, s4, B1, B2, B3, B4
<1>5. Lists(s1 \o s2, B1 \cup B2) /\ Sorted(s1 \o s2)
  <2>1. Lists(s1 \o s2, B1 \cup B2)
    BY <1>1, <1>2, ListsJoined
  <2>2. Sorted(s1 \o s2)
    BY <1>1, <1>3, SortedJoined DEF Lists
  <2> QED
    BY <2>1, <2>2
<1>6. Lists(s1 \o s2 \o s3, B1 \cup B2 \cup B3) /\ Sorted(s1 \o s2 \o s3)
  <2>1. Lists(s1 \o s2 \o s3, B1 \cup B2 \cup B3)
    BY <1>1, <1>2, <1>5, ListsJoined
  <2>2. Sorted(s1 \o s2 \o s3)
    BY <1>1, <1>3, <1>5, SortedJoined DEF Lists
  <2> QED
    BY <2>1, <2>2
<1>7. Lists(s1 \o s2 \o s3 \o s4, A) /\ Sorted(s1 \o s2 \o s3 \o s4)
  <2>1. Lists(s1 \o s2 \o s3 \o s4, B1 \cup B2 \cup B3 \cup B4)
    BY <1>1, <1>2, <1>6, ListsJoined
  <2>2. Sorted(s1 \o s2 \o s3 \o s4)
    BY <1>1, <1>3, <1>6, SortedJoined DEF Lists
  <2> QED
    BY <1>2, <2>1, <2>2
<1> QED
  BY <1>4, <1>7

(***************************************************************************)
(* How a message is read                                                   *)
(***************************************************************************)
LEMMA DownwardClosed ==
    ASSUME NEW n \in Nat, NEW D \in SUBSET (1 .. n), \A i \in D : \A j \in 1 .. i : j \in D
    PROVE  Cardinality(D) \in 0 .. n /\ D = 1 .. Cardinality(D)
<1> DEFINE T == {k \in 1 .. n + 1 : k \notin D}
<1>1. T \in SUBSET Nat /\ n + 1 \in T
  OBVIOUS
<1>2. PICK x \in T : \A y \in T : x <= y
  BY <1>1, LeastElement
<1>3. x \in 1 .. n + 1 /\ x \notin D /\ \A k \in 1 .. x - 1 : k \in D
  BY <1>2
<1>4. D = 1 .. x - 1
  <2> HIDE DEF T
  <2>1. ASSUME NEW k \in D PROVE k \in 1 .. x - 1
    <3>1. k \in 1 .. n /\ ~(x \in 1 .. k)
      BY <1>3
    <3> QED
      BY <1>3, <3>1
  <2> QED
    BY <1>3, <2>1
<1>5. Cardinality(1 .. x - 1) = x - 1
  <2> DEFINE m == x - 1
  <2>1. m \in Nat
    BY <1>3
  <2> HIDE DEF m
  <2>2. Cardinality(1 .. m) = m
    BY <2>1, FS_Interval
  <2> QED
    BY <2>2 DEF m
<1> QED
  BY <1>3, <1>4, <1>5

LEMMA UpwardClosed ==
    ASSUME NEW n \in Nat, NEW D \in SUBSET (1 .. n), \A i \in D : \A j \in i .. n : j \in D
    PROVE  Cardinality(D) \in 0 .. n /\ D = n - Cardinality(D) + 1 .. n
<1> DEFINE T == D \cup {n + 1}
<1>1. T \in SUBSET Nat /\ n + 1 \in T
  OBVIOUS
<1>2. PICK x \in T : \A y \in T : x <= y
  BY <1>1, LeastElement
<1>3. x \in 1 .. n + 1 /\ \A k \in D : x <= k
  BY <1>2
<1>4. D = x .. n
  <2>1. ASSUME NEW k \in D PROVE k \in x .. n
    <3>1. k \in 1 .. n /\ x <= k
      BY <1>3
    <3> QED
      BY <1>3, <3>1
  <2>2. ASSUME NEW k \in x .. n PROVE k \in D
    <3>1. x <= n /\ x # n + 1 /\ x \in D
      BY <1>2, <1>3, <2>2
    <3> QED
      BY <3>1, <2>2
  <2> HIDE DEF T
  <2> QED
    BY <2>1, <2>2
<1>5. Cardinality(x .. n) = n - x + 1
  <2>1. x \in Int /\ n \in Int /\ (x <= n \/ x = n + 1)
    BY <1>3
  <2> HIDE DEF T
  <2>2. CASE x > n
    <3>1. x .. n = {} /\ n - x + 1 = 0
      BY <1>3, <2>2
    <3> QED
      BY <3>1, FS_EmptySet
  <2>3. CASE ~(x > n)
    <3>1. Cardinality(x .. n) = IF x > n THEN 0 ELSE n - x + 1
      BY <2>1, FS_Interval
    <3> QED
      BY <2>3, <3>1
  <2> QED
    BY <2>2, <2>3
<1> QED
  BY <1>3, <1>4, <1>5

\* The header's three counters tell which static accounts sign and are written.
LEMMA CountersTell ==
    ASSUME NEW A, NEW s, Lists(s, A), Flagged(A), Sorted(s)
    PROVE  LET signers == SignerPositions(s)
               unwritten == ReadonlyPositions(s)
               n == Cardinality(signers)
               m == Len(s)
           IN  /\ n \in 0 .. m /\ m \in Nat
               /\ \A i \in 1 .. m :
                     /\ i <= n <=> s[i].signer
                     /\ i <= n => (i <= n - Cardinality(unwritten \cap signers) <=> s[i].writable)
                     /\ ~(i <= n) =>
                          (i <= m - Cardinality(unwritten \ signers) <=> s[i].writable)
<1> DEFINE signers == SignerPositions(s)
           unwritten == ReadonlyPositions(s)
           n == Cardinality(signers)
           m == Len(s)
           D2 == unwritten \cap signers
           D4 == unwritten \ signers
<1>1. /\ m \in Nat /\ DOMAIN s = 1 .. m
      /\ \A i \in 1 .. m : s[i].signer \in BOOLEAN /\ s[i].writable \in BOOLEAN
  BY DEF Lists, Elements, Flagged
<1>2. \A i \in 1 .. m : /\ i \in signers <=> s[i].signer
                        /\ i \in unwritten <=> ~ s[i].writable
  BY <1>1 DEF SignerPositions, ReadonlyPositions
<1>3. signers \in SUBSET (1 .. m) /\ unwritten \in SUBSET (1 .. m)
  BY <1>1 DEF SignerPositions, ReadonlyPositions
<1>4. \A i, j \in 1 .. m : i < j => ClassOf(s[i]) <= ClassOf(s[j])
  BY <1>1 DEF Sorted
<1>5. \A i \in 1 .. m : ClassOf(s[i]) \in 1 .. 4
                        /\ (i \in signers <=> ClassOf(s[i]) <= 2)
                        /\ (i \in D2 <=> ClassOf(s[i]) = 2) /\ (i \in D4 <=> ClassOf(s[i]) = 4)
  BY <1>1, <1>2 DEF ClassOf
<1>6. D2 \in SUBSET signers /\ D4 \in SUBSET (1 .. m)
  BY <1>3
<1> HIDE DEF signers, unwritten, m, D2, D4
<1>7. n \in 0 .. m /\ signers = 1 .. n
  <2>1. \A i \in signers : \A j \in 1 .. i : j \in signers
    <3> SUFFICES ASSUME NEW i \in signers, NEW j \in 1 .. i PROVE j \in signers
      OBVIOUS
    <3>1. i \in 1 .. m /\ j \in 1 .. m /\ (j = i \/ j < i)
      BY <1>1, <1>3
    <3>2. ClassOf(s[i]) <= 2 /\ ClassOf(s[i]) \in 1 .. 4 /\ ClassOf(s[j]) \in 1 .. 4
      BY <1>5, <3>1
    <3>3. ClassOf(s[j]) <= 2
      BY <1>4, <3>1, <3>2
    <3> QED
      BY <1>5, <3>1, <3>3
  <2> QED
    BY <1>1, <1>3, <2>1, DownwardClosed
<1> HIDE DEF n
<1>8. Cardinality(D2) \in 0 .. n /\ D2 = n - Cardinality(D2) + 1 .. n
  <2>1. \A i \in D2 : \A j \in i .. n : j \in D2
    <3> SUFFICES ASSUME NEW i \in D2, NEW j \in i .. n PROVE j \in D2
      OBVIOUS
    <3>1. i \in 1 .. m /\ j \in 1 .. m /\ (j = i \/ i < j) /\ j \in signers
      BY <1>1, <1>6, <1>7
    <3>2. ClassOf(s[i]) = 2 /\ ClassOf(s[j]) \in 1 .. 4 /\ ClassOf(s[j]) <= 2
      BY <1>5, <3>1
    <3>3. ClassOf(s[j]) = 2
      BY <1>4, <3>1, <3>2
    <3> QED
      BY <1>5, <3>1, <3>3
  <2>2. n \in Nat /\ D2 \in SUBSET (1 .. n)
    BY <1>6, <1>7
  <2> QED
    BY <2>1, <2>2, UpwardClosed
<1>9. Cardinality(D4) \in 0 .. m /\ D4 = m - Cardinality(D4) + 1 .. m
  <2>1. \A i \in D4 : \A j \in i .. m : j \in D4
    <3> SUFFICES ASSUME NEW i \in D4, NEW j \in i .. m PROVE j \in D4
      OBVIOUS
    <3>1. i \in 1 .. m /\ j \in 1 .. m /\ (j = i \/ i < j)
      BY <1>1, <1>6
    <3>2. ClassOf(s[i]) = 4 /\ ClassOf(s[j]) \in 1 .. 4
      BY <1>5, <3>1
    <3>3. ClassOf(s[j]) = 4
      BY <1>4, <3>1, <3>2
    <3> QED
      BY <1>5, <3>1, <3>3
  <2> QED
    BY <1>1, <1>6, <2>1, UpwardClosed
<1>10. ASSUME NEW i \in 1 .. m
       PROVE  /\ i <= n <=> s[i].signer
              /\ i <= n => (i <= n - Cardinality(D2) <=> s[i].writable)
              /\ ~(i <= n) => (i <= m - Cardinality(D4) <=> s[i].writable)
  <2>1. i \in signers <=> i <= n
    BY <1>1, <1>7
  <2>2. i <= n => (i \in D2 <=> ~(i <= n - Cardinality(D2)))
    BY <1>1, <1>7, <1>8
  <2>3. i \in D4 <=> ~(i <= m - Cardinality(D4))
    BY <1>1, <1>9
  <2>4. i \in D2 <=> i \in unwritten /\ i \in signers
    BY DEF D2
  <2>5. i \in D4 <=> i \in unwritten /\ i \notin signers
    BY DEF D4
  <2>6. (i \in signers <=> s[i].signer) /\ (i \in unwritten <=> ~ s[i].writable)
    BY <1>2
  <2> HIDE DEF D2, D4
  <2> QED
    BY <2>1, <2>2, <2>3, <2>4, <2>5, <2>6
<1> QED
  BY <1>1, <1>7, <1>10 DEF n, m, signers, unwritten, D2, D4

\* The keys of a joined sequence, and of one that is not a list.
LEMMA KeysAreASequence ==
    ASSUME NEW A, NEW s \in Seq(A)
    PROVE  /\ Keys(s) \in Seq({a.key : a \in A}) /\ Len(Keys(s)) = Len(s)
           /\ Keys(s) = [i \in 1 .. Len(s) |-> s[i].key]
<1> DEFINE n == Len(s)
           k == Keys(s)
           K == {a.key : a \in A}
<1>1. n \in Nat /\ k = [i \in 1 .. n |-> s[i].key] /\ \A i \in 1 .. n : s[i] \in A
  BY DEF Keys
<1> HIDE DEF n, k
<1>2. k \in [1 .. n -> K]
  BY <1>1
<1>3. k \in Seq(K) /\ Len(k) = n
  BY <1>1, <1>2
<1> QED
  BY <1>1, <1>3 DEF n, k

LEMMA KeysJoined ==
    ASSUME NEW A, NEW s \in Seq(A), NEW t \in Seq(A)
    PROVE  Keys(s \o t) = Keys(s) \o Keys(t)
<1> DEFINE m == Len(s)
           n == Len(t)
           r == s \o t
           K == {a.key : a \in A}
           ks == Keys(s)
           kt == Keys(t)
           kr == Keys(r)
<1>1. /\ m \in Nat /\ n \in Nat /\ r \in Seq(A) /\ Len(r) = m + n
      /\ \A i \in 1 .. m : r[i] = s[i]
      /\ \A i \in 1 .. n : r[m + i] = t[i]
  OBVIOUS
<1>2. /\ ks \in Seq(K) /\ Len(ks) = m /\ ks = [i \in 1 .. m |-> s[i].key]
      /\ kt \in Seq(K) /\ Len(kt) = n /\ kt = [i \in 1 .. n |-> t[i].key]
  BY KeysAreASequence
<1>3. kr \in Seq(K) /\ Len(kr) = m + n /\ kr = [i \in 1 .. m + n |-> r[i].key]
  BY <1>1, KeysAreASequence
<1> HIDE DEF m, n, r, ks, kt, kr, K
<1> DEFINE j == ks \o kt
<1>4. /\ j \in Seq(K) /\ Len(j) = m + n
      /\ \A i \in 1 .. m : j[i] = ks[i]
      /\ \A i \in 1 .. n : j[m + i] = kt[i]
  BY <1>1, <1>2
<1> HIDE DEF j
<1>5. ASSUME NEW k \in 1 .. m + n PROVE kr[k] = j[k]
  <2>1. CASE k <= m
    <3>1. k \in 1 .. m
      BY <1>1, <2>1
    <3>2. r[k] = s[k] /\ j[k] = ks[k]
      BY <1>1, <1>4, <3>1
    <3>3. kr[k] = r[k].key
      BY <1>3
    <3>4. ks[k] = s[k].key
      BY <1>2, <3>1
    <3> QED
      BY <3>2, <3>3, <3>4
  <2>2. CASE ~(k <= m)
    <3>1. k - m \in 1 .. n /\ m + (k - m) = k
      BY <1>1, <2>2
    <3>2. r[k] = t[k - m] /\ j[k] = kt[k - m]
      BY <1>1, <1>4, <3>1
    <3>3. kr[k] = r[k].key
      BY <1>3
    <3>4. kt[k - m] = t[k - m].key
      BY <1>2, <3>1
    <3> QED
      BY <3>2, <3>3, <3>4
  <2> QED
    BY <2>1, <2>2
<1>6. kr = [k \in 1 .. m + n |-> kr[k]] /\ j = [k \in 1 .. m + n |-> j[k]]
  BY <1>3, <1>4
<1>7. kr = j
  BY <1>5, <1>6
<1> QED
  BY <1>7 DEF kr, r, ks, kt, j

\* A caller's lookup tables: one sequence or none.
AtMostOneTable(tables) == \A a, b \in tables : a = b /\ a \in Seq(Elements(a))

Listed(keys, tables) == \A i \in DOMAIN keys : \E table \in tables : keys[i] \in Elements(table)

ReadBack(keys, tables) ==
    LET positions == TablePositions(keys, tables)
    IN  LoadedKeys(positions, tables) = keys /\ Len(positions) = Len(keys)

\* What is taken from a table is what was looked up in it.
LEMMA LoadedKeysRead ==
    ASSUME NEW tables, AtMostOneTable(tables), TableFits(tables), NEW S, NEW keys \in Seq(S),
           Listed(keys, tables)
    PROVE  ReadBack(keys, tables)
<1> DEFINE n == Len(keys)
           P(key, p) == \E table \in tables : p \in DOMAIN table /\ table[p] = key
           positions == TablePositions(keys, tables)
           one == CHOOSE table \in tables : TRUE
<1>1. n \in Nat /\ keys = [i \in 1 .. n |-> keys[i]] /\ DOMAIN keys = 1 .. n
  OBVIOUS
<1>2. positions = [i \in 1 .. n |-> CHOOSE p \in 1 .. MaxAccounts : P(keys[i], p)]
  BY <1>1 DEF TablePositions
<1>3. ASSUME NEW i \in 1 .. n PROVE \E p \in 1 .. MaxAccounts : P(keys[i], p)
  <2>1. PICK table \in tables : keys[i] \in Elements(table)
    BY <1>1 DEF Listed
  <2>2. table \in Seq(Elements(table)) /\ Len(table) <= MaxAccounts
    BY DEF AtMostOneTable, TableFits
  <2>3. PICK p \in DOMAIN table : table[p] = keys[i]
    BY <2>1 DEF Elements
  <2>4. p \in 1 .. MaxAccounts
    BY <2>2, AccountsAssumption
  <2> QED
    BY <2>3, <2>4
<1>4. ASSUME NEW i \in 1 .. n PROVE one[positions[i]] = keys[i]
  <2>1. positions[i] = CHOOSE p \in 1 .. MaxAccounts : P(keys[i], p)
    BY <1>2
  <2>2. P(keys[i], positions[i])
    BY <1>3, <2>1
  <2>3. PICK table \in tables : table[positions[i]] = keys[i]
    BY <2>2
  <2>4. one = table
    BY DEF AtMostOneTable
  <2> QED
    BY <2>3, <2>4
<1>5. LoadedKeys(positions, tables) = [i \in 1 .. n |-> one[positions[i]]]
  BY <1>2 DEF LoadedKeys
<1>6. Len(positions) = n
  BY <1>1, <1>2
<1> HIDE DEF positions, n, one
<1> QED
  BY <1>1, <1>4, <1>5, <1>6 DEF ReadBack, positions, n

\* A validator reads the accounts of a list, in its order, from a message, with
\* their privileges; what signs or is called is named in the message itself.
Reads(m, all) ==
    /\ MessageKeys(m) = Keys(all)
    /\ m.compiled.required_signatures \in Nat
    /\ \A i \in DOMAIN all :
          /\ ReadsSigner(m, i) <=> all[i].signer
          /\ ReadsWritable(m, i) <=> all[i].writable
          /\ all[i].signer \/ all[i].invoked => i <= Len(m.compiled.static_keys)

\* The accounts of a plan, and where the instruction finds them.
Names(m, all, ordered) ==
    /\ Lists(all, AllAccounts(ordered))
    /\ m.compiled.program = IndexIn(Keys(all), DlmmProgram)
    /\ \A j \in DOMAIN ordered :
          m.compiled.accounts[j] = IndexIn(Keys(all), ordered[j].key)

LEMMA MessageIsRead ==
    ASSUME NEW S, NEW p, p.ordered \in Seq(S), NEW m, AtMostOneTable(m.tables),
           m.compiled \in CompileSwap2(p, m.tables)
    PROVE  \E all : Names(m, all, p.ordered) /\ Reads(m, all)
<1> DEFINE ordered == p.ordered
           c == m.compiled
           tables == m.tables
           A == AllAccounts(ordered)
           C == CanonicalOrder(UniqueAccounts(ordered))
           Ps == StaticPositions(C, tables)
           Pw == LoadedPositions(C, tables, TRUE)
           Pr == LoadedPositions(C, tables, FALSE)
           static == Picked(C, Ps)
           lw == Picked(C, Pw)
           lr == Picked(C, Pr)
           all == static \o lw \o lr
           signers == SignerPositions(static)
           unwritten == ReadonlyPositions(static)
           As == {a \in A : ~IsLoaded(a, tables)}
           Aw == {a \in A : IsLoaded(a, tables) /\ a.writable = TRUE}
           Ar == {a \in A : IsLoaded(a, tables) /\ a.writable = FALSE}
<1>1. /\ TableFits(tables)
      /\ c.required_signatures = Cardinality(signers)
      /\ c.readonly_signed = Cardinality(unwritten \cap signers)
      /\ c.readonly_unsigned = Cardinality(unwritten \ signers)
      /\ c.static_keys = Keys(static)
      /\ c.writable_indexes = TablePositions(Keys(lw), tables)
      /\ c.readonly_indexes = TablePositions(Keys(lr), tables)
      /\ c.program = IndexIn(Keys(static) \o Keys(lw) \o Keys(lr), DlmmProgram)
      /\ c.accounts = [i \in DOMAIN ordered |->
                          IndexIn(Keys(static) \o Keys(lw) \o Keys(lr), ordered[i].key)]
  <2> DEFINE combined == Keys(static) \o Keys(lw) \o Keys(lr)
             bytes == TransactionBytes(Cardinality(signers), Len(static), Len(ordered),
                                       Len(Keys(lw)), Len(Keys(lr)))
             record == [required_signatures |-> Cardinality(signers),
                        readonly_signed |-> Cardinality(unwritten \cap signers),
                        readonly_unsigned |-> Cardinality(unwritten \ signers),
                        static_keys |-> Keys(static),
                        writable_indexes |-> TablePositions(Keys(lw), tables),
                        readonly_indexes |-> TablePositions(Keys(lr), tables),
                        program |-> IndexIn(combined, DlmmProgram),
                        accounts |-> [i \in DOMAIN ordered |-> IndexIn(combined, ordered[i].key)],
                        min_context_slot |-> p.source.slot]
             fits == /\ TableFits(tables)
                     /\ Len(ordered) <= MaxAccounts /\ Len(combined) <= MaxAccounts
                     /\ bytes <= MaxTransactionBytes
  <2>1. CompileSwap2(p, tables) = IF fits THEN {record} ELSE {}
    BY DEF CompileSwap2
  <2>2. c = record /\ TableFits(tables)
    <3> HIDE DEF record
    <3> QED
      BY <2>1
  <2> QED
    BY <2>2
<1>2. Lists(C, A) /\ Sorted(C) /\ Flagged(A) /\ Keyed(A)
  BY UniqueAccountsList, AccountsAreKeyed, CanonicalList
<1> HIDE DEF C, A
<1>3. /\ Ps \in SUBSET DOMAIN C /\ Pw \in SUBSET DOMAIN C /\ Pr \in SUBSET DOMAIN C
      /\ {C[i] : i \in Ps} = As /\ {C[i] : i \in Pw} = Aw /\ {C[i] : i \in Pr} = Ar
  BY <1>2 DEF StaticPositions, LoadedPositions, Lists, Elements
<1> HIDE DEF Ps, Pw, Pr
<1>4. Lists(static, As) /\ Lists(lw, Aw) /\ Lists(lr, Ar) /\ Sorted(static)
  <2> HIDE DEF As, Aw, Ar
  <2>1. Lists(static, As) /\ Lists(lw, Aw) /\ Lists(lr, Ar)
    BY <1>2, <1>3, ListsPicked
  <2>2. C \in Seq(A) /\ Sorted(C)
    BY <1>2 DEF Lists
  <2>3. Sorted(static)
    BY <1>3, <2>2, SortedPicked
  <2> QED
    BY <2>1, <2>3
<1>5. /\ As \cap Aw = {} /\ (As \cup Aw) \cap Ar = {} /\ As \cup Aw \cup Ar = A
      /\ Flagged(As) /\ Keyed(A)
  BY <1>2 DEF Flagged
<1> HIDE DEF static, lw, lr
<1>6. Lists(static \o lw, As \cup Aw) /\ Lists(all, A)
  <2> HIDE DEF As, Aw, Ar
  <2>1. Lists(static \o lw, As \cup Aw)
    BY <1>4, <1>5, ListsJoined
  <2>2. Lists(static \o lw \o lr, As \cup Aw \cup Ar)
    BY <1>4, <1>5, <2>1, ListsJoined
  <2> QED
    BY <1>5, <2>1, <2>2
<1>7. Keys(static) \o Keys(lw) \o Keys(lr) = Keys(all)
  <2> HIDE DEF As, Aw, Ar
  <2>1. static \in Seq(A) /\ lw \in Seq(A) /\ lr \in Seq(A) /\ static \o lw \in Seq(A)
    BY <1>4, <1>5 DEF Lists
  <2>2. Keys(static \o lw) = Keys(static) \o Keys(lw)
    BY <2>1, KeysJoined
  <2>3. Keys(static \o lw \o lr) = Keys(static \o lw) \o Keys(lr)
    BY <2>1, KeysJoined
  <2> QED
    BY <2>2, <2>3
<1>8. /\ LoadedKeys(c.writable_indexes, tables) = Keys(lw)
      /\ Len(c.writable_indexes) = Len(lw)
      /\ LoadedKeys(c.readonly_indexes, tables) = Keys(lr)
  <2>1. ASSUME NEW s, NEW B, Lists(s, B), \A a \in B : IsLoaded(a, tables)
        PROVE  /\ LoadedKeys(TablePositions(Keys(s), tables), tables) = Keys(s)
               /\ Len(TablePositions(Keys(s), tables)) = Len(s)
    <3> DEFINE k == Keys(s)
               K == {a.key : a \in B}
    <3>1. /\ s \in Seq(B) /\ k \in Seq(K) /\ Len(k) = Len(s)
          /\ k = [i \in 1 .. Len(s) |-> s[i].key]
      BY <2>1, KeysAreASequence DEF Lists
    <3>2. Listed(k, tables)
      <4>1. \A i \in 1 .. Len(s) : k[i] = s[i].key /\ s[i] \in B
        BY <3>1
      <4>2. DOMAIN k = 1 .. Len(s)
        BY <3>1
      <4> QED
        BY <2>1, <4>1, <4>2 DEF IsLoaded, Listed
    <3> HIDE DEF k, K
    <3>3. ReadBack(k, tables)
      BY <1>1, <3>1, <3>2, LoadedKeysRead
    <3> QED
      BY <3>1, <3>3 DEF ReadBack, k
  <2>2. (\A a \in Aw : IsLoaded(a, tables)) /\ (\A a \in Ar : IsLoaded(a, tables))
    OBVIOUS
  <2> HIDE DEF Aw, Ar
  <2> QED
    BY <1>1, <1>4, <2>1, <2>2
<1>9. MessageKeys(m) = Keys(all)
  BY <1>1, <1>7, <1>8 DEF MessageKeys
<1> DEFINE n == Cardinality(signers)
           r2 == Cardinality(unwritten \cap signers)
           r4 == Cardinality(unwritten \ signers)
           k == Len(static)
           w == Len(lw)
<1>10. /\ n \in 0 .. k /\ k \in Nat
       /\ \A i \in 1 .. k :
             /\ i <= n <=> static[i].signer
             /\ i <= n => (i <= n - r2 <=> static[i].writable)
             /\ ~(i <= n) => (i <= k - r4 <=> static[i].writable)
  <2> HIDE DEF As
  <2> QED
    BY <1>4, <1>5, CountersTell
<1>11. /\ c.required_signatures = n /\ c.readonly_signed = r2 /\ c.readonly_unsigned = r4
       /\ Len(c.static_keys) = k /\ Len(c.writable_indexes) = w
  BY <1>1, <1>4, <1>8, KeysAreASequence DEF Lists
<1> HIDE DEF signers, unwritten, n, r2, r4
<1>12. /\ w \in Nat /\ Len(lr) \in Nat /\ DOMAIN all = 1 .. k + w + Len(lr)
       /\ \A i \in 1 .. k : all[i] = static[i]
       /\ \A i \in 1 .. w : all[k + i] = lw[i]
       /\ \A i \in 1 .. Len(lr) : all[k + w + i] = lr[i]
  <2> HIDE DEF As, Aw, Ar
  <2>1. static \in Seq(A) /\ lw \in Seq(A) /\ lr \in Seq(A)
    BY <1>4, <1>5 DEF Lists
  <2> QED
    BY <2>1
<1>13. /\ \A i \in 1 .. w : ~ lw[i].signer /\ ~ lw[i].invoked /\ lw[i].writable
       /\ \A i \in 1 .. Len(lr) : ~ lr[i].signer /\ ~ lr[i].invoked /\ ~ lr[i].writable
  <2>1. /\ \A a \in Aw : ~ a.signer /\ ~ a.invoked /\ a.writable
        /\ \A a \in Ar : ~ a.signer /\ ~ a.invoked /\ ~ a.writable
    BY DEF IsLoaded
  <2> HIDE DEF Aw, Ar
  <2>2. lw \in Seq(Aw) /\ lr \in Seq(Ar)
    BY <1>4 DEF Lists
  <2> QED
    BY <2>1, <2>2
<1> HIDE DEF all, k, w
<1>14. ASSUME NEW i \in DOMAIN all
       PROVE  /\ ReadsSigner(m, i) <=> all[i].signer
              /\ ReadsWritable(m, i) <=> all[i].writable
              /\ all[i].signer \/ all[i].invoked => i <= Len(m.compiled.static_keys)
  <2>0. /\ ReadsSigner(m, i) <=> i <= n
        /\ ReadsWritable(m, i) <=> IF i <= n THEN i <= n - r2
                                   ELSE IF i <= k THEN i <= k - r4 ELSE i <= k + w
        /\ Len(m.compiled.static_keys) = k
    BY <1>11 DEF ReadsSigner, ReadsWritable
  <2>1. i \in 1 .. k + w + Len(lr) /\ i \in Int /\ n <= k /\ n \in Nat
    BY <1>10, <1>12
  <2>2. CASE i <= k
    <3>1. i \in 1 .. k /\ all[i] = static[i]
      BY <1>10, <1>12, <2>1, <2>2
    <3>2. /\ i <= n <=> static[i].signer
          /\ i <= n => (i <= n - r2 <=> static[i].writable)
          /\ ~(i <= n) => (i <= k - r4 <=> static[i].writable)
      BY <1>10, <3>1
    <3> QED
      BY <2>0, <2>2, <3>1, <3>2
  <2>3. CASE ~(i <= k) /\ i <= k + w
    <3>1. i - k \in 1 .. w /\ k + (i - k) = i /\ ~(i <= n)
      BY <1>10, <1>12, <2>1, <2>3
    <3>2. all[i] = lw[i - k]
      BY <1>12, <3>1
    <3> QED
      BY <1>13, <2>0, <2>3, <3>1, <3>2
  <2>4. CASE ~(i <= k) /\ ~(i <= k + w)
    <3>1. i - (k + w) \in 1 .. Len(lr) /\ k + w + (i - (k + w)) = i /\ ~(i <= n)
      BY <1>10, <1>12, <2>1, <2>4
    <3>2. all[i] = lr[i - (k + w)]
      BY <1>12, <3>1
    <3> QED
      BY <1>13, <2>0, <2>4, <3>1, <3>2
  <2> QED
    BY <2>2, <2>3, <2>4
<1>15. Reads(m, all)
  <2>1. c.required_signatures \in Nat
    BY <1>10, <1>11
  <2> QED
    BY <1>9, <1>14, <2>1 DEF Reads
<1>16. Names(m, all, ordered)
  BY <1>1, <1>6, <1>7 DEF Names, A
<1> QED
  BY <1>15, <1>16

(***************************************************************************)
(* The accounts and the message of a swap                                  *)
(***************************************************************************)
\* The accounts of a swap: the user signs, is named once and nowhere written, and
\* the program is named where the instruction expects it.
SwapAccounts(ordered) ==
    /\ ordered \in Seq(Elements(ordered)) /\ 16 <= Len(ordered)
    /\ \A i \in DOMAIN ordered :
          /\ ordered[i].signer <=> i = 9
          /\ ordered[i].kind = "User" <=> i = 9
          /\ ordered[i].key = ordered[9].key => i = 9
          /\ ordered[i].writable \in BOOLEAN
    /\ ~ ordered[9].writable
    /\ ordered[15].kind = "Program" /\ ordered[15].key = DlmmProgram

Remaining(a) ==
    a.kind \in {"QuoteRequired", "ExecutionBuffer"} /\ a.signer = FALSE /\ a.writable = TRUE

LEMMA RemainingAreArrays ==
    ASSUME NEW touched \in Seq(Int), NEW buffers \in Seq(Int)
    PROVE  LET rest == RemainingAccounts(touched, buffers)
           IN  /\ rest \in Seq(Elements(rest))
               /\ Len(rest) = Len(touched) + Len(buffers)
               /\ \A i \in DOMAIN rest :
                     Remaining(rest[i]) /\ rest[i].key = ArrayKey((touched \o buffers)[i])
<1> DEFINE rest == RemainingAccounts(touched, buffers)
           j == touched \o buffers
           n == Len(j)
<1>1. n \in Nat /\ n = Len(touched) + Len(buffers)
  OBVIOUS
<1>2. rest = [i \in 1 .. n |->
                Planned(IF i <= Len(touched) THEN "QuoteRequired" ELSE "ExecutionBuffer",
                        ArrayKey(j[i]), FALSE, TRUE, FALSE)]
  BY DEF RemainingAccounts
<1> HIDE DEF rest, n, j
<1> DEFINE E == Elements(rest)
<1>3. \A i \in 1 .. n : rest[i] \in E
  BY <1>2 DEF Elements
<1> HIDE DEF E
<1>4. rest \in [1 .. n -> E]
  BY <1>2, <1>3
<1>5. rest \in Seq(E) /\ Len(rest) = n
  BY <1>1, <1>4
<1>6. \A i \in DOMAIN rest : Remaining(rest[i]) /\ rest[i].key = ArrayKey(j[i])
  BY <1>2 DEF Planned, Remaining
<1> QED
  BY <1>1, <1>5, <1>6 DEF E, rest, j

LEMMA PlannedAccountsFit ==
    ASSUME NEW pool, NEW provided, NEW touched \in Seq(Int), NEW buffers \in Seq(Int),
           DuplicatesFit(FixedAccounts(pool, provided) \o RemainingAccounts(touched, buffers))
    PROVE  SwapAccounts(FixedAccounts(pool, provided) \o RemainingAccounts(touched, buffers))
<1> DEFINE fixed == FixedAccounts(pool, provided)
           rest == RemainingAccounts(touched, buffers)
           ordered == fixed \o rest
           S == Elements(fixed) \cup Elements(rest)
<1>1. /\ Len(fixed) = 16 /\ fixed \in Seq(Elements(fixed)) /\ DOMAIN fixed = 1 .. 16
      /\ \A i \in 1 .. 16 : /\ fixed[i].signer <=> i = 9
                            /\ fixed[i].kind = "User" <=> i = 9
                            /\ fixed[i].writable \in BOOLEAN
      /\ fixed[9].writable = FALSE
      /\ fixed[15].kind = "Program" /\ fixed[15].key = DlmmProgram
  <2>1. Len(fixed) = 16 /\ DOMAIN fixed = 1 .. 16
    BY DEF FixedAccounts
  <2>2. /\ fixed[1].signer = FALSE /\ fixed[2].signer = FALSE /\ fixed[3].signer = FALSE
        /\ fixed[4].signer = FALSE /\ fixed[5].signer = FALSE /\ fixed[6].signer = FALSE
        /\ fixed[7].signer = FALSE /\ fixed[8].signer = FALSE /\ fixed[9].signer = TRUE
        /\ fixed[10].signer = FALSE /\ fixed[11].signer = FALSE /\ fixed[12].signer = FALSE
        /\ fixed[13].signer = FALSE /\ fixed[14].signer = FALSE /\ fixed[15].signer = FALSE
        /\ fixed[16].signer = FALSE
    BY DEF FixedAccounts, Planned
  <2>3. /\ fixed[1].kind # "User" /\ fixed[2].kind # "User" /\ fixed[3].kind # "User"
        /\ fixed[4].kind # "User" /\ fixed[5].kind # "User" /\ fixed[6].kind # "User"
        /\ fixed[7].kind # "User" /\ fixed[8].kind # "User" /\ fixed[9].kind = "User"
        /\ fixed[10].kind # "User" /\ fixed[11].kind # "User" /\ fixed[12].kind # "User"
        /\ fixed[13].kind # "User" /\ fixed[14].kind # "User" /\ fixed[15].kind # "User"
        /\ fixed[16].kind # "User"
    BY DEF FixedAccounts, Planned
  <2>4. /\ fixed[1].writable = TRUE /\ fixed[2].writable = TRUE /\ fixed[3].writable = TRUE
        /\ fixed[4].writable = TRUE /\ fixed[5].writable = FALSE /\ fixed[6].writable = FALSE
        /\ fixed[7].writable = FALSE /\ fixed[8].writable = FALSE /\ fixed[9].writable = FALSE
        /\ fixed[10].writable = TRUE /\ fixed[11].writable = TRUE /\ fixed[12].writable = TRUE
        /\ fixed[13].writable = TRUE /\ fixed[14].writable = FALSE
        /\ fixed[15].writable = FALSE /\ fixed[16].writable = FALSE
    BY DEF FixedAccounts, Planned
  <2>5. fixed[9].writable = FALSE /\ fixed[15].kind = "Program" /\ fixed[15].key = DlmmProgram
    BY DEF FixedAccounts, Planned
  <2>6. \A i \in 1 .. 16 : \/ i = 1 \/ i = 2 \/ i = 3 \/ i = 4 \/ i = 5 \/ i = 6 \/ i = 7 \/ i = 8
                           \/ i = 9 \/ i = 10 \/ i = 11 \/ i = 12 \/ i = 13 \/ i = 14 \/ i = 15
                           \/ i = 16
    OBVIOUS
  <2>8. fixed = [i \in 1 .. 16 |-> fixed[i]]
    BY DEF FixedAccounts
  <2> HIDE DEF fixed
  <2>7. \A i \in 1 .. 16 : /\ fixed[i].signer <=> i = 9
                           /\ fixed[i].kind = "User" <=> i = 9
                           /\ fixed[i].writable \in BOOLEAN
    BY <2>2, <2>3, <2>4, <2>6
  <2>9. \A i \in 1 .. 16 : fixed[i] \in Elements(fixed)
    BY <2>1 DEF Elements
  <2> DEFINE E == Elements(fixed)
             n == 16
  <2> HIDE DEF E, n
  <2>10. fixed \in [1 .. n -> E]
    BY <2>8, <2>9 DEF E, n
  <2>11. fixed \in Seq(E)
    <3>1. n \in Nat
      BY DEF n
    <3> QED
      BY <2>10, <3>1
  <2> QED
    BY <2>1, <2>5, <2>7, <2>11 DEF E
<1>2. /\ rest \in Seq(Elements(rest)) /\ DOMAIN rest = 1 .. Len(rest)
      /\ \A i \in DOMAIN rest : Remaining(rest[i])
  BY RemainingAreArrays
<1> HIDE DEF fixed, rest, S
<1>3. fixed \in Seq(S) /\ rest \in Seq(S)
  BY <1>1, <1>2 DEF S
<1>4. /\ ordered \in Seq(S) /\ Len(ordered) = 16 + Len(rest) /\ Len(rest) \in Nat
      /\ \A i \in 1 .. 16 : ordered[i] = fixed[i]
      /\ \A i \in DOMAIN ordered :
            i \in 1 .. 16 \/ (i - 16 \in 1 .. Len(rest) /\ ordered[i] = rest[i - 16])
  <2>1. ordered \in Seq(S) /\ Joins(ordered, fixed, rest)
    BY <1>3, Joined
  <2> QED
    BY <1>1, <2>1 DEF Joins
<1>5. DuplicatesFit(ordered)
  BY DEF fixed, rest
<1> HIDE DEF ordered
<1>6. DOMAIN ordered = 1 .. 16 + Len(rest) /\ 9 \in DOMAIN ordered /\ 15 \in DOMAIN ordered
  BY <1>4
<1>7. \A i \in DOMAIN ordered : /\ ordered[i].signer <=> i = 9
                                /\ ordered[i].kind = "User" <=> i = 9
                                /\ ordered[i].writable \in BOOLEAN
  <2> SUFFICES ASSUME NEW i \in DOMAIN ordered
               PROVE  /\ ordered[i].signer <=> i = 9
                      /\ ordered[i].kind = "User" <=> i = 9
                      /\ ordered[i].writable \in BOOLEAN
    OBVIOUS
  <2>1. CASE i \in 1 .. 16
    BY <1>1, <1>4, <2>1
  <2>2. CASE i \notin 1 .. 16
    <3>1. i - 16 \in DOMAIN rest /\ ordered[i] = rest[i - 16]
      BY <1>2, <1>4, <2>2
    <3>2. Remaining(ordered[i]) /\ i # 9
      BY <1>2, <2>2, <3>1
    <3> QED
      BY <3>2 DEF Remaining
  <2> QED
    BY <2>1, <2>2
<1>8. \A i \in DOMAIN ordered : ordered[i].key = ordered[9].key => i = 9
  <2> SUFFICES ASSUME NEW i \in DOMAIN ordered, ordered[i].key = ordered[9].key, i # 9
               PROVE  FALSE
    OBVIOUS
  <2>1. i \in Int /\ (i < 9 \/ 9 < i)
    BY <1>6
  <2>2. MayRepeat(ordered[i], ordered[9]) \/ MayRepeat(ordered[9], ordered[i])
    BY <1>5, <1>6, <2>1 DEF DuplicatesFit
  <2>3. ordered[9].kind = "User"
    BY <1>6, <1>7
  <2> QED
    BY <2>2, <2>3 DEF MayRepeat, Sentinels
<1>9. ordered \in Seq(Elements(ordered)) /\ 16 <= Len(ordered)
  <2> DEFINE n == Len(ordered)
             E == Elements(ordered)
  <2>1. n \in Nat /\ 16 <= n /\ DOMAIN ordered = 1 .. n /\ ordered = [i \in 1 .. n |-> ordered[i]]
    BY <1>4
  <2>2. \A i \in 1 .. n : ordered[i] \in E
    BY <2>1 DEF Elements
  <2> HIDE DEF n, E
  <2>3. ordered \in [1 .. n -> E]
    BY <2>1, <2>2
  <2>4. ordered \in Seq(E)
    BY <2>1, <2>3
  <2> QED
    BY <2>1, <2>4 DEF n, E
<1>10. ordered[9].writable = FALSE /\ ordered[15].kind = "Program" /\ ordered[15].key = DlmmProgram
  BY <1>1, <1>4
<1>11. SwapAccounts(ordered)
  BY <1>7, <1>8, <1>9, <1>10 DEF SwapAccounts
<1> QED
  BY <1>11 DEF ordered, fixed, rest

\* What the accounts and the message of a swap were made from, and when.
MessageIsCompiled ==
    /\ accounts # {} => phase \in {"planned", "compiled", "AccountFootprintExceeded"}
    /\ message # {} => phase = "compiled"
    /\ \A p, q \in accounts : p = q
    /\ \A p \in accounts :
          \E provided \in Provided, buffers \in Buffers :
             p \in ExecutionAccountPlan(snapshot, plan, walk.arrays, request.swap_for_y,
                                       provided, buffers)
    /\ \A m \in message, p \in accounts :
          m.tables \in LookupTables /\ m.compiled \in CompileSwap2(p, m.tables)

LEMMA InitIsCompiled == Init => MessageIsCompiled
BY DEF Init, MessageIsCompiled

LEMMA NoAccountsYet ==
    ASSUME accounts' = {}, message' = {}
    PROVE  MessageIsCompiled'
BY DEF MessageIsCompiled

LEMMA PlanningIsCompiled ==
    ASSUME MessageIsCompiled, NEW provided \in Provided, NEW buffers \in Buffers,
           PlanAccounts(provided, buffers)
    PROVE  MessageIsCompiled'
<1> DEFINE planned(s, l, w, r) ==
             ExecutionAccountPlan(s, l, w.arrays, r.swap_for_y, provided, buffers)
<1>1. /\ message = {} /\ message' = {}
      /\ UNCHANGED <<request, snapshot, plan, walk>>
      /\ accounts' = planned(snapshot, plan, walk, request)
      /\ phase' = IF accounts' = {} THEN "InvalidLayout" ELSE "planned"
  BY DEF MessageIsCompiled, PlanAccounts
<1>2. \A p, q \in accounts' : p = q
  BY <1>1 DEF ExecutionAccountPlan
<1>3. accounts' = planned(snapshot', plan', walk', request')
  BY <1>1
<1>4. accounts' # {} => phase' = "planned"
  BY <1>1
<1> QED
  BY <1>1, <1>2, <1>3, <1>4 DEF MessageIsCompiled

LEMMA CompilingIsCompiled ==
    ASSUME MessageIsCompiled, NEW tables \in LookupTables, Compile(tables)
    PROVE  MessageIsCompiled'
<1>1. /\ UNCHANGED <<request, snapshot, plan, walk, accounts>>
      /\ phase' = IF message' = {} THEN "AccountFootprintExceeded" ELSE "compiled"
  BY DEF Compile
<1>2. PICK a \in accounts :
         message' = {[compiled |-> m, tables |-> tables] : m \in CompileSwap2(a, tables)}
  BY DEF Compile
<1>3. \A m \in message', p \in accounts :
         m.tables \in LookupTables /\ m.compiled \in CompileSwap2(p, m.tables)
  <2> SUFFICES ASSUME NEW m \in message', NEW p \in accounts
               PROVE  m.tables \in LookupTables /\ m.compiled \in CompileSwap2(p, m.tables)
    OBVIOUS
  <2>1. p = a
    BY DEF MessageIsCompiled
  <2>2. PICK c \in CompileSwap2(a, tables) : m = [compiled |-> c, tables |-> tables]
    BY <1>2
  <2> QED
    BY <2>1, <2>2
<1> QED
  BY <1>1, <1>3 DEF MessageIsCompiled

LEMMA NextIsCompiled == MessageIsCompiled /\ [Next]_vars => MessageIsCompiled'
<1> SUFFICES ASSUME MessageIsCompiled, [Next]_vars PROVE MessageIsCompiled'
  OBVIOUS
<1> DEFINE early == /\ phase \notin {"planned", "compiled", "AccountFootprintExceeded"}
                    /\ UNCHANGED <<accounts, message>>
<1>0. early => MessageIsCompiled'
  <2>1. early => accounts' = {} /\ message' = {}
    BY DEF MessageIsCompiled
  <2> QED
    BY <2>1, NoAccountsYet
<1>1. CASE UNCHANGED vars
  BY <1>1 DEF vars, MessageIsCompiled
<1>2. CASE \E pool \in PoolStates : PoolMoves(pool)
  BY <1>2 DEF PoolMoves, MessageIsCompiled
<1>3. CASE BeginWalk
  BY <1>0, <1>3 DEF BeginWalk
<1>4. CASE Search
  <2>1. early
    BY <1>4 DEF Search, Stop, EnterArray
  <2> QED
    BY <1>0, <2>1
<1>5. CASE FillOneBin
  <2>1. early
    BY <1>5 DEF FillOneBin, Stop
  <2> QED
    BY <1>0, <2>1
<1>6. CASE \E slot \in DOMAIN chain, generation \in 1 .. MaxGeneration : Expand(slot, generation)
  BY <1>0, <1>6 DEF Expand
<1>7. CASE \E provided \in Provided, buffers \in Buffers : PlanAccounts(provided, buffers)
  BY <1>7, PlanningIsCompiled
<1>8. CASE \E tables \in LookupTables : Compile(tables)
  BY <1>8, CompilingIsCompiled
<1> QED
  BY <1>1, <1>2, <1>3, <1>4, <1>5, <1>6, <1>7, <1>8 DEF Next

\* A message of a plan, and how a validator reads it.
LEMMA MessageOfAPlan ==
    ASSUME Inductive, MessageIsCompiled, NEW m \in message, NEW p \in accounts
    PROVE  /\ SwapAccounts(p.ordered) /\ p.contention = ContentionWritable(p.ordered)
           /\ \A q \in accounts : q = p
           /\ \E all : Names(m, all, p.ordered) /\ Reads(m, all)
           /\ \E provided, buffers :
                 /\ p.ordered = FixedAccounts(snapshot, provided)
                                \o RemainingAccounts(walk.arrays, buffers)
                 /\ buffers \in Seq(Int) /\ walk.arrays \in Seq(Int)
<1>1. PICK provided \in Provided, buffers \in Buffers :
         p \in ExecutionAccountPlan(snapshot, plan, walk.arrays, request.swap_for_y,
                                   provided, buffers)
  BY DEF MessageIsCompiled
<1>2. buffers \in Seq(Int) /\ walk.arrays \in Seq(Int)
  <2>1. \A i \in Indexes : <<i>> \in Seq(Int)
    BY ArrayAssumption DEF Indexes
  <2>2. <<>> \in Seq(Int)
    OBVIOUS
  <2>3. walk.arrays \in Seq(Int)
    BY DEF Inductive, Walks
  <2> QED
    BY <2>1, <2>2, <2>3 DEF Buffers
<1>3. /\ p.ordered = FixedAccounts(snapshot, provided) \o RemainingAccounts(walk.arrays, buffers)
      /\ p.contention = ContentionWritable(p.ordered)
      /\ DuplicatesFit(p.ordered)
  <2> DEFINE o == FixedAccounts(snapshot, provided) \o RemainingAccounts(walk.arrays, buffers)
             made == [source |-> snapshot.source, ordered |-> o,
                      contention |-> ContentionWritable(o)]
             fits == /\ plan.swap_for_y = request.swap_for_y
                     /\ plan.source = snapshot.source
                     /\ ProvidedFit(provided)
                     /\ RemainingFit(snapshot, plan.targets, walk.arrays, buffers)
                     /\ DuplicatesFit(o)
  <2>1. p \in IF fits THEN {made} ELSE {}
    BY <1>1 DEF ExecutionAccountPlan
  <2>2. p = made /\ DuplicatesFit(o)
    <3> HIDE DEF made, o
    <3> QED
      BY <2>1
  <2> QED
    BY <2>2
<1>4. SwapAccounts(p.ordered)
  BY <1>2, <1>3, PlannedAccountsFit
<1>5. m.tables \in LookupTables /\ m.compiled \in CompileSwap2(p, m.tables)
  BY DEF MessageIsCompiled
<1>6. AtMostOneTable(m.tables)
  BY <1>5, PoolAssumption DEF AtMostOneTable
<1>7. \E all : Names(m, all, p.ordered) /\ Reads(m, all)
  BY <1>4, <1>5, <1>6, MessageIsRead DEF SwapAccounts
<1> QED
  BY <1>2, <1>3, <1>4, <1>7 DEF MessageIsCompiled

Mentions(ordered, key) == {a \in Elements(ordered) : a.key = key}

LEMMA MergedSays ==
    ASSUME NEW ordered, SwapAccounts(ordered), NEW key
    PROVE  /\ Merged(ordered, key).signer <=> \E a \in Mentions(ordered, key) : a.signer
           /\ Merged(ordered, key).signer <=> key = ordered[9].key
           /\ Merged(ordered, key).writable <=>
                 \E a \in Mentions(ordered, key) : a.writable \/ a.kind = "User"
           /\ key = DlmmProgram => Merged(ordered, key).invoked
<1> DEFINE M == Mentions(ordered, key)
           r == Merged(ordered, key)
<1>1. /\ r.signer <=> \E a \in M : a.signer \/ a.kind = "User"
      /\ r.writable <=> \E a \in M : a.writable \/ a.kind = "User"
      /\ r.invoked <=> \E a \in M : a.kind = "Program"
  BY DEF Merged, Mentions
<1>2. /\ 9 \in DOMAIN ordered /\ 15 \in DOMAIN ordered
      /\ \A i \in DOMAIN ordered : /\ ordered[i].signer <=> i = 9
                                   /\ ordered[i].kind = "User" <=> i = 9
                                   /\ ordered[i].key = ordered[9].key => i = 9
  BY DEF SwapAccounts
<1>3. \A a \in M : a.signer <=> a.kind = "User"
  BY <1>2 DEF Mentions, Elements
<1>4. r.signer <=> \E a \in M : a.signer
  BY <1>1, <1>3
<1>5. (\E a \in M : a.signer) <=> key = ordered[9].key
  <2>1. ASSUME NEW a \in M, a.signer PROVE key = ordered[9].key
    <3>1. PICK i \in DOMAIN ordered : a = ordered[i]
      BY DEF Mentions, Elements
    <3>2. i = 9
      BY <1>2, <2>1, <3>1
    <3> QED
      BY <3>1, <3>2 DEF Mentions
  <2>2. key = ordered[9].key => ordered[9] \in M /\ ordered[9].signer
    BY <1>2 DEF Mentions, Elements
  <2> QED
    BY <2>1, <2>2
<1>6. key = DlmmProgram => ordered[15] \in M /\ ordered[15].kind = "Program"
  BY <1>2 DEF Mentions, Elements, SwapAccounts
<1> QED
  BY <1>1, <1>4, <1>5, <1>6

LEMMA NamedOnce ==
    ASSUME NEW m, NEW all, NEW ordered, SwapAccounts(ordered), Names(m, all, ordered)
    PROVE  /\ IsUnique(Keys(all)) /\ Elements(Keys(all)) = Elements(Keys(ordered))
           /\ DOMAIN Keys(all) = DOMAIN all /\ DOMAIN all = 1 .. Len(all) /\ Len(all) \in Nat
           /\ \A i \in DOMAIN all : all[i] = Merged(ordered, Keys(all)[i])
<1> DEFINE A == AllAccounts(ordered)
           keys == Keys(all)
<1>1. Lists(all, A) /\ Keyed(A)
  BY AccountsAreKeyed DEF Names
<1>2. Lists(keys, {a.key : a \in A})
  BY <1>1, KeysOfAList
<1>3. \A key : Merged(ordered, key).key = key
  BY DEF Merged
<1>4. {a.key : a \in A} = Elements(Keys(ordered))
  BY <1>3 DEF AllAccounts
<1>5. all \in Seq(A) /\ Elements(all) = A
  BY <1>1 DEF Lists
<1>6. keys = [i \in DOMAIN all |-> all[i].key]
  BY DEF Keys
<1>7. \A i \in DOMAIN all : all[i] = Merged(ordered, keys[i])
  <2> SUFFICES ASSUME NEW i \in DOMAIN all PROVE all[i] = Merged(ordered, all[i].key)
    BY <1>6
  <2>1. all[i] \in A
    BY <1>5 DEF Elements
  <2>2. PICK key : all[i] = Merged(ordered, key)
    BY <2>1 DEF AllAccounts
  <2> QED
    BY <1>3, <2>2
<1> QED
  BY <1>2, <1>4, <1>5, <1>6, <1>7 DEF Lists

LEMMA IndexFinds ==
    ASSUME NEW keys, NEW key \in Elements(keys)
    PROVE  IndexIn(keys, key) \in DOMAIN keys /\ keys[IndexIn(keys, key)] = key
BY DEF IndexIn, Elements

\* What the theorems say of one message and one plan.
SaysWhatIsPlanned(m, p) ==
    LET keys == MessageKeys(m)
    IN  /\ \A j \in DOMAIN p.ordered :
              LET i == m.compiled.accounts[j]
                  mentions == {a \in Elements(p.ordered) : a.key = keys[i]}
              IN  /\ keys[i] = p.ordered[j].key
                  /\ ReadsSigner(m, i) <=> \E a \in mentions : a.signer
                  /\ ReadsWritable(m, i) <=>
                        \E a \in mentions : a.writable \/ a.kind = "User"
        /\ keys[m.compiled.program] = DlmmProgram
        /\ m.compiled.program <= Len(m.compiled.static_keys)
        /\ {keys[1]} = Payer /\ IsUnique(keys)

LEMMA PayerIsTheUser ==
    ASSUME NEW p \in accounts, \A q \in accounts : q = p, SwapAccounts(p.ordered)
    PROVE  Payer = {p.ordered[9].key}
<1>1. UNION {Elements(q.ordered) : q \in accounts} = Elements(p.ordered)
  OBVIOUS
<1>2. \A a \in Elements(p.ordered) : a.kind = "User" <=> a = p.ordered[9]
  BY DEF SwapAccounts, Elements
<1>3. p.ordered[9] \in Elements(p.ordered)
  BY DEF SwapAccounts, Elements
<1> QED
  BY <1>1, <1>2, <1>3 DEF Payer

LEMMA MessageIsRight ==
    ASSUME Inductive, MessageIsCompiled, NEW m \in message, NEW p \in accounts
    PROVE  SaysWhatIsPlanned(m, p)
<1> DEFINE ordered == p.ordered
<1>1. SwapAccounts(ordered) /\ \A q \in accounts : q = p
  BY MessageOfAPlan
<1>2. PICK all : Names(m, all, ordered) /\ Reads(m, all)
  BY MessageOfAPlan
<1> DEFINE keys == Keys(all)
<1>3. /\ IsUnique(keys) /\ Elements(keys) = Elements(Keys(ordered))
      /\ DOMAIN keys = DOMAIN all /\ DOMAIN all = 1 .. Len(all) /\ Len(all) \in Nat
      /\ \A i \in DOMAIN all : all[i] = Merged(ordered, keys[i])
  BY <1>1, <1>2, NamedOnce
<1>4. /\ MessageKeys(m) = keys
      /\ \A i \in DOMAIN all :
            /\ ReadsSigner(m, i) <=> all[i].signer
            /\ ReadsWritable(m, i) <=> all[i].writable
            /\ all[i].signer \/ all[i].invoked => i <= Len(m.compiled.static_keys)
  BY <1>2 DEF Reads
<1>5. /\ m.compiled.program = IndexIn(keys, DlmmProgram)
      /\ \A j \in DOMAIN ordered : m.compiled.accounts[j] = IndexIn(keys, ordered[j].key)
  BY <1>2 DEF Names
<1>6. /\ \A j \in DOMAIN ordered : ordered[j].key \in Elements(keys)
      /\ 9 \in DOMAIN ordered /\ 15 \in DOMAIN ordered /\ ordered[15].key = DlmmProgram
  <2>1. /\ 9 \in DOMAIN ordered /\ 15 \in DOMAIN ordered /\ ordered[15].key = DlmmProgram
    BY <1>1 DEF SwapAccounts
  <2>2. \A j \in DOMAIN ordered : ordered[j].key \in Elements(Keys(ordered))
    BY DEF Keys, Elements
  <2> HIDE DEF ordered, keys
  <2> QED
    BY <1>3, <2>1, <2>2
<1> HIDE DEF keys
<1>7. ASSUME NEW j \in DOMAIN ordered
      PROVE  LET i == m.compiled.accounts[j]
                 mentions == {a \in Elements(ordered) : a.key = keys[i]}
             IN  /\ keys[i] = ordered[j].key
                 /\ ReadsSigner(m, i) <=> \E a \in mentions : a.signer
                 /\ ReadsWritable(m, i) <=> \E a \in mentions : a.writable \/ a.kind = "User"
  <2> DEFINE i == m.compiled.accounts[j]
  <2>1. i \in DOMAIN all /\ keys[i] = ordered[j].key
    BY <1>3, <1>5, <1>6, IndexFinds
  <2>2. /\ ReadsSigner(m, i) <=> all[i].signer
        /\ ReadsWritable(m, i) <=> all[i].writable
        /\ all[i] = Merged(ordered, keys[i])
    BY <1>3, <1>4, <2>1
  <2>3. /\ Merged(ordered, keys[i]).signer <=> \E a \in Mentions(ordered, keys[i]) : a.signer
        /\ Merged(ordered, keys[i]).writable <=>
              \E a \in Mentions(ordered, keys[i]) : a.writable \/ a.kind = "User"
    BY <1>1, MergedSays
  <2> QED
    BY <2>1, <2>2, <2>3 DEF Mentions
<1>8. keys[m.compiled.program] = DlmmProgram /\ m.compiled.program <= Len(m.compiled.static_keys)
  <2> DEFINE i == m.compiled.program
  <2>1. i \in DOMAIN all /\ keys[i] = DlmmProgram
    BY <1>3, <1>5, <1>6, IndexFinds
  <2>2. all[i].invoked
    BY <1>1, <1>3, <2>1, MergedSays
  <2> QED
    BY <1>4, <2>1, <2>2
<1>9. keys[1] = ordered[9].key
  <2> DEFINE i == IndexIn(keys, ordered[9].key)
  <2>1. i \in DOMAIN all /\ keys[i] = ordered[9].key
    BY <1>3, <1>6, IndexFinds
  <2>2. ReadsSigner(m, i)
    BY <1>1, <1>3, <1>4, <2>1, MergedSays
  <2> HIDE DEF i
  <2>3. 1 \in DOMAIN all /\ i \in Nat /\ 1 <= i
    BY <1>3, <2>1
  <2>4. m.compiled.required_signatures \in Nat
    BY <1>2 DEF Reads
  <2>5. ReadsSigner(m, 1)
    BY <2>2, <2>3, <2>4 DEF ReadsSigner
  <2>6. all[1].signer /\ all[1] = Merged(ordered, keys[1])
    BY <1>3, <1>4, <2>3, <2>5
  <2> QED
    BY <1>1, <2>6, MergedSays
<1>10. Payer = {ordered[9].key}
  BY <1>1, PayerIsTheUser
<1> QED
  BY <1>3, <1>4, <1>7, <1>8, <1>9, <1>10 DEF SaysWhatIsPlanned

(***************************************************************************)
(* What a message may write                                                *)
(***************************************************************************)
LEMMA ElementsPicked ==
    ASSUME NEW S, NEW s \in Seq(S), NEW P \in SUBSET DOMAIN s
    PROVE  Picked(s, P) \in Seq(S) /\ Elements(Picked(s, P)) = {s[i] : i \in P}
<1> DEFINE picked == Picked(s, P)
<1>0. PICK q, n : picked \in Seq(S) /\ InTurn(s, P, q, n)
  BY PickedInOrder
<1>1. /\ n \in Nat /\ q \in [1 .. n -> P]
      /\ \A i \in P : \E k \in 1 .. n : q[k] = i
      /\ picked = [k \in 1 .. n |-> s[q[k]]]
  BY <1>0 DEF InTurn
<1> HIDE DEF picked
<1>2. DOMAIN picked = 1 .. n /\ \A k \in 1 .. n : q[k] \in P /\ picked[k] = s[q[k]]
  BY <1>1
<1>3. Elements(picked) = {s[i] : i \in P}
  BY <1>1, <1>2 DEF Elements
<1> QED
  BY <1>0, <1>3 DEF picked

\* What is contended for is what some account may write, but for the program.
LEMMA ContentionIsKeys ==
    ASSUME NEW ordered, SwapAccounts(ordered)
    PROVE  Elements(ContentionWritable(ordered)) =
              {ordered[i].key : i \in {i \in DOMAIN ordered : ordered[i].writable}}
              \ {DlmmProgram}
<1> DEFINE P == {i \in DOMAIN ordered : ordered[i].writable /\ ordered[i].key # DlmmProgram}
           picked == Picked(ordered, P)
           S == Elements(ordered)
<1>1. ordered \in Seq(S) /\ P \in SUBSET DOMAIN ordered
  BY DEF SwapAccounts
<1>2. ContentionWritable(ordered) = FirstOccurrences(Keys(picked))
  BY DEF ContentionWritable
<1>3. picked \in Seq(S) /\ Elements(picked) = {ordered[i] : i \in P}
  <2> HIDE DEF P, S
  <2> QED
    BY <1>1, ElementsPicked
<1> HIDE DEF picked
<1>4. /\ Keys(picked) \in Seq({a.key : a \in S})
      /\ Elements(Keys(picked)) = {a.key : a \in Elements(picked)}
  BY <1>3, KeysAreASequence DEF Keys, Elements
<1>5. Lists(FirstOccurrences(Keys(picked)), Elements(Keys(picked)))
  BY <1>4, FirstOccurrencesList
<1>6. Elements(ContentionWritable(ordered)) = {a.key : a \in {ordered[i] : i \in P}}
  BY <1>2, <1>3, <1>4, <1>5 DEF Lists
<1> QED
  BY <1>6

LEMMA ElementsJoined ==
    ASSUME NEW S, NEW s \in Seq(S), NEW t \in Seq(S)
    PROVE  Elements(s \o t) = Elements(s) \cup Elements(t)
<1> DEFINE r == s \o t
<1>1. Joins(r, s, t) /\ DOMAIN s = 1 .. Len(s) /\ DOMAIN t = 1 .. Len(t)
  BY Joined
<1> HIDE DEF r
<1>2. Elements(r) \subseteq Elements(s) \cup Elements(t)
  BY <1>1 DEF Joins, Elements
<1>3. Elements(s) \subseteq Elements(r)
  <2>1. \A i \in DOMAIN s : i \in DOMAIN r /\ r[i] = s[i]
    BY <1>1 DEF Joins
  <2> QED
    BY <2>1 DEF Elements
<1>4. Elements(t) \subseteq Elements(r)
  <2>1. \A i \in DOMAIN t : Len(s) + i \in DOMAIN r /\ r[Len(s) + i] = t[i]
    BY <1>1 DEF Joins
  <2> QED
    BY <2>1 DEF Elements
<1> QED
  BY <1>2, <1>3, <1>4 DEF r

\* The accounts a quote's footprint names.
LEMMA FootprintNames ==
    ASSUME NEW pool, NEW touched \in Seq(Int)
    PROVE  Elements(QuoteFootprint(pool, touched)) \subseteq
              {Key("lb_pair"), Key("reserve_x"), Key("reserve_y"), Key("oracle")}
              \cup (IF pool.extension THEN {Key("bitmap_extension")} ELSE {})
              \cup {ArrayKey(touched[i]) : i \in DOMAIN touched}
<1> DEFINE a == <<Key("lb_pair")>>
           b == IF pool.extension THEN <<Key("bitmap_extension")>> ELSE <<>>
           c == <<Key("reserve_x"), Key("reserve_y"), Key("oracle")>>
           d == [i \in DOMAIN touched |-> ArrayKey(touched[i])]
           S == {Key("lb_pair"), Key("bitmap_extension"), Key("reserve_x"), Key("reserve_y"),
                 Key("oracle")} \cup {ArrayKey(i) : i \in Int}
<1>1. a \in Seq(S) /\ Elements(a) = {Key("lb_pair")}
  BY DEF Elements
<1>2. b \in Seq(S) /\ Elements(b) = IF pool.extension THEN {Key("bitmap_extension")} ELSE {}
  <2>1. /\ <<Key("bitmap_extension")>> \in Seq(S)
        /\ Elements(<<Key("bitmap_extension")>>) = {Key("bitmap_extension")}
    BY DEF Elements
  <2>2. <<>> \in Seq(S) /\ Elements(<<>>) = {}
    BY DEF Elements
  <2> HIDE DEF S
  <2> QED
    BY <2>1, <2>2
<1>3. c \in Seq(S) /\ Elements(c) = {Key("reserve_x"), Key("reserve_y"), Key("oracle")}
  BY DEF Elements
<1>4. d \in Seq(S) /\ Elements(d) = {ArrayKey(touched[i]) : i \in DOMAIN touched}
  <2>1. Len(touched) \in Nat /\ DOMAIN touched = 1 .. Len(touched)
    OBVIOUS
  <2>2. \A i \in DOMAIN touched : ArrayKey(touched[i]) \in S
    OBVIOUS
  <2> QED
    BY <2>1, <2>2 DEF Elements
<1>5. QuoteFootprint(pool, touched) = a \o b \o c \o d
  BY DEF QuoteFootprint
<1> HIDE DEF a, b, c, d, S
<1> DEFINE ab == a \o b
           abc == ab \o c
<1>6. ab \in Seq(S) /\ Elements(ab) = Elements(a) \cup Elements(b)
  BY <1>1, <1>2, Joined, ElementsJoined
<1> HIDE DEF ab
<1>7. abc \in Seq(S) /\ Elements(abc) = Elements(ab) \cup Elements(c)
  BY <1>3, <1>6, Joined, ElementsJoined
<1> HIDE DEF abc
<1>8. Elements(abc \o d) = Elements(abc) \cup Elements(d)
  BY <1>4, <1>7, ElementsJoined
<1>9. QuoteFootprint(pool, touched) = abc \o d
  BY <1>5 DEF abc, ab
<1> QED
  BY <1>1, <1>2, <1>3, <1>4, <1>6, <1>7, <1>8, <1>9

\* A key some account may write.
Written(ordered, key) ==
    \E i \in DOMAIN ordered : ordered[i].writable = TRUE /\ ordered[i].key = key

LEMMA FootprintIsWritten ==
    ASSUME NEW pool, NEW provided, NEW touched \in Seq(Int), NEW buffers \in Seq(Int), NEW p,
           p.ordered = FixedAccounts(pool, provided) \o RemainingAccounts(touched, buffers),
           OwnProtocolAccounts(p)
    PROVE  \A key \in Elements(QuoteFootprint(pool, touched)) :
              key # DlmmProgram /\ Written(p.ordered, key)
<1> DEFINE fixed == FixedAccounts(pool, provided)
           rest == RemainingAccounts(touched, buffers)
           ordered == p.ordered
           S == Elements(fixed) \cup Elements(rest)
<1>1. /\ Len(fixed) = 16 /\ fixed \in Seq(Elements(fixed))
      /\ fixed[1].key = Key("lb_pair") /\ fixed[1].writable = TRUE
      /\ fixed[2].key = ExtensionKey(pool) /\ fixed[2].writable = TRUE
      /\ fixed[3].writable = TRUE /\ fixed[4].writable = TRUE /\ fixed[12].writable = TRUE
  <2>1. Len(fixed) = 16 /\ fixed = [i \in 1 .. 16 |-> fixed[i]] /\ DOMAIN fixed = 1 .. 16
    BY DEF FixedAccounts
  <2>2. /\ fixed[1].key = Key("lb_pair") /\ fixed[1].writable = TRUE
        /\ fixed[2].key = ExtensionKey(pool) /\ fixed[2].writable = TRUE
        /\ fixed[3].writable = TRUE /\ fixed[4].writable = TRUE /\ fixed[12].writable = TRUE
    BY DEF FixedAccounts, Planned
  <2>3. fixed \in Seq(Elements(fixed))
    <3> DEFINE E == Elements(fixed)
               n == 16
    <3>1. fixed = [i \in 1 .. n |-> fixed[i]] /\ (\A i \in 1 .. n : fixed[i] \in E) /\ n \in Nat
      BY <2>1 DEF Elements
    <3> HIDE DEF E, n, fixed
    <3>2. fixed \in [1 .. n -> E]
      BY <3>1
    <3>3. fixed \in Seq(E)
      BY <3>1, <3>2
    <3> QED
      BY <3>3 DEF E
  <2> QED
    BY <2>1, <2>2, <2>3
<1>2. /\ rest \in Seq(Elements(rest)) /\ Len(rest) = Len(touched) + Len(buffers)
      /\ \A i \in DOMAIN rest : Remaining(rest[i]) /\ rest[i].key = ArrayKey((touched \o buffers)[i])
  BY RemainingAreArrays
<1>3. \A i \in DOMAIN touched : /\ i \in 1 .. Len(rest) /\ rest[i].writable = TRUE
                                /\ rest[i].key = ArrayKey(touched[i])
  <2> SUFFICES ASSUME NEW i \in DOMAIN touched
               PROVE  /\ i \in 1 .. Len(rest) /\ rest[i].writable = TRUE
                      /\ rest[i].key = ArrayKey(touched[i])
    OBVIOUS
  <2>1. (touched \o buffers)[i] = touched[i] /\ i \in 1 .. Len(touched) + Len(buffers)
    OBVIOUS
  <2> QED
    BY <1>2, <2>1 DEF Remaining
<1> HIDE DEF fixed, rest, S
<1>4. Joins(ordered, fixed, rest)
  <2>1. fixed \in Seq(S) /\ rest \in Seq(S)
    BY <1>1, <1>2 DEF S
  <2>2. ordered = fixed \o rest
    BY DEF fixed, rest
  <2> HIDE DEF ordered
  <2> QED
    BY <2>1, <2>2, Joined
<1>5. /\ \A i \in 1 .. 16 : i \in DOMAIN ordered /\ ordered[i] = fixed[i]
      /\ \A i \in 1 .. Len(rest) : 16 + i \in DOMAIN ordered /\ ordered[16 + i] = rest[i]
  <2> DEFINE n == Len(rest)
  <2>1. /\ n \in Nat /\ DOMAIN ordered = 1 .. 16 + n
        /\ \A i \in 1 .. 16 : ordered[i] = fixed[i]
        /\ \A i \in 1 .. n : ordered[16 + i] = rest[i]
    BY <1>1, <1>4 DEF Joins
  <2> HIDE DEF n, ordered
  <2> QED
    BY <2>1 DEF n
<1>6. \A i \in DOMAIN touched : Written(ordered, ArrayKey(touched[i]))
  BY <1>3, <1>5 DEF Written
<1>7. /\ Written(ordered, Key("lb_pair")) /\ Written(ordered, Key("reserve_x"))
      /\ Written(ordered, Key("reserve_y")) /\ Written(ordered, Key("oracle"))
  <2>1. /\ 1 \in 1 .. 16 /\ 3 \in 1 .. 16 /\ 4 \in 1 .. 16 /\ 12 \in 1 .. 16
    OBVIOUS
  <2>2. /\ ordered[1] = fixed[1] /\ ordered[3] = fixed[3] /\ ordered[4] = fixed[4]
        /\ ordered[12] = fixed[12]
        /\ {1, 3, 4, 12} \subseteq DOMAIN ordered
    BY <1>5, <2>1
  <2>3. /\ ordered[3].key = Key("reserve_x") /\ ordered[4].key = Key("reserve_y")
        /\ ordered[12].key = Key("oracle")
    BY DEF OwnProtocolAccounts
  <2> HIDE DEF ordered
  <2> QED
    BY <1>1, <2>2, <2>3 DEF Written
<1>8. pool.extension => Written(ordered, Key("bitmap_extension"))
  <2>0. 2 \in 1 .. 16
    OBVIOUS
  <2>1. ordered[2] = fixed[2] /\ 2 \in DOMAIN ordered
    BY <1>5, <2>0
  <2> HIDE DEF ordered
  <2> QED
    BY <1>1, <2>1 DEF Written, ExtensionKey
<1>9. /\ Key("lb_pair") # DlmmProgram /\ Key("reserve_x") # DlmmProgram
      /\ Key("reserve_y") # DlmmProgram /\ Key("oracle") # DlmmProgram
      /\ Key("bitmap_extension") # DlmmProgram
      /\ \A i : ArrayKey(i) # DlmmProgram
  BY DEF Key, ArrayKey, DlmmProgram
<1> DEFINE named == {Key("lb_pair"), Key("reserve_x"), Key("reserve_y"), Key("oracle")}
                    \cup (IF pool.extension THEN {Key("bitmap_extension")} ELSE {})
                    \cup {ArrayKey(touched[i]) : i \in DOMAIN touched}
<1>10. Elements(QuoteFootprint(pool, touched)) \subseteq named
  BY FootprintNames
<1> HIDE DEF ordered
<1>11. \A key \in named : key # DlmmProgram /\ Written(ordered, key)
  BY <1>6, <1>7, <1>8, <1>9
<1> QED
  BY <1>10, <1>11 DEF ordered

\* The clauses of ContentionIsWhatIsWritten for one message and one plan.
LEMMA ContentionIsRight ==
    ASSUME Inductive, MessageIsCompiled, NEW m \in message, NEW p \in accounts
    PROVE  LET keys == MessageKeys(m)
           IN  /\ Elements(p.contention) =
                     {keys[i] : i \in {i \in DOMAIN keys : ReadsWritable(m, i)}}
                     \ (Payer \cup {DlmmProgram})
               /\ OwnProtocolAccounts(p) =>
                     \A footprint \in QuoteFootprints(snapshot, walk.arrays) :
                        Elements(footprint) \subseteq Elements(p.contention)
<1> DEFINE ordered == p.ordered
<1>1. /\ SwapAccounts(ordered) /\ p.contention = ContentionWritable(ordered)
      /\ \A q \in accounts : q = p
  BY MessageOfAPlan
<1>2. PICK all : Names(m, all, ordered) /\ Reads(m, all)
  BY MessageOfAPlan
<1> DEFINE keys == Keys(all)
<1>3. /\ Elements(keys) = Elements(Keys(ordered)) /\ DOMAIN keys = DOMAIN all
      /\ \A i \in DOMAIN all : all[i] = Merged(ordered, keys[i])
  BY <1>1, <1>2, NamedOnce
<1>4. /\ MessageKeys(m) = keys
      /\ \A i \in DOMAIN keys : ReadsWritable(m, i) <=> Merged(ordered, keys[i]).writable
  BY <1>2, <1>3 DEF Reads
<1> HIDE DEF keys
<1>5. \A x : x \in Elements(p.contention) <=> Written(ordered, x) /\ x # DlmmProgram
  <2>1. \A i \in DOMAIN ordered : ordered[i].writable \in BOOLEAN
    BY <1>1 DEF SwapAccounts
  <2> QED
    BY <1>1, <2>1, ContentionIsKeys DEF Written
<1>6. Payer = {ordered[9].key}
  BY <1>1, PayerIsTheUser
<1>7. ASSUME NEW x, Written(ordered, x)
      PROVE  x # ordered[9].key /\ \E i \in DOMAIN keys : keys[i] = x /\ ReadsWritable(m, i)
  <2>1. PICK j \in DOMAIN ordered : ordered[j].writable = TRUE /\ ordered[j].key = x
    BY <1>7 DEF Written
  <2>2. x # ordered[9].key
    BY <1>1, <2>1 DEF SwapAccounts
  <2>3. x \in Elements(Keys(ordered)) /\ ordered[j] \in Mentions(ordered, x)
    BY <2>1 DEF Elements, Keys, Mentions
  <2>4. PICK i \in DOMAIN keys : keys[i] = x
    BY <1>3, <2>3 DEF Elements
  <2>5. Merged(ordered, x).writable
    BY <1>1, <2>1, <2>3, MergedSays
  <2> QED
    BY <1>4, <2>2, <2>4, <2>5
<1>8. ASSUME NEW i \in DOMAIN keys, ReadsWritable(m, i), keys[i] # ordered[9].key
      PROVE  Written(ordered, keys[i])
  <2>1. Merged(ordered, keys[i]).writable
    BY <1>4, <1>8
  <2>2. PICK a \in Mentions(ordered, keys[i]) : a.writable \/ a.kind = "User"
    BY <1>1, <2>1, MergedSays
  <2>3. PICK j \in DOMAIN ordered : a = ordered[j] /\ ordered[j].key = keys[i]
    BY DEF Mentions, Elements
  <2>4. ordered[j].kind # "User" /\ ordered[j].writable \in BOOLEAN
    BY <1>1, <1>8, <2>3 DEF SwapAccounts
  <2> QED
    BY <2>2, <2>3, <2>4 DEF Written
<1>9. Elements(p.contention) =
         {keys[i] : i \in {i \in DOMAIN keys : ReadsWritable(m, i)}} \ (Payer \cup {DlmmProgram})
  BY <1>5, <1>6, <1>7, <1>8
<1>10. ASSUME OwnProtocolAccounts(p), NEW footprint \in QuoteFootprints(snapshot, walk.arrays)
       PROVE  Elements(footprint) \subseteq Elements(p.contention)
  <2>1. footprint = QuoteFootprint(snapshot, walk.arrays)
    BY DEF QuoteFootprints
  <2>2. PICK provided, buffers :
           /\ p.ordered = FixedAccounts(snapshot, provided) \o RemainingAccounts(walk.arrays, buffers)
           /\ buffers \in Seq(Int) /\ walk.arrays \in Seq(Int)
    BY MessageOfAPlan
  <2>3. \A key \in Elements(QuoteFootprint(snapshot, walk.arrays)) :
           key # DlmmProgram /\ Written(ordered, key)
    BY <1>10, <2>2, FootprintIsWritten
  <2> QED
    BY <1>5, <2>1, <2>3
<1> QED
  BY <1>4, <1>9, <1>10

(***************************************************************************)
(* Theorems                                                                *)
(***************************************************************************)
\* Every walk of DlmmSwap stays in bins that were read, whatever is hydrated
\* and wherever the pool moves; the snapshot, the plan and the walk agree.
THEOREM SwapInvariant == Spec => []Inductive
BY InitIsInductive, NextIsInductive, PTL DEF Spec

\* The walk of meteora_exact_in_traverse stays in the arrays' range and in the
\* bins of the array it is in; what is left never goes below zero and what it
\* adds up never above u64.
THEOREM TypeCorrect == Spec => []TypeOK
<1>1. Inductive => TypeOK
  <2> SUFFICES ASSUME Inductive PROVE TypeOK
    OBVIOUS
  <2>1. walk \in Walks /\ PlanFits /\ WalkFits
    BY DEF Inductive
  <2>2. plan.source = snapshot.source /\ plan.source.slot \in DOMAIN chain
    BY <2>1 DEF PlanFits
  <2>3. phase = "filling" => walk.bin \in DOMAIN snapshot.arrays[walk.array]
    BY DEF Inductive, WalkFits, SnapshotFits
  <2> QED
    BY <2>1, <2>2, <2>3 DEF TypeOK, Walks, WalkFits
<1> QED
  BY <1>1, SwapInvariant, PTL

\* A walk meets every initialized array on its way, in order and once; what is
\* exhausted or missing is said of the first array it has not met.
THEOREM NoArrayIsSkippedAlways == Spec => []NoArrayIsSkipped
<1>1. Init => Inductive /\ WalkIsComplete
  BY InitIsInductive, InitIsComplete
<1>2. Inductive /\ WalkIsComplete /\ [Next]_vars => (Inductive /\ WalkIsComplete)'
  BY NextIsInductive, NextIsComplete
<1>3. WalkIsComplete => NoArrayIsSkipped
  BY DEF WalkIsComplete
<1> QED
  BY <1>1, <1>2, <1>3, PTL DEF Spec

\* The bins a walk went through hold what was taken from them, the best of them
\* was paid its price, and of the fee the protocol keeps a part.
THEOREM FillsAreHonestAlways == Spec => []FillsAreHonest
<1>1. Init => Inductive /\ WalkIsHonest
  BY InitIsInductive, InitIsHonest
<1>2. Inductive /\ WalkIsHonest /\ [Next]_vars => (Inductive /\ WalkIsHonest)'
  BY NextIsInductive, NextIsHonest
<1>3. WalkIsHonest => FillsAreHonest
  BY DEF WalkIsHonest, FillsAreHonest, AccountedFor, Spent, Walked
<1> QED
  BY <1>1, <1>2, <1>3, PTL DEF Spec

\* A walk of meteora_exact_in_traverse that fails with ArithmeticOverflow fails on
\* what an account says: the volatility or the fee rate does not fit, the bin it
\* is at has no price or a layer that costs more than a u64, the bins it went
\* through hold more than a u64, or the protocol's share is more than the whole.
\* The roundings of fees and layers alone never make it fail.
THEOREM FeesFitTheRestAlways == Spec => []FeesFitTheRest
<1> DEFINE Accounted == Inductive /\ WalkIsHonest /\ FeesFitTheRest
<1>1. Init => Accounted
  BY InitIsInductive, InitIsHonest, InitFailsNothing
<1>2. Accounted /\ [Next]_vars => Accounted'
  BY NextIsInductive, NextIsHonest, NextFailsRightly
<1>3. Accounted => FeesFitTheRest
  OBVIOUS
<1> QED
  BY <1>1, <1>2, <1>3, PTL DEF Spec

\* Every state of a swap has accounts and a message that were made by
\* meteora_execution_account_plan and compile_meteora_swap2_v0 from what it
\* still holds.
THEOREM MessageInvariant == Spec => [](Inductive /\ MessageIsCompiled)
<1>1. Init => Inductive /\ MessageIsCompiled
  BY InitIsInductive, InitIsCompiled
<1>2. Inductive /\ MessageIsCompiled /\ [Next]_vars => (Inductive /\ MessageIsCompiled)'
  BY NextIsInductive, NextIsCompiled
<1> QED
  BY <1>1, <1>2, PTL DEF Spec

\* A validator that reads the message of compile_meteora_swap2_v0 finds under
\* every index the planned account, with the privileges its mentions ask for,
\* the payer first, and no signer and no program behind a lookup table.
THEOREM MessageSaysWhatIsPlannedAlways == Spec => []MessageSaysWhatIsPlanned
<1>1. Inductive /\ MessageIsCompiled => MessageSaysWhatIsPlanned
  BY MessageIsRight DEF SaysWhatIsPlanned, MessageSaysWhatIsPlanned
<1> QED
  BY <1>1, MessageInvariant, PTL

\* What build_contention_writable_accounts reports is what the message may write
\* but for the payer and the program, and holds the footprint of the quote.
THEOREM ContentionIsWhatIsWrittenAlways == Spec => []ContentionIsWhatIsWritten
<1>1. Inductive /\ MessageIsCompiled => ContentionIsWhatIsWritten
  BY ContentionIsRight DEF ContentionIsWhatIsWritten
<1> QED
  BY <1>1, MessageInvariant, PTL

=============================================================================
