------------------------- MODULE RouteMarket_proofs -------------------------
(***************************************************************************)
(* The quotes of Raydium and PumpSwap keep what they claim for every pool, *)
(* every fee and every amount, however the pools are traded in.            *)
(***************************************************************************)
EXTENDS RouteMarket, IntegerFacts, TLAPS

(***************************************************************************)
(* Arithmetic                                                              *)
(***************************************************************************)
\* raydium.rs and pumpswap.rs round up by the same expression.
LEMMA CeilDivBounds ==
    ASSUME NEW n \in Nat, NEW d \in Nat \ {0}
    PROVE  /\ CeilDiv(n, d) \in Nat /\ n <= d * CeilDiv(n, d)
           /\ RoundUpDiv(n, d) = CeilDiv(n, d)
<1>1. CASE n = 0
    BY <1>1 DEF CeilDiv, RoundUpDiv
<1>2. CASE n # 0
    <2>1. n - 1 \in Nat
        BY <1>2
    <2>2. /\ (n - 1) \div d \in Nat
          /\ n - 1 < d * ((n - 1) \div d) + d
        BY <2>1, DivBounds
    <2>3. d * ((n - 1) \div d + 1) = d * ((n - 1) \div d) + d
        BY <2>2, Z3
    <2> QED
        BY <1>2, <2>1, <2>2, <2>3 DEF CeilDiv, RoundUpDiv
<1> QED
    BY <1>1, <1>2

\* It is the least number that is enough,
LEMMA CeilDivIsLeast ==
    ASSUME NEW n \in Nat, NEW d \in Nat \ {0}, NEW k \in Nat, n <= d * k
    PROVE  CeilDiv(n, d) <= k
<1>1. CASE n = 0
    BY <1>1 DEF CeilDiv
<1>2. CASE n # 0
    <2>1. n - 1 \in Nat
        BY <1>2
    <2> DEFINE q == (n - 1) \div d
    <2>2. q \in Nat /\ d * q <= n - 1
        BY <2>1, DivBounds
    <2> HIDE DEF q
    <2>3. q * d < k * d
        <3>1. q * d = d * q /\ k * d = d * k /\ q * d \in Nat /\ k * d \in Nat
            BY <2>2, Commutes, ProductIsNat
        <3> QED
            BY <2>1, <2>2, <3>1
    <2>4. q < k
        BY <2>2, <2>3, Cancels
    <2> QED
        BY <1>2, <2>2, <2>4 DEF CeilDiv, q
<1> QED
    BY <1>1, <1>2

\* ... so it does not fall when the dividend grows.
LEMMA CeilDivIsMonotone ==
    ASSUME NEW m \in Nat, NEW n \in Nat, m <= n, NEW d \in Nat \ {0}
    PROVE  CeilDiv(m, d) <= CeilDiv(n, d)
<1>1. CeilDiv(n, d) \in Nat /\ n <= d * CeilDiv(n, d) /\ d * CeilDiv(n, d) \in Nat
    BY CeilDivBounds, ProductIsNat
<1> DEFINE k == CeilDiv(n, d)
<1>2. k \in Nat /\ m <= d * k
    BY <1>1
<1> QED
    BY <1>2, CeilDivIsLeast

LEMMA GreatestElement ==
    ASSUME NEW l \in Nat, NEW h \in Nat, NEW T \in SUBSET (l .. h), T # {}
    PROVE  \E x \in T : \A y \in T : y <= x
<1> DEFINE Bounds == {k \in Nat : \A y \in T : y <= k}
<1>1. h \in Bounds /\ Bounds \in SUBSET Nat
    OBVIOUS
<1>2. PICK x \in Bounds : \A y \in Bounds : x <= y
    BY <1>1, LeastElement
<1>3. x \in T
    <2> SUFFICES ASSUME x \notin T PROVE FALSE
        OBVIOUS
    <2>1. PICK t \in T : TRUE
        OBVIOUS
    <2>2. t <= x /\ t # x /\ t \in Nat /\ x \in Nat
        BY <1>2, <2>1
    <2>3. x - 1 \in Bounds
        BY <1>2, <2>1, <2>2
    <2> QED
        BY <1>2, <2>3
<1> QED
    BY <1>2, <1>3

\* What a constant-product curve pays for x leaves the product no smaller, and
\* never empties the other side.
LEMMA CurveOutput ==
    ASSUME NEW x \in Nat, NEW a \in Nat \ {0}, NEW b \in Nat \ {0}
    PROVE  LET o == (x * b) \div (a + x)
           IN  o \in Nat /\ o < b /\ a * b <= (a + x) * (b - o)
<1> DEFINE o == (x * b) \div (a + x)
<1>0. x * b \in Nat /\ a + x \in Nat \ {0}
    BY ProductIsNat
<1>1. o \in Nat /\ (a + x) * o <= x * b
    BY <1>0, DivBounds
<1>2. (a + x) * b = a * b + x * b
    BY Distributes
<1>3. a * b \in Nat /\ x * b \in Nat /\ (a + x) * b \in Nat /\ a * b > 0
    BY Z3
<1>4. (a + x) * (b - o) = (a + x) * b - (a + x) * o
    BY <1>1, Z3
<1>5. (a + x) * o < (a + x) * b
    BY <1>1, <1>2, <1>3
<1>6. o < b
    BY <1>1, <1>5, Z3
<1> QED
    BY <1>1, <1>2, <1>3, <1>4, <1>6

\* ... and what it asks for an output y does so as well.
LEMMA CurveInput ==
    ASSUME NEW y \in Nat, NEW a \in Nat \ {0}, NEW b \in Nat, y < b
    PROVE  LET r == RawQuoteRequired([quote |-> a, base |-> b], y)
           IN  r \in Nat /\ a * b <= (a + r) * (b - y)
<1> DEFINE r == RoundUpDiv(a * y, b - y)
<1>0. a * y \in Nat /\ b - y \in Nat \ {0}
    BY ProductIsNat
<1>1. r \in Nat /\ a * y <= (b - y) * r
    BY <1>0, CeilDivBounds
<1>2. (a + r) * (b - y) = a * (b - y) + r * (b - y)
    BY <1>1, Distributes
<1>3. a * (b - y) = a * b - a * y
    BY Z3
<1>4. r * (b - y) = (b - y) * r /\ r * (b - y) \in Nat /\ a * b \in Nat /\ a * y \in Nat
    BY <1>1, Z3
<1> QED
    BY <1>1, <1>2, <1>3, <1>4 DEF RawQuoteRequired

(***************************************************************************)
(* The quotes                                                              *)
(***************************************************************************)
\* What there is of a mint in a pool.
ReserveOf(c, mint) ==
    CASE c.venue = "raydium" -> c.effective[mint]
      [] c.venue = "pumpswap" -> IF mint = c.base_mint THEN c.base ELSE c.quote
      [] c.venue = "orca" -> 0

\* A quote accounts for all of its input.
Accounts(q, amount) ==
    /\ q.requested = amount /\ q.consumed \in Nat /\ q.consumed <= amount
    /\ q.unspent = amount - q.consumed /\ q.out \in Nat

\* After the swap there is no less to share, and nothing came from nowhere.
Honest(c, mint, q) ==
    /\ After(c, mint, q) \in Contexts
    /\ After(c, mint, q).venue = c.venue
    /\ c.venue = "pumpswap" => After(c, mint, q).base_mint = c.base_mint
    /\ Product(After(c, mint, q)) >= Product(c)
    /\ c.venue # "orca" =>
         /\ ReserveOf(After(c, mint, q), mint) <= ReserveOf(c, mint) + q.consumed
         /\ ReserveOf(After(c, mint, q), OtherMint(mint))
               <= ReserveOf(c, OtherMint(mint)) - q.out

\* The parts of a fee that are rounded down do not exceed it.
LEMMA ShareBound ==
    ASSUME NEW fee \in Nat, NEW p \in Nat, NEW f \in Nat, NEW d \in Nat \ {0}, p + f <= d
    PROVE  LET x == FeeFloor(fee, p, d)
               y == FeeFloor(fee, f, d)
           IN  x \in Nat /\ y \in Nat /\ x + y <= fee
<1> DEFINE x == (fee * p) \div d
           y == (fee * f) \div d
<1>1. fee * p \in Nat /\ fee * f \in Nat
    BY ProductIsNat
<1>2. x \in Nat /\ y \in Nat /\ d * x <= fee * p /\ d * y <= fee * f
    BY <1>1, DivBounds
<1>3. (x + y) * d = d * x + d * y
    BY <1>2, Z3
<1>4. (p + f) * fee = fee * p + fee * f /\ (p + f) * fee <= d * fee
    BY Distributes, Commutes, ProductIsMonotone
<1>5. d * fee = fee * d
    BY Commutes
<1>6. (x + y) * d <= fee * d
    BY <1>1, <1>2, <1>3, <1>4, <1>5
<1>7. x + y <= fee
    BY <1>2, <1>6, Z3
<1> QED
    BY <1>2, <1>7 DEF FeeFloor

\* Fees on an input never exceed it, and what is left reaches the curve.
LEMMA FeeBound ==
    ASSUME NEW amount \in Nat, NEW rate \in Nat, rate <= FeeRateDenominator
    PROVE  FeeCeil(amount, rate) \in Nat /\ FeeCeil(amount, rate) <= amount
<1> DEFINE n == amount * rate
           d == FeeRateDenominator
<1> d \in Nat \ {0}
    BY FeeRateAssumption
<1>1. n \in Nat
    BY ProductIsNat
<1>2. CASE n = 0
    BY <1>2 DEF FeeCeil, CeilDiv
<1>3. CASE n # 0
    <2>1. n - 1 \in Nat
        BY <1>1, <1>3
    <2>2. (n - 1) \div d \in Nat /\ d * ((n - 1) \div d) <= n - 1
        BY <2>1, DivBounds
    <2>3. n <= amount * d
        BY Commutes, ProductIsMonotone
    <2>4. ((n - 1) \div d) * d < amount * d
        BY <1>1, <2>2, <2>3, Commutes
    <2>5. (n - 1) \div d < amount
        BY <2>2, <2>4, Cancels
    <2> QED
        BY <1>3, <2>2, <2>5 DEF FeeCeil, CeilDiv
<1> QED
    BY <1>2, <1>3

\* What is taken from the input and what is left of it make up the input.
LEMMA SplitAddsUp ==
    ASSUME NEW c \in RaydiumContexts, NEW mint \in Mints, NEW amount \in Nat,
           RaydiumQuotable(c, mint, amount)
    PROVE  LET s == InputSplit(c, mint, amount)
           IN  /\ s.trade \in Nat /\ s.creator \in Nat /\ s.curve \in Nat
               /\ s.trade + s.creator + s.curve = amount
               /\ ~ CreatorFeeOnInput(c, mint) => s.creator = 0
<1>1. /\ c.trade_fee_rate \in Nat /\ c.creator_fee_rate \in Nat
      /\ c.enable_creator_fee \in BOOLEAN
      /\ c.trade_fee_rate <= FeeRateDenominator
    BY DEF RaydiumContexts, RaydiumQuotable, RatesAreValid
<1>2. CreatorFeeRate(c) \in Nat
    BY <1>1 DEF CreatorFeeRate
<1>3. CASE CreatorFeeOnInput(c, mint)
    <2> DEFINE combined == c.trade_fee_rate + CreatorFeeRate(c)
               total == FeeCeil(amount, combined)
               creator == IF combined = 0 THEN 0
                          ELSE FeeFloor(total, CreatorFeeRate(c), combined)
    <2>1. combined \in Nat /\ combined < FeeRateDenominator
        BY <1>1, <1>2, <1>3 DEF RaydiumQuotable
    <2>2. total \in Nat /\ total <= amount
        <3> HIDE DEF combined
        <3> QED
            BY <2>1, FeeBound, FeeRateAssumption
    <2>3. creator \in Nat /\ creator <= total
        <3>1. CASE combined = 0
            BY <2>2, <3>1
        <3>2. CASE combined # 0
            <4>1. CreatorFeeRate(c) + 0 <= combined /\ combined \in Nat \ {0}
                BY <1>1, <1>2, <2>1, <3>2
            <4> HIDE DEF combined, total
            <4>2. /\ FeeFloor(total, CreatorFeeRate(c), combined) \in Nat
                  /\ FeeFloor(total, 0, combined) \in Nat
                  /\ FeeFloor(total, CreatorFeeRate(c), combined)
                        + FeeFloor(total, 0, combined) <= total
                BY <1>2, <2>2, <4>1, ShareBound
            <4> QED
                BY <2>2, <3>2, <4>2
        <3> QED
            BY <3>1, <3>2
    <2>4. InputSplit(c, mint, amount)
             = [trade |-> total - creator, creator |-> creator, curve |-> amount - total]
        BY <1>3 DEF InputSplit, FeesOnInput
    <2> HIDE DEF total, creator
    <2> QED
        BY <1>3, <2>2, <2>3, <2>4
<1>4. CASE ~ CreatorFeeOnInput(c, mint)
    <2> DEFINE fee == FeeCeil(amount, c.trade_fee_rate)
    <2>1. fee \in Nat /\ fee <= amount
        BY <1>1, FeeBound
    <2>2. InputSplit(c, mint, amount) = [trade |-> fee, creator |-> 0, curve |-> amount - fee]
        BY <1>4 DEF InputSplit, TradeFeeOnly
    <2> HIDE DEF fee
    <2> QED
        BY <2>1, <2>2
<1> QED
    BY <1>3, <1>4

\* raydium::quote_exact_input promises no more than the curve gives.
LEMMA RaydiumIsHonest ==
    ASSUME NEW c \in RaydiumContexts, NEW mint \in Mints, NEW amount \in Nat,
           NEW q \in RaydiumQuoteExactInput(c, mint, amount)
    PROVE  Accounts(q, amount) /\ Honest(c, mint, q)
<1> DEFINE other == OtherMint(mint)
           split == InputSplit(c, mint, amount)
           a == c.effective[mint]
           b == c.effective[other]
           output == ConstantProductOutput(split.curve, a, b)
           onOutput == IF CreatorFeeOnInput(c, mint) THEN 0
                       ELSE FeeCeil(output, CreatorFeeRate(c))
           protocol == FeeFloor(split.trade, c.protocol_fee_rate, FeeRateDenominator)
           fund == FeeFloor(split.trade, c.fund_fee_rate, FeeRateDenominator)
<1>1. RaydiumQuotable(c, mint, amount)
    BY DEF RaydiumQuoteExactInput
<1>2. /\ other \in Mints /\ other # mint
      /\ a \in Nat \ {0} /\ b \in Nat \ {0}
      /\ c.effective \in [Mints -> Nat \ {0}] /\ mint \in Mints
      /\ other = IF mint = c.mint_0 THEN c.mint_1 ELSE c.mint_0
    BY DEF OtherMint, Mints, RaydiumContexts
<1>3. /\ q = [requested |-> amount, consumed |-> amount, unspent |-> 0,
              out |-> output - onOutput, trade |-> split.trade, protocol |-> protocol,
              fund |-> fund, creator |-> split.creator + onOutput]
      /\ q.out > 0
    BY <1>2 DEF RaydiumQuoteExactInput
<1>4. /\ split.trade \in Nat /\ split.creator \in Nat /\ split.curve \in Nat
      /\ split.trade + split.creator + split.curve = amount
      /\ ~ CreatorFeeOnInput(c, mint) => split.creator = 0
    BY <1>1, SplitAddsUp
<1>5. output \in Nat /\ output < b /\ a * b <= (a + split.curve) * (b - output)
    <2> HIDE DEF split, a, b
    <2> QED
        BY <1>2, <1>4, CurveOutput DEF ConstantProductOutput
<1>6. protocol \in Nat /\ fund \in Nat /\ protocol + fund <= split.trade
    <2>1. /\ c.protocol_fee_rate \in Nat /\ c.fund_fee_rate \in Nat
          /\ c.protocol_fee_rate + c.fund_fee_rate <= FeeRateDenominator
        BY <1>1 DEF RaydiumContexts, RaydiumQuotable, RatesAreValid
    <2> HIDE DEF split
    <2> QED
        BY <1>4, <2>1, ShareBound, FeeRateAssumption
<1>7. onOutput \in Nat
    <2>1. CreatorFeeRate(c) \in Nat /\ CreatorFeeRate(c) <= FeeRateDenominator
        BY <1>1, FeeRateAssumption
           DEF CreatorFeeRate, RaydiumContexts, RaydiumQuotable, RatesAreValid
    <2> HIDE DEF output
    <2> QED
        BY <1>5, <2>1, FeeBound
<1> DEFINE paidIn == IF CreatorFeeOnInput(c, mint) THEN q.creator ELSE 0
           newIn == a + q.consumed - q.protocol - q.fund - paidIn
           newOut == b - q.out - (q.creator - paidIn)
<1>8. newIn \in Nat /\ newIn >= a + split.curve /\ newIn <= a + q.consumed
      /\ newIn \in Nat \ {0}
    <2> HIDE DEF split, a, output, onOutput, protocol, fund
    <2>1. CASE CreatorFeeOnInput(c, mint)
        BY <1>2, <1>3, <1>4, <1>6, <1>7, <2>1 DEF onOutput
    <2>2. CASE ~ CreatorFeeOnInput(c, mint)
        BY <1>2, <1>3, <1>4, <1>6, <1>7, <2>2
    <2> QED
        BY <2>1, <2>2
<1>9. newOut = b - output /\ newOut \in Nat \ {0} /\ newOut <= b - q.out
    <2> HIDE DEF split, b, output, onOutput, protocol, fund
    <2>1. CASE CreatorFeeOnInput(c, mint)
        BY <1>2, <1>3, <1>4, <1>5, <1>7, <2>1 DEF onOutput
    <2>2. CASE ~ CreatorFeeOnInput(c, mint)
        BY <1>2, <1>3, <1>4, <1>5, <1>7, <2>2
    <2> QED
        BY <2>1, <2>2
<1>10. After(c, mint, q)
          = [c EXCEPT !.effective = [c.effective EXCEPT ![mint] = newIn, ![other] = newOut]]
    <2>1. After(c, mint, q) = AfterRaydium(c, mint, q)
        BY DEF After, RaydiumContexts
    <2> QED
        BY <1>2, <2>1 DEF AfterRaydium
<1> HIDE DEF newIn, newOut, a, b, split, output, onOutput, protocol, fund
<1>11. /\ After(c, mint, q) \in RaydiumContexts
       /\ After(c, mint, q).venue = "raydium" /\ c.venue = "raydium"
       /\ After(c, mint, q).effective[mint] = newIn
       /\ After(c, mint, q).effective[other] = newOut
    <2>1. [c.effective EXCEPT ![mint] = newIn, ![other] = newOut] \in [Mints -> Nat \ {0}]
        BY <1>2, <1>8, <1>9
    <2> QED
        BY <1>2, <1>10, <2>1 DEF RaydiumContexts
<1>12. newIn * newOut >= a * b
    <2>1. (a + split.curve) * newOut <= newIn * newOut
        BY <1>2, <1>4, <1>8, <1>9, ProductIsMonotone
    <2>2. /\ a * b <= (a + split.curve) * newOut
          /\ a * b \in Nat /\ (a + split.curve) * newOut \in Nat /\ newIn * newOut \in Nat
        BY <1>2, <1>4, <1>5, <1>8, <1>9, ProductIsNat
    <2> QED
        BY <2>1, <2>2
<1>13. Product(c) = a * b /\ Product(After(c, mint, q)) = newIn * newOut
    <2>1. \A x, y \in Nat : x * y = y * x
        BY Commutes
    <2>2. \/ mint = "anchor" /\ other = "token"
          \/ mint = "token" /\ other = "anchor"
        BY DEF Mints, OtherMint
    <2> QED
        BY <1>2, <1>8, <1>9, <1>11, <2>1, <2>2 DEF Product, a, b
<1>14. Accounts(q, amount)
    BY <1>3, <1>5, <1>7 DEF Accounts
<1>15. Honest(c, mint, q)
    BY <1>2, <1>8, <1>9, <1>11, <1>12, <1>13 DEF Honest, ReserveOf, Contexts, a, b
<1> QED
    BY <1>14, <1>15

(***************************************************************************)
(* The budget of a buy                                                     *)
(***************************************************************************)
LEMMA AllFeesAreMonotone ==
    ASSUME NEW f \in FeeRates
    PROVE  /\ \A n \in Nat : AllFees(f, n) \in Nat
           /\ \A m, n \in Nat : m <= n => AllFees(f, m) <= AllFees(f, n)
           /\ AllFees(f, 0) = 0
<1>1. f.lp \in Nat /\ f.protocol \in Nat /\ f.creator \in Nat
    BY DEF FeeRates
<1>2. ASSUME NEW bps \in Nat
      PROVE  /\ \A n \in Nat : FeeBpsCeil(n, bps) \in Nat
             /\ \A m, n \in Nat : m <= n => FeeBpsCeil(m, bps) <= FeeBpsCeil(n, bps)
             /\ FeeBpsCeil(0, bps) = 0
    <2>1. ASSUME NEW n \in Nat
          PROVE  FeeBpsCeil(n, bps) = CeilDiv(n * bps, FeeBpsDenominator)
                 /\ FeeBpsCeil(n, bps) \in Nat
        <3>1. n * bps \in Nat
            BY ProductIsNat
        <3> QED
            BY <3>1, FeeBpsAssumption, CeilDivBounds DEF FeeBpsCeil
    <2>2. ASSUME NEW m \in Nat, NEW n \in Nat, m <= n
          PROVE  FeeBpsCeil(m, bps) <= FeeBpsCeil(n, bps)
        <3>1. m * bps \in Nat /\ n * bps \in Nat /\ m * bps <= n * bps
            BY <2>2, ProductIsNat, ProductIsMonotone
        <3>2. CeilDiv(m * bps, FeeBpsDenominator) <= CeilDiv(n * bps, FeeBpsDenominator)
            BY <3>1, FeeBpsAssumption, CeilDivIsMonotone
        <3> QED
            BY <2>1, <3>2
    <2>3. FeeBpsCeil(0, bps) = 0
        <3>1. 0 * bps = 0
            BY Z3
        <3> QED
            BY <3>1 DEF FeeBpsCeil, RoundUpDiv
    <2> QED
        BY <2>1, <2>2, <2>3
<1>3. /\ \A n \in Nat : /\ FeeBpsCeil(n, f.lp) \in Nat
                        /\ FeeBpsCeil(n, f.protocol) \in Nat
                        /\ FeeBpsCeil(n, f.creator) \in Nat
      /\ \A m, n \in Nat : m <= n =>
            /\ FeeBpsCeil(m, f.lp) <= FeeBpsCeil(n, f.lp)
            /\ FeeBpsCeil(m, f.protocol) <= FeeBpsCeil(n, f.protocol)
            /\ FeeBpsCeil(m, f.creator) <= FeeBpsCeil(n, f.creator)
      /\ FeeBpsCeil(0, f.lp) = 0 /\ FeeBpsCeil(0, f.protocol) = 0
      /\ FeeBpsCeil(0, f.creator) = 0
    BY <1>1, <1>2
<1> QED
    BY <1>3 DEF AllFees

Fits(f, amount, n) == n + AllFees(f, n) <= amount

Midpoint(low, high) == low + (high - low) \div 2 + ((high - low) % 2)

SearchStep(f, amount, g, low, high) ==
    IF low >= high THEN low
    ELSE IF Fits(f, amount, Midpoint(low, high))
         THEN g[<<Midpoint(low, high), high>>]
         ELSE g[<<low, Midpoint(low, high) - 1>>]

BudgetSearch(f, amount) ==
    CHOOSE g : g = [range \in Nat \X Nat |-> SearchStep(f, amount, g, range[1], range[2])]

\* n is the largest input of low .. high that fits, or low if none does.
IsLargest(f, amount, low, high, n) ==
    /\ n \in low .. high
    /\ n = low \/ Fits(f, amount, n)
    /\ \A m \in n + 1 .. high : ~ Fits(f, amount, m)

Largest(f, amount, low, high) ==
    IF low >= high THEN low ELSE CHOOSE n : IsLargest(f, amount, low, high, n)

RightBelow(f, amount, g, size) ==
    \A low, high \in Nat : low <= high /\ high - low < size =>
        IsLargest(f, amount, low, high, g[<<low, high>>])

LEMMA MidpointIsBetween ==
    ASSUME NEW low \in Nat, NEW high \in Nat, low < high
    PROVE  Midpoint(low, high) \in low + 1 .. high
BY Z3 DEF Midpoint

LEMMA FittingIsClosed ==
    ASSUME NEW f \in FeeRates, NEW amount \in Nat
    PROVE  \A m, n \in Nat : m <= n /\ Fits(f, amount, n) => Fits(f, amount, m)
BY AllFeesAreMonotone DEF Fits

LEMMA OneIsLargest ==
    ASSUME NEW f, NEW amount, NEW low \in Nat, NEW high \in Nat, low <= high
    PROVE  IsLargest(f, amount, low, high, Largest(f, amount, low, high))
<1>1. CASE low = high
    BY <1>1 DEF Largest, IsLargest
<1>2. CASE low < high
    <2> DEFINE T == {n \in low .. high : n = low \/ Fits(f, amount, n)}
    <2>1. T \in SUBSET (low .. high) /\ T # {}
        OBVIOUS
    <2>2. PICK n \in T : \A m \in T : m <= n
        BY <2>1, GreatestElement
    <2>3. IsLargest(f, amount, low, high, n)
        BY <2>2 DEF IsLargest
    <2> QED
        BY <1>2, <2>3 DEF Largest
<1> QED
    BY <1>1, <1>2

LEMMA LargestIsUnique ==
    ASSUME NEW f, NEW amount, NEW low \in Nat, NEW high \in Nat, NEW m, NEW n,
           IsLargest(f, amount, low, high, m), IsLargest(f, amount, low, high, n)
    PROVE  m = n
BY DEF IsLargest

\* One turn of the loop keeps the largest input that fits in its range.
LEMMA StepFindsLargest ==
    ASSUME NEW f \in FeeRates, NEW amount \in Nat, NEW g,
           NEW low \in Nat, NEW high \in Nat, low <= high,
           RightBelow(f, amount, g, high - low)
    PROVE  IsLargest(f, amount, low, high, SearchStep(f, amount, g, low, high))
<1>1. CASE low = high
    BY <1>1 DEF SearchStep, IsLargest
<1>2. CASE low < high
    <2> DEFINE mid == Midpoint(low, high)
    <2>1. mid \in low + 1 .. high
        BY <1>2, MidpointIsBetween
    <2> HIDE DEF mid
    <2>2. CASE Fits(f, amount, mid)
        <3>1. IsLargest(f, amount, mid, high, g[<<mid, high>>])
            BY <2>1 DEF RightBelow
        <3>2. IsLargest(f, amount, low, high, g[<<mid, high>>])
            BY <2>1, <2>2, <3>1 DEF IsLargest
        <3> QED
            BY <1>2, <2>2, <3>2 DEF SearchStep, mid
    <2>3. CASE ~ Fits(f, amount, mid)
        <3>1. IsLargest(f, amount, low, mid - 1, g[<<low, mid - 1>>])
            BY <2>1 DEF RightBelow
        <3>2. \A n \in mid .. high : ~ Fits(f, amount, n)
            BY <2>1, <2>3, FittingIsClosed
        <3>3. IsLargest(f, amount, low, high, g[<<low, mid - 1>>])
            BY <2>1, <3>1, <3>2 DEF IsLargest
        <3> QED
            BY <1>2, <2>3, <3>3 DEF SearchStep, mid
    <2> QED
        BY <2>2, <2>3
<1> QED
    BY <1>1, <1>2

LEMMA SearchExists ==
    ASSUME NEW f \in FeeRates, NEW amount \in Nat
    PROVE  BudgetSearch(f, amount)
              = [range \in Nat \X Nat |->
                   SearchStep(f, amount, BudgetSearch(f, amount), range[1], range[2])]
<1> DEFINE G == [range \in Nat \X Nat |-> Largest(f, amount, range[1], range[2])]
<1>1. ASSUME NEW low \in Nat, NEW high \in Nat
      PROVE  Largest(f, amount, low, high) = SearchStep(f, amount, G, low, high)
    <2>1. CASE low >= high
        BY <2>1 DEF Largest, SearchStep
    <2>2. CASE low < high
        <3>1. \A x, y \in Nat : G[<<x, y>>] = Largest(f, amount, x, y)
            OBVIOUS
        <3> HIDE DEF G
        <3>2. RightBelow(f, amount, G, high - low)
            BY <3>1, OneIsLargest DEF RightBelow
        <3>3. IsLargest(f, amount, low, high, SearchStep(f, amount, G, low, high))
            BY <2>2, <3>2, StepFindsLargest
        <3> QED
            BY <2>2, <3>3, OneIsLargest, LargestIsUnique
    <2> QED
        BY <2>1, <2>2
<1>2. G = [range \in Nat \X Nat |-> SearchStep(f, amount, G, range[1], range[2])]
    <2> HIDE DEF G
    <2> QED
        BY <1>1 DEF G
<1> QED
    BY <1>2 DEF BudgetSearch

\* max_curve_input_for_budget ends at the largest curve input that fits: by the
\* smallest range on which it would not.
LEMMA BudgetIsMet ==
    ASSUME NEW f \in FeeRates, NEW amount \in Nat
    PROVE  LET found == MaxCurveInputForBudget(f, amount)
           IN  /\ found \in 0 .. amount
               /\ \A n \in 0 .. amount : n <= found <=> Fits(f, amount, n)
<1> DEFINE Search == BudgetSearch(f, amount)
           Right(size) == \A low, high \in Nat : low <= high /\ high - low = size =>
                             IsLargest(f, amount, low, high, Search[<<low, high>>])
           Wrong == {size \in Nat : ~ Right(size)}
<1>1. MaxCurveInputForBudget(f, amount) = Search[<<0, amount>>]
    BY DEF MaxCurveInputForBudget, BudgetSearch, SearchStep, Midpoint, Fits
<1>2. \A low, high \in Nat :
         Search[<<low, high>>] = SearchStep(f, amount, Search, low, high)
    BY SearchExists
<1> HIDE DEF Search
<1>3. Wrong = {}
    <2> SUFFICES ASSUME Wrong # {} PROVE FALSE
        OBVIOUS
    <2>1. PICK size \in Wrong : \A other \in Wrong : size <= other
        BY LeastElement
    <2>2. PICK low \in Nat, high \in Nat :
             /\ low <= high /\ high - low = size
             /\ ~ IsLargest(f, amount, low, high, Search[<<low, high>>])
        BY <2>1
    <2>3. ASSUME NEW smaller \in Nat, smaller < size
          PROVE  Right(smaller)
        <3> HIDE DEF Right
        <3>1. smaller \notin Wrong
            BY <2>1, <2>3
        <3> QED
            BY <3>1
    <2>4. RightBelow(f, amount, Search, high - low)
        <3> SUFFICES ASSUME NEW x \in Nat, NEW y \in Nat, x <= y, y - x < high - low
                     PROVE  IsLargest(f, amount, x, y, Search[<<x, y>>])
            BY DEF RightBelow
        <3>1. y - x \in Nat /\ y - x < size
            BY <2>2
        <3>2. Right(y - x)
            <4> HIDE DEF Right
            <4> QED
                BY <2>3, <3>1
        <3> QED
            BY <3>2
    <2>5. IsLargest(f, amount, low, high, SearchStep(f, amount, Search, low, high))
        BY <2>2, <2>4, StepFindsLargest
    <2> QED
        BY <1>2, <2>2, <2>5
<1>4. IsLargest(f, amount, 0, amount, Search[<<0, amount>>])
    <2>1. Right(amount)
        BY <1>3
    <2> QED
        BY <2>1
<1>5. Fits(f, amount, 0)
    BY AllFeesAreMonotone DEF Fits
<1> QED
    BY <1>1, <1>4, <1>5, FittingIsClosed DEF IsLargest

\* What the curve asks for an output is never more than what was offered.
LEMMA RequiredIsOffered ==
    ASSUME NEW c \in PumpSwapContexts, NEW found \in Nat, BaseOut(c, found) < c.base
    PROVE  /\ BaseOut(c, found) \in Nat
           /\ RawQuoteRequired(c, BaseOut(c, found)) \in 0 .. found
           /\ c.quote * c.base <= (c.quote + RawQuoteRequired(c, BaseOut(c, found)))
                                    * (c.base - BaseOut(c, found))
<1> DEFINE a == c.quote
           b == c.base
           y == BaseOut(c, found)
           r == RawQuoteRequired(c, y)
<1>1. a \in Nat \ {0} /\ b \in Nat \ {0}
    BY DEF PumpSwapContexts
<1>2. y = (b * found) \div (a + found)
    BY DEF BaseOut
<1>3. r = RoundUpDiv(a * y, b - y) /\ r = RawQuoteRequired([quote |-> a, base |-> b], y)
    BY DEF RawQuoteRequired
<1>4. y < b
    OBVIOUS
<1> HIDE DEF a, b, y, r
<1>5. b * found \in Nat /\ a + found \in Nat \ {0}
    BY <1>1, ProductIsNat
<1>6. y \in Nat /\ (a + found) * y <= b * found
    BY <1>2, <1>5, DivBounds
<1>7. b - y \in Nat \ {0} /\ a * y \in Nat
    BY <1>1, <1>4, <1>6, ProductIsNat
<1>8. a * y <= (b - y) * found
    <2>1. /\ (a + found) * y = a * y + found * y
          /\ b * found = ((b - y) + y) * found
          /\ ((b - y) + y) * found = (b - y) * found + y * found
          /\ y * found = found * y
        BY <1>1, <1>6, <1>7, Distributes, Commutes
    <2>2. found * y \in Nat /\ (b - y) * found \in Nat /\ a * y \in Nat
        BY <1>6, <1>7, ProductIsNat
    <2> QED
        BY <1>6, <2>1, <2>2
<1>9. r \in Nat /\ r <= found
    BY <1>3, <1>7, <1>8, CeilDivBounds, CeilDivIsLeast
<1>10. a * b <= (a + r) * (b - y)
    BY <1>1, <1>3, <1>4, <1>6, CurveInput
<1> QED
    BY <1>6, <1>9, <1>10 DEF a, b, y, r

LEMMA FeesAreRates ==
    ASSUME NEW c \in PumpSwapContexts, NEW amount, PumpSwapQuotable(c, amount)
    PROVE  EffectiveFees(c) \in FeeRates
<1>1. SelectFees(c) \in FeeRates
    <2>1. CASE ~ c.canonical
        BY <2>1 DEF SelectFees, PumpSwapContexts
    <2>2. CASE c.canonical
        <3> DEFINE Tiers == [threshold : Nat, fees : FeeRates]
                   reached == {i \in DOMAIN c.tiers : PoolMarketCap(c) >= c.tiers[i].threshold}
        <3>1. c.tiers \in Seq(Tiers) /\ c.tiers # << >>
            BY <2>2 DEF PumpSwapQuotable, PumpSwapContexts
        <3>2. /\ Len(c.tiers) \in Nat /\ DOMAIN c.tiers = 1 .. Len(c.tiers)
              /\ 1 \in DOMAIN c.tiers
              /\ \A i \in DOMAIN c.tiers : c.tiers[i] \in Tiers
            <4> DEFINE tiers == c.tiers
            <4>1. tiers \in Seq(Tiers) /\ tiers # << >>
                BY <3>1
            <4> HIDE DEF tiers, Tiers
            <4>2. /\ Len(tiers) \in Nat \ {0} /\ DOMAIN tiers = 1 .. Len(tiers)
                  /\ \A i \in 1 .. Len(tiers) : tiers[i] \in Tiers
                BY <4>1
            <4> QED
                BY <4>2 DEF tiers
        <3>3. CASE reached = {}
            BY <2>2, <3>2, <3>3 DEF SelectFees
        <3>4. CASE reached # {}
            <4>1. reached \in SUBSET (1 .. Len(c.tiers))
                BY <3>2
            <4> HIDE DEF reached
            <4>2. \E i \in reached : \A j \in reached : j <= i
                BY <3>2, <3>4, <4>1, GreatestElement
            <4>3. (CHOOSE i \in reached : \A j \in reached : j <= i) \in DOMAIN c.tiers
                BY <3>2, <4>1, <4>2
            <4>4. SelectFees(c)
                     = c.tiers[CHOOSE i \in reached : \A j \in reached : j <= i].fees
                BY <2>2, <3>4 DEF SelectFees, reached
            <4> QED
                BY <3>2, <4>3, <4>4
        <3> QED
            BY <3>3, <3>4
    <2> QED
        BY <2>1, <2>2 DEF PumpSwapContexts
<1> QED
    BY <1>1 DEF EffectiveFees, FeeRates

LEMMA FeesAreNat ==
    ASSUME NEW f \in FeeRates, NEW amount \in Nat
    PROVE  /\ FeeBpsCeil(amount, f.lp) \in Nat /\ FeeBpsCeil(amount, f.protocol) \in Nat
           /\ FeeBpsCeil(amount, f.creator) \in Nat
<1>1. ASSUME NEW bps \in Nat PROVE FeeBpsCeil(amount, bps) \in Nat
    <2>1. amount * bps \in Nat
        BY ProductIsNat
    <2> QED
        BY <2>1, FeeBpsAssumption, CeilDivBounds DEF FeeBpsCeil
<1> QED
    BY <1>1 DEF FeeRates

LEMMA ProductGrows ==
    ASSUME NEW x \in Nat, NEW a \in Nat, NEW b \in Nat, NEW c \in Nat, NEW d \in Nat,
           x <= a * b, a <= c, b <= d
    PROVE  x <= c * d
<1>1. a * b <= c * b /\ b * c <= d * c /\ c * b = b * c /\ c * d = d * c
    BY ProductIsMonotone, Commutes
<1>2. a * b \in Nat /\ c * b \in Nat /\ c * d \in Nat
    BY ProductIsNat
<1> QED
    BY <1>1, <1>2

\* A swap is honest if it is so about the two reserves it leaves.
LEMMA PumpSwapStepIsHonest ==
    ASSUME NEW c \in PumpSwapContexts, NEW mint, NEW q,
           NEW newBase \in Nat \ {0}, NEW newQuote \in Nat \ {0},
           After(c, mint, q) = [c EXCEPT !.base = newBase, !.quote = newQuote],
           c.base * c.quote <= newBase * newQuote,
           \/ /\ mint = c.base_mint
              /\ newBase <= c.base + q.consumed /\ newQuote <= c.quote - q.out
           \/ /\ mint = c.quote_mint
              /\ newBase <= c.base - q.out /\ newQuote <= c.quote + q.consumed
    PROVE  Honest(c, mint, q)
<1>1. /\ c.base_mint \in Mints /\ c.quote_mint \in Mints /\ c.base_mint # c.quote_mint
      /\ c.venue = "pumpswap"
    BY DEF PumpSwapContexts
<1>2. /\ OtherMint(c.base_mint) = c.quote_mint /\ OtherMint(c.quote_mint) = c.base_mint
    BY <1>1 DEF OtherMint, Mints
<1> DEFINE after == [c EXCEPT !.base = newBase, !.quote = newQuote]
<1>3. /\ after \in PumpSwapContexts
      /\ after.venue = "pumpswap" /\ after.base_mint = c.base_mint
      /\ after.base = newBase /\ after.quote = newQuote
    BY DEF PumpSwapContexts
<1> HIDE DEF after
<1>4. /\ Product(after) = newBase * newQuote /\ Product(c) = c.base * c.quote
      /\ ReserveOf(c, c.base_mint) = c.base /\ ReserveOf(c, c.quote_mint) = c.quote
      /\ ReserveOf(after, c.base_mint) = newBase /\ ReserveOf(after, c.quote_mint) = newQuote
    BY <1>1, <1>3 DEF Product, ReserveOf
<1>5. newBase * newQuote \in Nat /\ c.base * c.quote \in Nat
    <2>1. c.base \in Nat /\ c.quote \in Nat
        BY DEF PumpSwapContexts
    <2> QED
        BY <2>1, ProductIsNat
<1>6. After(c, mint, q) = after
    BY DEF after
<1> QED
    BY <1>1, <1>2, <1>3, <1>4, <1>5, <1>6 DEF Honest, Contexts

\* pumpswap::quote_exact_input promises no more than the curve gives.
LEMMA SellIsHonest ==
    ASSUME NEW c \in PumpSwapContexts, NEW amount \in Nat, PumpSwapQuotable(c, amount),
           NEW q \in QuoteBaseInput(c, amount)
    PROVE  Accounts(q, amount) /\ Honest(c, c.base_mint, q)
<1> DEFINE f == EffectiveFees(c)
           raw == (c.quote * amount) \div (c.base + amount)
<1>1. /\ q = PumpQuote(f, raw, amount, amount, raw - AllFees(f, raw))
      /\ raw - AllFees(f, raw) > 0
    BY DEF QuoteBaseInput
<1>2. c.base \in Nat \ {0} /\ c.quote \in Nat \ {0}
    BY DEF PumpSwapContexts
<1>3. f \in FeeRates
    BY FeesAreRates
<1>4. /\ raw \in Nat /\ raw < c.quote
      /\ c.base * c.quote <= (c.base + amount) * (c.quote - raw)
    <2>1. c.quote * amount = amount * c.quote
        BY <1>2, Commutes
    <2> QED
        BY <1>2, <2>1, CurveOutput
<1> HIDE DEF f, raw
<1>5. /\ FeeBpsCeil(raw, f.lp) \in Nat /\ FeeBpsCeil(raw, f.protocol) \in Nat
      /\ FeeBpsCeil(raw, f.creator) \in Nat
    BY <1>3, <1>4, FeesAreNat
<1> DEFINE newBase == c.base + q.consumed
           newQuote == c.quote - q.out - (q.protocol + q.creator)
<1>6. /\ newBase = c.base + amount
      /\ newQuote = c.quote - raw + FeeBpsCeil(raw, f.lp)
      /\ q.requested = amount /\ q.consumed = amount /\ q.unspent = 0
      /\ q.out \in Nat /\ newQuote <= c.quote - q.out
    BY <1>1, <1>2, <1>4, <1>5 DEF PumpQuote, AllFees
<1>7. newBase \in Nat \ {0} /\ newQuote \in Nat \ {0} /\ c.quote - raw <= newQuote
    BY <1>2, <1>4, <1>5, <1>6
<1>8. After(c, c.base_mint, q) = [c EXCEPT !.base = newBase, !.quote = newQuote]
    BY DEF After, AfterPumpSwap, PumpSwapContexts
<1> HIDE DEF newBase, newQuote
<1>9. Accounts(q, amount)
    BY <1>6 DEF Accounts
<1>10. c.base * c.quote <= newBase * newQuote
    BY <1>2, <1>4, <1>6, <1>7, ProductGrows
<1>11. Honest(c, c.base_mint, q)
    <2>1. newBase <= c.base + q.consumed
        BY <1>2, <1>6, <1>7
    <2> QED
        BY <1>6, <1>7, <1>8, <1>10, <2>1, PumpSwapStepIsHonest
<1> QED
    BY <1>9, <1>11

LEMMA BuyIsHonest ==
    ASSUME NEW c \in PumpSwapContexts, NEW amount \in Nat, PumpSwapQuotable(c, amount),
           NEW q \in QuoteQuoteInput(c, amount)
    PROVE  Accounts(q, amount) /\ Honest(c, c.quote_mint, q)
<1> DEFINE f == EffectiveFees(c)
           found == MaxCurveInputForBudget(f, amount)
           out == BaseOut(c, found)
           required == RawQuoteRequired(c, out)
<1>1. /\ q = PumpQuote(f, required, amount, required + AllFees(f, required), out)
      /\ out < c.base /\ required + AllFees(f, required) <= amount
    BY DEF QuoteQuoteInput
<1>2. c.base \in Nat \ {0} /\ c.quote \in Nat \ {0} /\ c.base_mint # c.quote_mint
    BY DEF PumpSwapContexts
<1>3. f \in FeeRates
    BY FeesAreRates
<1>4. found \in Nat
    <2> HIDE DEF f
    <2> QED
        BY <1>3, BudgetIsMet
<1>5. /\ out \in Nat /\ required \in Nat
      /\ c.quote * c.base <= (c.quote + required) * (c.base - out)
    <2> HIDE DEF found
    <2> QED
        BY <1>1, <1>4, RequiredIsOffered
<1> HIDE DEF f, found, out, required
<1>6. /\ FeeBpsCeil(required, f.lp) \in Nat /\ FeeBpsCeil(required, f.protocol) \in Nat
      /\ FeeBpsCeil(required, f.creator) \in Nat
    BY <1>3, <1>5, FeesAreNat
<1> DEFINE newBase == c.base - q.out
           newQuote == c.quote + q.consumed - (q.protocol + q.creator)
<1>7. /\ newBase = c.base - out
      /\ newQuote = c.quote + required + FeeBpsCeil(required, f.lp)
      /\ q.requested = amount /\ q.consumed \in Nat /\ q.consumed <= amount
      /\ q.unspent = amount - q.consumed
      /\ q.out \in Nat /\ newQuote <= c.quote + q.consumed
    BY <1>1, <1>2, <1>5, <1>6 DEF PumpQuote, AllFees
<1>8. newBase \in Nat \ {0} /\ newQuote \in Nat \ {0} /\ c.quote + required <= newQuote
    BY <1>1, <1>2, <1>5, <1>6, <1>7
<1>9. After(c, c.quote_mint, q) = [c EXCEPT !.base = newBase, !.quote = newQuote]
    BY <1>2 DEF After, AfterPumpSwap, PumpSwapContexts
<1>10. newBase = c.base - q.out
    OBVIOUS
<1> HIDE DEF newBase, newQuote
<1>11. Accounts(q, amount)
    BY <1>7 DEF Accounts
<1>12. c.base * c.quote <= newBase * newQuote
    <2>1. c.quote * c.base <= newQuote * newBase
        BY <1>2, <1>5, <1>7, <1>8, ProductGrows
    <2>2. c.quote * c.base = c.base * c.quote /\ newQuote * newBase = newBase * newQuote
        BY <1>2, <1>8, Commutes
    <2> QED
        BY <2>1, <2>2
<1>13. Honest(c, c.quote_mint, q)
    <2>1. newBase <= c.base - q.out
        BY <1>2, <1>7, <1>8, <1>10
    <2> QED
        BY <1>7, <1>8, <1>9, <1>12, <2>1, PumpSwapStepIsHonest
<1> QED
    BY <1>11, <1>13

\* What the Orca library answers is checked before it counts.
LEMMA OrcaIsHonest ==
    ASSUME NEW c \in OrcaContexts, NEW mint \in Mints, NEW amount \in Nat,
           NEW q \in OrcaQuoteExactInput(c, mint, amount)
    PROVE  Accounts(q, amount) /\ Honest(c, mint, q)
<1>1. c.venue = "orca" /\ After(c, mint, q) = c
    BY DEF OrcaContexts, After
<1>2. PICK core \in c.library[mint] : q \in OrcaLegQuote(core, amount)
    BY DEF OrcaQuoteExactInput
<1>3. core \in [token_in : Nat, est_out : Nat, min_out : Nat, trade_fee : Nat]
    BY DEF OrcaContexts
<1>4. Accounts(q, amount)
    BY <1>2, <1>3 DEF OrcaLegQuote, Accounts
<1>5. Product(c) = 0
    BY <1>1 DEF Product
<1> QED
    BY <1>1, <1>4, <1>5 DEF Honest, Contexts

LEMMA QuotesAreHonest ==
    ASSUME NEW c \in Contexts, NEW mint \in Mints, NEW amount \in Nat,
           NEW q \in VenueQuotes(c, mint, amount)
    PROVE  Accounts(q, amount) /\ Honest(c, mint, q)
<1>1. CASE c \in RaydiumContexts
    <2>1. q \in RaydiumQuoteExactInput(c, mint, amount)
        BY <1>1 DEF VenueQuotes, RaydiumContexts
    <2> QED
        BY <1>1, <2>1, RaydiumIsHonest
<1>2. CASE c \in PumpSwapContexts
    <2>1. q \in PumpSwapQuoteExactInput(c, mint, amount)
        BY <1>2 DEF VenueQuotes, PumpSwapContexts
    <2>2. PumpSwapQuotable(c, amount) /\ c.base_mint # c.quote_mint
        BY <1>2, <2>1 DEF PumpSwapQuoteExactInput, PumpSwapContexts
    <2>3. mint = c.base_mint \/ mint = c.quote_mint
        BY <1>2 DEF PumpSwapContexts, Mints
    <2>4. CASE mint = c.base_mint
        <3>1. q \in QuoteBaseInput(c, amount)
            BY <2>1, <2>2, <2>4 DEF PumpSwapQuoteExactInput
        <3> QED
            BY <1>2, <2>2, <2>4, <3>1, SellIsHonest
    <2>5. CASE mint = c.quote_mint
        <3>1. q \in QuoteQuoteInput(c, amount)
            BY <2>1, <2>2, <2>5 DEF PumpSwapQuoteExactInput
        <3> QED
            BY <1>2, <2>2, <2>5, <3>1, BuyIsHonest
    <2> QED
        BY <2>3, <2>4, <2>5
<1>3. CASE c \in OrcaContexts
    <2>1. q \in OrcaQuoteExactInput(c, mint, amount)
        BY <1>3 DEF VenueQuotes, OrcaContexts
    <2> QED
        BY <1>3, <2>1, OrcaIsHonest
<1> QED
    BY <1>1, <1>2, <1>3 DEF Contexts

(***************************************************************************)
(* The market                                                              *)
(***************************************************************************)
\* A pool that has traded is worth no less than at the start, and what its
\* traders gained of a mint is gone from its reserve.
Kept(s, c, gained) ==
    /\ s \in Contexts /\ s.venue = c.venue
    /\ Product(c) >= Product(s)
    /\ c.venue # "orca" =>
         \A m \in Mints : ReserveOf(c, m) + gained[m] <= ReserveOf(s, m)

WellFormed ==
    /\ pools \in [DOMAIN pools -> Contexts]
    /\ traded \in [DOMAIN pools -> [Mints -> Int]]
    /\ purse \in [Mints -> Int] /\ promised \in Int
    /\ anchor \in Anchors
    /\ trades \in 0 .. MaxTrades

NothingLost ==
    \E start \in Markets :
        /\ DOMAIN start = DOMAIN pools
        /\ \A p \in DOMAIN pools : Kept(start[p], pools[p], traded[p])

Inductive == WellFormed /\ NothingLost /\ RoutesEndInTheAnchor

LEMMA ReservesAreNat ==
    ASSUME NEW c \in Contexts
    PROVE  /\ Reserves(c) \subseteq Nat \ {0}
           /\ Product(c) \in Nat
           /\ c.venue # "orca" =>
                 /\ \A m \in Mints : ReserveOf(c, m) \in Nat \ {0}
                 /\ Product(c) = ReserveOf(c, "anchor") * ReserveOf(c, "token")
<1>1. CASE c \in RaydiumContexts
    <2>1. c.venue = "raydium" /\ c.effective \in [Mints -> Nat \ {0}]
        BY <1>1 DEF RaydiumContexts
    <2>2. c.effective["anchor"] \in Nat \ {0} /\ c.effective["token"] \in Nat \ {0}
        BY <2>1 DEF Mints
    <2>3. c.effective["anchor"] * c.effective["token"] \in Nat
        BY <2>2, ProductIsNat
    <2> QED
        BY <2>1, <2>2, <2>3 DEF Reserves, Product, ReserveOf, Mints
<1>2. CASE c \in PumpSwapContexts
    <2>1. /\ c.venue = "pumpswap" /\ c.base \in Nat \ {0} /\ c.quote \in Nat \ {0}
          /\ c.base_mint \in Mints
        BY <1>2 DEF PumpSwapContexts
    <2>2. c.base * c.quote \in Nat /\ c.base * c.quote = c.quote * c.base
        BY <2>1, ProductIsNat, Commutes
    <2> QED
        BY <2>1, <2>2 DEF Reserves, Product, ReserveOf, Mints
<1>3. CASE c \in OrcaContexts
    BY <1>3 DEF OrcaContexts, Reserves, Product
<1> QED
    BY <1>1, <1>2, <1>3 DEF Contexts

\* One quoted swap, and what its trader gained by it.
LEMMA SwapKeeps ==
    ASSUME NEW s, NEW c \in Contexts, NEW gained \in [Mints -> Int], NEW mint \in Mints,
           NEW amount \in Nat, NEW q \in VenueQuotes(c, mint, amount),
           Kept(s, c, gained)
    PROVE  /\ After(c, mint, q) \in Contexts
           /\ Moved(gained, mint, q) \in [Mints -> Int]
           /\ Kept(s, After(c, mint, q), Moved(gained, mint, q))
           /\ Product(After(c, mint, q)) >= Product(c)
<1> DEFINE after == After(c, mint, q)
           other == OtherMint(mint)
<1>1. Accounts(q, amount) /\ Honest(c, mint, q)
    BY QuotesAreHonest
<1>2. q.consumed \in Int /\ q.out \in Int
    BY <1>1 DEF Accounts
<1>3. /\ other \in Mints /\ other # mint
      /\ \A m \in Mints : m = mint \/ m = other
    BY DEF OtherMint, Mints
<1>4. /\ after \in Contexts /\ after.venue = c.venue
      /\ Product(after) >= Product(c)
      /\ c.venue # "orca" =>
           /\ ReserveOf(after, mint) <= ReserveOf(c, mint) + q.consumed
           /\ ReserveOf(after, other) <= ReserveOf(c, other) - q.out
    BY <1>1 DEF Honest
<1>5. s \in Contexts /\ s.venue = c.venue /\ Product(c) >= Product(s)
    BY DEF Kept
<1>6. Product(after) \in Nat /\ Product(c) \in Nat /\ Product(s) \in Nat
    BY <1>4, <1>5, ReservesAreNat
<1> HIDE DEF after, other
<1>7. /\ Moved(gained, mint, q) \in [Mints -> Int]
      /\ Moved(gained, mint, q)[mint] = gained[mint] - q.consumed
      /\ Moved(gained, mint, q)[other] = gained[other] + q.out
    BY <1>2, <1>3 DEF Moved, other
<1>8. ASSUME c.venue # "orca", NEW m \in Mints
      PROVE  ReserveOf(after, m) + Moved(gained, mint, q)[m] <= ReserveOf(s, m)
    <2>1. /\ ReserveOf(after, m) \in Nat /\ ReserveOf(c, m) \in Nat
          /\ ReserveOf(s, m) \in Nat /\ gained[m] \in Int
          /\ ReserveOf(c, m) + gained[m] <= ReserveOf(s, m)
        BY <1>4, <1>5, <1>8, ReservesAreNat DEF Kept
    <2>2. CASE m = mint
        BY <1>2, <1>4, <1>7, <1>8, <2>1, <2>2
    <2>3. CASE m = other
        BY <1>2, <1>4, <1>7, <1>8, <2>1, <2>3
    <2> QED
        BY <1>3, <2>2, <2>3
<1>9. Kept(s, after, Moved(gained, mint, q))
    BY <1>4, <1>5, <1>6, <1>8 DEF Kept
<1> QED
    BY <1>4, <1>7, <1>9 DEF after

LEMMA InitEstablishes == Init => Inductive
<1> SUFFICES ASSUME Init PROVE Inductive
    OBVIOUS
<1>1. /\ pools \in Markets /\ pools \in [DOMAIN pools -> Contexts]
      /\ traded = [p \in DOMAIN pools |-> Nothing]
      /\ purse = Nothing /\ promised = 0 /\ anchor \in Anchors /\ trades = 0
    BY MarketAssumption DEF Init
<1>2. WellFormed
    BY <1>1, MarketAssumption DEF WellFormed, Nothing
<1>3. ASSUME NEW p \in DOMAIN pools PROVE Kept(pools[p], pools[p], traded[p])
    <2>1. pools[p] \in Contexts /\ traded[p] = Nothing
        BY <1>1
    <2> DEFINE c == pools[p]
    <2> HIDE DEF c
    <2>2. /\ c \in Contexts /\ Product(c) \in Nat
          /\ c.venue # "orca" => \A m \in Mints : ReserveOf(c, m) \in Nat
        BY <2>1, ReservesAreNat DEF c
    <2>3. Kept(c, c, Nothing)
        BY <2>2 DEF Kept, Nothing
    <2> QED
        BY <2>1, <2>3 DEF c
<1>4. NothingLost
    BY <1>1, <1>3 DEF NothingLost
<1>5. RoutesEndInTheAnchor
    BY <1>1 DEF RoutesEndInTheAnchor, Nothing, Mints
<1> QED
    BY <1>2, <1>4, <1>5 DEF Inductive

\* What a trade of an outsider keeps, and of what no product shrinks.
LEMMA TradeKeeps ==
    ASSUME Inductive, NEW p \in DOMAIN pools, NEW mint \in Mints, NEW amount \in TradeAmounts,
           Trade(p, mint, amount)
    PROVE  Inductive' /\ \A r \in DOMAIN pools : Product(pools'[r]) >= Product(pools[r])
<1>1. PICK q \in VenueQuotes(pools[p], mint, amount) :
         /\ pools' = [pools EXCEPT ![p] = After(pools[p], mint, q)]
         /\ traded' = [traded EXCEPT ![p] = Moved(traded[p], mint, q)]
    BY DEF Trade
<1>2. WellFormed /\ amount \in Nat
    BY MarketAssumption DEF Inductive
<1>3. PICK start \in Markets :
         /\ DOMAIN start = DOMAIN pools
         /\ \A r \in DOMAIN pools : Kept(start[r], pools[r], traded[r])
    BY DEF Inductive, NothingLost
<1> DEFINE after == After(pools[p], mint, q)
           gained == Moved(traded[p], mint, q)
<1>4. /\ after \in Contexts /\ gained \in [Mints -> Int]
      /\ Kept(start[p], after, gained)
      /\ Product(after) >= Product(pools[p])
    <2>1. pools[p] \in Contexts /\ traded[p] \in [Mints -> Int]
        BY <1>2 DEF WellFormed
    <2>2. Kept(start[p], pools[p], traded[p])
        BY <1>3
    <2> QED
        BY <1>2, <2>1, <2>2, SwapKeeps
<1> HIDE DEF after, gained
<1>5. /\ DOMAIN pools' = DOMAIN pools
      /\ \A r \in DOMAIN pools : /\ pools'[r] = IF r = p THEN after ELSE pools[r]
                                /\ traded'[r] = IF r = p THEN gained ELSE traded[r]
    BY <1>1, <1>2 DEF after, gained, WellFormed
<1>6. WellFormed'
    <2>1. pools' \in [DOMAIN pools -> Contexts] /\ traded' \in [DOMAIN pools -> [Mints -> Int]]
        BY <1>1, <1>2, <1>4 DEF WellFormed, after, gained
    <2>2. trades' \in 0 .. MaxTrades /\ UNCHANGED <<purse, promised, anchor>>
        BY <1>2, MarketAssumption DEF Trade, WellFormed
    <2> QED
        BY <1>2, <1>5, <2>1, <2>2 DEF WellFormed
<1>7. NothingLost'
    BY <1>3, <1>4, <1>5 DEF NothingLost
<1>8. RoutesEndInTheAnchor'
    BY DEF Trade, Inductive, RoutesEndInTheAnchor
<1>9. \A r \in DOMAIN pools : Product(pools'[r]) >= Product(pools[r])
    <2>1. \A r \in DOMAIN pools : Product(pools[r]) \in Nat
        BY <1>2, ReservesAreNat DEF WellFormed
    <2> QED
        BY <1>4, <1>5, <2>1
<1> QED
    BY <1>6, <1>7, <1>8, <1>9 DEF Inductive

LEMMA TwoLegs ==
    ASSUME NEW first, NEW second, NEW amount, NEW c1, NEW c2,
           NEW q \in QuoteTwoLegExactInput(first, second, amount, c1, c2)
    PROVE  \E leg1 \in VenueQuotes(c1, first.input, amount) :
           \E leg2 \in VenueQuotes(c2, second.input, leg1.out) :
              leg2.unspent = 0 /\ q = TwoLegRouteQuote(amount, leg1, leg2)
<1> DEFINE Seconds(leg1) == {leg2 \in VenueQuotes(c2, second.input, leg1.out) :
                               SecondLegIsSpent(leg2)}
           Routes(leg1) == {TwoLegRouteQuote(amount, leg1, leg2) : leg2 \in Seconds(leg1)}
<1>1. q \in UNION {Routes(leg1) : leg1 \in VenueQuotes(c1, first.input, amount)}
    BY DEF QuoteTwoLegExactInput
<1>2. PICK leg1 \in VenueQuotes(c1, first.input, amount) : q \in Routes(leg1)
    <2> HIDE DEF Routes
    <2> QED
        BY <1>1
<1>3. PICK leg2 \in Seconds(leg1) : q = TwoLegRouteQuote(amount, leg1, leg2)
    BY <1>2
<1> QED
    BY <1>3 DEF SecondLegIsSpent

\* The two legs of a route trade in two pools; what they move ends in the anchor.
LEMMA ExecuteRouteKeeps ==
    ASSUME Inductive, NEW p1 \in DOMAIN pools, NEW p2 \in DOMAIN pools,
           NEW dollars, NEW slot, ExecuteRoute(p1, p2, dollars, slot)
    PROVE  Inductive' /\ \A r \in DOMAIN pools : Product(pools'[r]) >= Product(pools[r])
<1>1. PICK price \in prices[anchor] :
      \E amount \in UsdDollarsToAnchorRaw(dollars, anchor, price) :
      \E q \in QuoteTwoLegExactInput(Leg(p1, "anchor", slot), Leg(p2, "token", slot),
                                     amount, pools[p1], pools[p2]) :
         /\ pools' = [pools EXCEPT ![p1] = After(pools[p1], "anchor", q.leg_1),
                                   ![p2] = After(pools[p2], "token", q.leg_2)]
         /\ traded' = [traded EXCEPT ![p1] = Moved(traded[p1], "anchor", q.leg_1),
                                     ![p2] = Moved(traded[p2], "token", q.leg_2)]
         /\ purse' = Moved(Moved(purse, "anchor", q.leg_1), "token", q.leg_2)
         /\ promised' = promised + q.anchor_output - q.requested
    <2>1. p1 # p2 /\ WellFormed
        BY DEF ExecuteRoute, Inductive
    <2>2. /\ \A a, b : [pools EXCEPT ![p1] = a][p2] = pools[p2]
          /\ \A a, b : [traded EXCEPT ![p1] = a][p2] = traded[p2]
        BY <2>1 DEF WellFormed
    <2> QED
        BY <2>1, <2>2 DEF ExecuteRoute
<1>2. PICK amount \in UsdDollarsToAnchorRaw(dollars, anchor, price) :
      \E q \in QuoteTwoLegExactInput(Leg(p1, "anchor", slot), Leg(p2, "token", slot),
                                     amount, pools[p1], pools[p2]) :
         /\ pools' = [pools EXCEPT ![p1] = After(pools[p1], "anchor", q.leg_1),
                                   ![p2] = After(pools[p2], "token", q.leg_2)]
         /\ traded' = [traded EXCEPT ![p1] = Moved(traded[p1], "anchor", q.leg_1),
                                     ![p2] = Moved(traded[p2], "token", q.leg_2)]
         /\ purse' = Moved(Moved(purse, "anchor", q.leg_1), "token", q.leg_2)
         /\ promised' = promised + q.anchor_output - q.requested
    BY <1>1
<1>3. amount \in Nat
    <2>1. \A n : CheckedRaw(n) \subseteq Nat
        BY EconomicsAssumption DEF CheckedRaw
    <2> QED
        BY <2>1 DEF UsdDollarsToAnchorRaw
<1>4. PICK leg1 \in VenueQuotes(pools[p1], "anchor", amount) :
      \E leg2 \in VenueQuotes(pools[p2], "token", leg1.out) :
         /\ leg2.unspent = 0
         /\ pools' = [pools EXCEPT ![p1] = After(pools[p1], "anchor", leg1),
                                   ![p2] = After(pools[p2], "token", leg2)]
         /\ traded' = [traded EXCEPT ![p1] = Moved(traded[p1], "anchor", leg1),
                                     ![p2] = Moved(traded[p2], "token", leg2)]
         /\ purse' = Moved(Moved(purse, "anchor", leg1), "token", leg2)
         /\ promised' = promised + (leg2.out + leg1.unspent) - amount
    <2>1. PICK q \in QuoteTwoLegExactInput(Leg(p1, "anchor", slot), Leg(p2, "token", slot),
                                           amount, pools[p1], pools[p2]) :
             /\ pools' = [pools EXCEPT ![p1] = After(pools[p1], "anchor", q.leg_1),
                                       ![p2] = After(pools[p2], "token", q.leg_2)]
             /\ traded' = [traded EXCEPT ![p1] = Moved(traded[p1], "anchor", q.leg_1),
                                         ![p2] = Moved(traded[p2], "token", q.leg_2)]
             /\ purse' = Moved(Moved(purse, "anchor", q.leg_1), "token", q.leg_2)
             /\ promised' = promised + q.anchor_output - q.requested
        BY <1>2
    <2>2. Leg(p1, "anchor", slot).input = "anchor" /\ Leg(p2, "token", slot).input = "token"
        BY DEF Leg
    <2>3. \E leg1 \in VenueQuotes(pools[p1], "anchor", amount) :
          \E leg2 \in VenueQuotes(pools[p2], "token", leg1.out) :
             leg2.unspent = 0 /\ q = TwoLegRouteQuote(amount, leg1, leg2)
        BY <2>2, TwoLegs
    <2>4. \A leg1, leg2 : q = TwoLegRouteQuote(amount, leg1, leg2) =>
             /\ q.leg_1 = leg1 /\ q.leg_2 = leg2 /\ q.requested = amount
             /\ q.anchor_output = leg2.out + leg1.unspent
        BY DEF TwoLegRouteQuote
    <2> QED
        BY <2>1, <2>3, <2>4
<1>5. PICK leg2 \in VenueQuotes(pools[p2], "token", leg1.out) :
         /\ leg2.unspent = 0
         /\ pools' = [pools EXCEPT ![p1] = After(pools[p1], "anchor", leg1),
                                   ![p2] = After(pools[p2], "token", leg2)]
         /\ traded' = [traded EXCEPT ![p1] = Moved(traded[p1], "anchor", leg1),
                                     ![p2] = Moved(traded[p2], "token", leg2)]
         /\ purse' = Moved(Moved(purse, "anchor", leg1), "token", leg2)
         /\ promised' = promised + (leg2.out + leg1.unspent) - amount
    BY <1>4
<1>6. /\ WellFormed /\ p1 # p2
      /\ pools[p1] \in Contexts /\ traded[p1] \in [Mints -> Int]
      /\ pools[p2] \in Contexts /\ traded[p2] \in [Mints -> Int]
      /\ "anchor" \in Mints /\ "token" \in Mints
      /\ OtherMint("anchor") = "token" /\ OtherMint("token") = "anchor"
    BY DEF Inductive, WellFormed, ExecuteRoute, Mints, OtherMint
<1>7. Accounts(leg1, amount) /\ Accounts(leg2, leg1.out) /\ leg1.out \in Nat
    <2>1. Accounts(leg1, amount)
        BY <1>3, <1>6, QuotesAreHonest
    <2>2. leg1.out \in Nat
        BY <2>1 DEF Accounts
    <2>3. Accounts(leg2, leg1.out)
        BY <1>6, <2>2, QuotesAreHonest
    <2> QED
        BY <2>1, <2>2, <2>3
<1>8. PICK start \in Markets :
         /\ DOMAIN start = DOMAIN pools
         /\ \A r \in DOMAIN pools : Kept(start[r], pools[r], traded[r])
    BY DEF Inductive, NothingLost
<1> DEFINE after1 == After(pools[p1], "anchor", leg1)
           after2 == After(pools[p2], "token", leg2)
           gained1 == Moved(traded[p1], "anchor", leg1)
           gained2 == Moved(traded[p2], "token", leg2)
<1>9. /\ after1 \in Contexts /\ gained1 \in [Mints -> Int]
      /\ Kept(start[p1], after1, gained1) /\ Product(after1) >= Product(pools[p1])
    BY <1>3, <1>6, <1>8, SwapKeeps
<1>10. /\ after2 \in Contexts /\ gained2 \in [Mints -> Int]
       /\ Kept(start[p2], after2, gained2) /\ Product(after2) >= Product(pools[p2])
    BY <1>6, <1>7, <1>8, SwapKeeps
<1> HIDE DEF after1, after2, gained1, gained2
<1>11. /\ DOMAIN pools' = DOMAIN pools
       /\ \A r \in DOMAIN pools :
            /\ pools'[r] = IF r = p2 THEN after2 ELSE IF r = p1 THEN after1 ELSE pools[r]
            /\ traded'[r] = IF r = p2 THEN gained2 ELSE IF r = p1 THEN gained1 ELSE traded[r]
    BY <1>5, <1>6 DEF after1, after2, gained1, gained2, WellFormed
<1>12. /\ purse' \in [Mints -> Int]
       /\ purse'["token"] = purse["token"] + leg1.out - leg2.consumed
       /\ purse'["anchor"] = purse["anchor"] - leg1.consumed + leg2.out
       /\ promised' = promised + (leg2.out + leg1.unspent) - amount
       /\ purse["token"] \in Int /\ purse["anchor"] \in Int /\ promised \in Int
    <2> DEFINE between == Moved(purse, "anchor", leg1)
    <2>1. purse \in [Mints -> Int] /\ promised \in Int
        BY <1>6 DEF WellFormed
    <2>2. leg1.consumed \in Int /\ leg1.out \in Int /\ leg2.consumed \in Int /\ leg2.out \in Int
        BY <1>7 DEF Accounts
    <2>3. /\ between \in [Mints -> Int]
          /\ between["token"] = purse["token"] + leg1.out
          /\ between["anchor"] = purse["anchor"] - leg1.consumed
        BY <1>6, <2>1, <2>2 DEF Moved
    <2> HIDE DEF between
    <2>4. /\ Moved(between, "token", leg2) \in [Mints -> Int]
          /\ Moved(between, "token", leg2)["token"] = between["token"] - leg2.consumed
          /\ Moved(between, "token", leg2)["anchor"] = between["anchor"] + leg2.out
        BY <1>6, <2>2, <2>3 DEF Moved
    <2>5. purse' = Moved(between, "token", leg2)
        BY <1>5 DEF between
    <2> QED
        BY <1>5, <1>6, <2>1, <2>2, <2>3, <2>4, <2>5
<1>13. RoutesEndInTheAnchor'
    <2>1. purse["token"] = 0 /\ purse["anchor"] = promised
        BY DEF Inductive, RoutesEndInTheAnchor
    <2> QED
        BY <1>3, <1>5, <1>7, <1>12, <2>1 DEF Accounts, RoutesEndInTheAnchor
<1>14. WellFormed'
    <2>1. pools' \in [DOMAIN pools -> Contexts] /\ traded' \in [DOMAIN pools -> [Mints -> Int]]
        <3>1. /\ pools' = [pools EXCEPT ![p1] = after1, ![p2] = after2]
              /\ traded' = [traded EXCEPT ![p1] = gained1, ![p2] = gained2]
            BY <1>5 DEF after1, after2, gained1, gained2
        <3> QED
            BY <1>6, <1>9, <1>10, <3>1 DEF WellFormed
    <2>2. trades' \in 0 .. MaxTrades /\ UNCHANGED anchor
        BY <1>6, MarketAssumption DEF ExecuteRoute, WellFormed
    <2>3. promised' \in Int
        BY <1>3, <1>7, <1>12 DEF Accounts
    <2> QED
        BY <1>6, <1>11, <1>12, <2>1, <2>2, <2>3 DEF WellFormed
<1>15. NothingLost'
    BY <1>8, <1>9, <1>10, <1>11 DEF NothingLost
<1>16. \A r \in DOMAIN pools : Product(pools'[r]) >= Product(pools[r])
    <2>1. \A r \in DOMAIN pools : Product(pools[r]) \in Nat
        BY <1>6, ReservesAreNat DEF WellFormed
    <2> QED
        BY <1>9, <1>10, <1>11, <2>1
<1> QED
    BY <1>13, <1>14, <1>15, <1>16 DEF Inductive

LEMMA NextKeeps ==
    Inductive /\ [Next]_vars =>
        Inductive' /\ \A r \in DOMAIN pools : Product(pools'[r]) >= Product(pools[r])
<1> SUFFICES ASSUME Inductive, [Next]_vars
             PROVE  Inductive' /\ \A r \in DOMAIN pools :
                                    Product(pools'[r]) >= Product(pools[r])
    OBVIOUS
<1>1. ASSUME NEW p \in DOMAIN pools, NEW mint \in Mints, NEW amount \in TradeAmounts,
             Trade(p, mint, amount)
      PROVE  Inductive' /\ \A r \in DOMAIN pools : Product(pools'[r]) >= Product(pools[r])
    BY <1>1, TradeKeeps
<1>2. ASSUME NEW p1 \in DOMAIN pools, NEW p2 \in DOMAIN pools,
             NEW dollars \in DollarSizes, NEW slot \in {0, 1},
             ExecuteRoute(p1, p2, dollars, slot)
      PROVE  Inductive' /\ \A r \in DOMAIN pools : Product(pools'[r]) >= Product(pools[r])
    BY <1>2, ExecuteRouteKeeps
<1>3. ASSUME UNCHANGED <<pools, traded, purse, promised, anchor, trades>>
      PROVE  Inductive' /\ \A r \in DOMAIN pools : Product(pools'[r]) >= Product(pools[r])
    <2>1. \A r \in DOMAIN pools : Product(pools[r]) \in Nat
        BY ReservesAreNat DEF Inductive, WellFormed
    <2> QED
        BY <1>3, <2>1 DEF Inductive, WellFormed, NothingLost, RoutesEndInTheAnchor
<1>4. ASSUME NEW samples \in SampleSets, Price(samples)
      PROVE  UNCHANGED <<pools, traded, purse, promised, anchor, trades>>
    BY <1>4 DEF Price
<1>5. CASE UNCHANGED vars
    BY <1>3, <1>5 DEF vars
<1> QED
    BY <1>1, <1>2, <1>3, <1>4, <1>5 DEF Next

(***************************************************************************)
(* Sizes and costs                                                         *)
(***************************************************************************)
\* A price the program takes has a confidence below it and a small exponent.
Accepted(p) ==
    /\ p.price \in Nat \ {0} /\ p.confidence \in Nat /\ p.confidence < p.price
    /\ p.exponent \in Int /\ Magnitude(p.exponent) <= MaxExponent

\* Every anchor has one price at most, and what is priced was sized by it.
Priced ==
    /\ anchor \in Anchors
    /\ \A a \in Anchors : \A p \in prices[a] : Accepted(p)
    /\ \A a \in Anchors : \A p, q \in prices[a] : p = q
    /\ \A r \in priced :
         /\ r.dollars \in Nat
         /\ \E p \in prices[anchor] :
               r.quote.requested \in UsdDollarsToAnchorRaw(r.dollars, anchor, p)
         /\ r.evaluated =>
               /\ r.samples \in Seq(Nat)
               /\ r.costs = EconomicsCostModel(anchor, r.samples, prices)

LEMMA InitIsPriced == Init => Priced
<1> SUFFICES ASSUME Init PROVE Priced
    OBVIOUS
<1>1. PICK accounts \in PriceAccounts :
         prices = [a \in Anchors |-> ParsePythUsdPrice(accounts[a], Now)]
    BY DEF Init
<1>2. ASSUME NEW a \in Anchors
      PROVE  /\ \A p \in prices[a] : Accepted(p)
             /\ \A p, q \in prices[a] : p = q
    <2>1. \A p \in prices[a] : p = accounts[a] /\ Accepted(p)
        BY <1>1, MarketAssumption DEF ParsePythUsdPrice, ConfidenceIsNarrow, Accepted
    <2> QED
        BY <2>1
<1> QED
    BY <1>2 DEF Init, Priced

LEMMA NextIsPriced == Priced /\ [Next]_vars => Priced'
<1> SUFFICES ASSUME Priced, [Next]_vars PROVE Priced'
    OBVIOUS
<1>0. ASSUME UNCHANGED <<anchor, prices>>,
             \A r \in priced' :
                /\ r.dollars \in Nat
                /\ \E p \in prices[anchor] :
                      r.quote.requested \in UsdDollarsToAnchorRaw(r.dollars, anchor, p)
                /\ r.evaluated =>
                      /\ r.samples \in Seq(Nat)
                      /\ r.costs = EconomicsCostModel(anchor, r.samples, prices)
      PROVE  Priced'
    BY <1>0 DEF Priced
<1>1. ASSUME NEW p, NEW mint, NEW amount, Trade(p, mint, amount) PROVE Priced'
    BY <1>0, <1>1 DEF Trade
<1>2. ASSUME NEW p1, NEW p2, NEW dollars \in DollarSizes, NEW slot,
             ExecuteRoute(p1, p2, dollars, slot)
      PROVE  Priced'
    <2>1. PICK price \in prices[anchor] :
          \E amount \in UsdDollarsToAnchorRaw(dollars, anchor, price) :
          \E q \in QuoteTwoLegExactInput(Leg(p1, "anchor", slot), Leg(p2, "token", slot),
                                         amount, pools[p1], pools[p2]) :
             priced' = {[quote |-> q, dollars |-> dollars, evaluated |-> FALSE]}
        BY <1>2 DEF ExecuteRoute
    <2>2. PICK amount \in UsdDollarsToAnchorRaw(dollars, anchor, price) :
          \E q \in QuoteTwoLegExactInput(Leg(p1, "anchor", slot), Leg(p2, "token", slot),
                                         amount, pools[p1], pools[p2]) :
             priced' = {[quote |-> q, dollars |-> dollars, evaluated |-> FALSE]}
        BY <2>1
    <2>3. PICK q \in QuoteTwoLegExactInput(Leg(p1, "anchor", slot), Leg(p2, "token", slot),
                                           amount, pools[p1], pools[p2]) :
             priced' = {[quote |-> q, dollars |-> dollars, evaluated |-> FALSE]}
        BY <2>2
    <2>4. q.requested = amount
        BY TwoLegs DEF TwoLegRouteQuote
    <2>5. \A r \in priced' : r.dollars = dollars /\ r.quote = q /\ r.evaluated = FALSE
        BY <2>3
    <2>6. dollars \in Nat /\ UNCHANGED <<anchor, prices>>
        BY <1>2, MarketAssumption DEF ExecuteRoute
    <2> QED
        BY <1>0, <2>1, <2>2, <2>4, <2>5, <2>6
<1>3. ASSUME NEW samples \in SampleSets, Price(samples) PROVE Priced'
    <2>1. PICK r \in priced :
             priced' = {[quote |-> r.quote, dollars |-> r.dollars, evaluated |-> TRUE,
                         samples |-> samples,
                         costs |-> EconomicsCostModel(anchor, samples, prices),
                         net |-> [m \in FundingModes |->
                            EvaluateExpectedNet(r.quote,
                               EconomicsCostModel(anchor, samples, prices), m)]]}
        BY <1>3 DEF Price
    <2>2. \A s \in priced' : /\ s.dollars = r.dollars /\ s.quote = r.quote
                             /\ s.samples = samples
                             /\ s.costs = EconomicsCostModel(anchor, samples, prices)
        BY <2>1
    <2>3. samples \in Seq(Nat) /\ UNCHANGED <<anchor, prices>>
        BY <1>3, MarketAssumption DEF Price
    <2>4. /\ r.dollars \in Nat
          /\ \E p \in prices[anchor] :
                r.quote.requested \in UsdDollarsToAnchorRaw(r.dollars, anchor, p)
        BY DEF Priced
    <2> QED
        BY <1>0, <2>2, <2>3, <2>4
<1>4. CASE UNCHANGED vars
    BY <1>4 DEF vars, Priced
<1> QED
    BY <1>1, <1>2, <1>3, <1>4 DEF Next

\* The powers of ten on both sides of a size, for either sign of the exponent.
LEMMA PowerOfExponent ==
    ASSUME NEW e \in Int, Magnitude(e) <= MaxExponent
    PROVE  LET up == IF e < 0 THEN PowerOfTen[Magnitude(e)] ELSE 1
               down == IF e < 0 THEN 1 ELSE PowerOfTen[e]
           IN  /\ up \in Nat \ {0} /\ down \in Nat \ {0}
               /\ PowerOfTen[e + MaxExponent] \in Nat \ {0}
               /\ PowerOfTen[MaxExponent] \in Nat \ {0}
               /\ PowerOfTen[e + MaxExponent] * up = PowerOfTen[MaxExponent] * down
<1> DEFINE m == Magnitude(e)
           M == MaxExponent
<1>0. m \in Nat /\ M \in Nat /\ m <= M /\ e + M \in Nat /\ m = IF e < 0 THEN -e ELSE e
    BY EconomicsAssumption DEF Magnitude
<1>1. CASE e < 0
    <2>1. (e + M) + m = M
        BY <1>0, <1>1
    <2>2. PowerOfTen[M] = PowerOfTen[e + M] * PowerOfTen[m]
        BY <1>0, <2>1, PowerAdds
    <2> QED
        BY <1>0, <1>1, <2>2, PowerIsPositive
<1>2. CASE ~(e < 0)
    <2>1. e = m
        BY <1>0, <1>2
    <2>2. PowerOfTen[M + m] = PowerOfTen[M] * PowerOfTen[m]
        BY <1>0, PowerAdds
    <2>3. e + M = M + m
        BY <1>0, <2>1
    <2> QED
        BY <1>0, <1>2, <2>1, <2>2, <2>3, PowerIsPositive
<1> QED
    BY <1>1, <1>2

\* A size rounded down is within its dollars whichever side the power was put on.
LEMMA SizeIsWithin ==
    ASSUME NEW raw \in Nat, NEW worth \in Nat, NEW upper \in Nat,
           NEW a \in Nat, NEW b \in Nat, NEW up \in Nat \ {0}, NEW down \in Nat \ {0},
           a * up = b * down, raw * (upper * down) <= worth * up
    PROVE  raw * upper * a <= worth * b
<1>1. (raw * (upper * down)) * a <= (worth * up) * a
    BY ProductIsMonotone, ProductIsNat
<1>2. (raw * (upper * down)) * a = (raw * upper * a) * down
    BY Z3
<1>3. (worth * up) * a = worth * (a * up)
    BY Z3
<1>4. worth * (b * down) = (worth * b) * down
    BY Z3
<1>5. (raw * upper * a) * down <= (worth * b) * down
    BY <1>1, <1>2, <1>3, <1>4
<1>6. raw * upper * a \in Nat /\ worth * b \in Nat
    BY ProductIsNat
<1> QED
    BY <1>5, <1>6, Cancels, Z3

LEMMA SizeFitsDollars ==
    ASSUME NEW dollars \in Nat, NEW a \in Anchors, NEW p, Accepted(p),
           NEW raw \in UsdDollarsToAnchorRaw(dollars, a, p)
    PROVE  raw * (p.price + p.confidence) * PowerOfTen[p.exponent + MaxExponent]
              <= dollars * AnchorScale(a) * PowerOfTen[MaxExponent]
<1> DEFINE e == p.exponent
           upper == p.price + p.confidence
           up == IF e < 0 THEN PowerOfTen[Magnitude(e)] ELSE 1
           down == IF e < 0 THEN 1 ELSE PowerOfTen[e]
           worth == dollars * AnchorScale(a)
<1>1. upper \in Nat \ {0} /\ e \in Int /\ Magnitude(e) <= MaxExponent
    BY DEF Accepted
<1>2. worth \in Nat
    <2>1. AnchorScale(a) \in Nat
        BY EconomicsAssumption DEF AnchorScale
    <2> QED
        BY <2>1, ProductIsNat
<1>3. raw = (worth * up) \div (upper * down) /\ raw \in Nat
    BY DEF UsdDollarsToAnchorRaw, CheckedRaw
<1> HIDE DEF upper, e, worth
<1>4. /\ up \in Nat \ {0} /\ down \in Nat \ {0}
      /\ PowerOfTen[e + MaxExponent] \in Nat /\ PowerOfTen[MaxExponent] \in Nat
      /\ PowerOfTen[e + MaxExponent] * up = PowerOfTen[MaxExponent] * down
    BY <1>1, PowerOfExponent
<1> HIDE DEF up, down
<1>5. worth * up \in Nat /\ upper * down \in Nat \ {0}
    BY <1>1, <1>2, <1>4, Z3
<1>6. (upper * down) * raw <= worth * up
    BY <1>3, <1>5, DivBounds
<1>7. raw * (upper * down) <= worth * up
    BY <1>3, <1>5, <1>6, Commutes
<1>8. raw * upper * PowerOfTen[e + MaxExponent] <= worth * PowerOfTen[MaxExponent]
    BY <1>1, <1>2, <1>3, <1>4, <1>7, SizeIsWithin
<1> QED
    BY <1>8 DEF upper, e, worth

\* The result of a division rounded up is enough.
LEMMA DivUpIsEnough ==
    ASSUME NEW n \in Nat, NEW d \in Nat \ {0}
    PROVE  DivUp(n, d) \in Nat /\ n <= d * DivUp(n, d)
<1>1. n \div d \in Nat /\ n = d * (n \div d) + (n % d) /\ n % d \in 0 .. d - 1
    BY Z3
<1>2. d * (n \div d + 1) = d * (n \div d) + d
    BY <1>1, Z3
<1> QED
    BY <1>1, <1>2 DEF DivUp

\* The powers of ten a difference of exponents puts on either side of a price.
LEMMA PowerOfDifference ==
    ASSUME NEW e \in Int, NEW f \in Int,
           Magnitude(e) <= MaxExponent, Magnitude(f) <= MaxExponent
    PROVE  LET delta == e - f
               up == IF delta > 0 THEN PowerOfTen[delta] ELSE 1
               down == IF delta < 0 THEN PowerOfTen[Magnitude(delta)] ELSE 1
               a == PowerOfTen[f + MaxExponent]
               b == PowerOfTen[e + MaxExponent]
           IN  /\ up \in Nat \ {0} /\ down \in Nat \ {0} /\ a \in Nat \ {0} /\ b \in Nat \ {0}
               /\ a * up = b * down
<1> DEFINE delta == e - f
           m == e + MaxExponent
           n == f + MaxExponent
<1>1. m \in Nat /\ n \in Nat /\ m = n + delta /\ delta \in Int
    BY EconomicsAssumption DEF Magnitude
<1>2. PowerOfTen[m] \in Nat \ {0} /\ PowerOfTen[n] \in Nat \ {0}
    BY <1>1, PowerIsPositive
<1> HIDE DEF m, n, delta
<1>3. CASE delta > 0
    <2>1. delta \in Nat /\ m = n + delta
        BY <1>1, <1>3
    <2>2. PowerOfTen[m] = PowerOfTen[n] * PowerOfTen[delta] /\ PowerOfTen[delta] \in Nat \ {0}
        BY <1>1, <2>1, PowerAdds, PowerIsPositive
    <2> QED
        BY <1>2, <1>3, <2>1, <2>2 DEF delta, m, n
<1>4. CASE delta < 0
    <2>1. -delta \in Nat /\ n = m + (-delta) /\ Magnitude(delta) = -delta
        BY <1>1, <1>4 DEF Magnitude
    <2>2. PowerOfTen[n] = PowerOfTen[m] * PowerOfTen[-delta] /\ PowerOfTen[-delta] \in Nat \ {0}
        BY <1>1, <2>1, PowerAdds, PowerIsPositive
    <2> QED
        BY <1>2, <1>4, <2>1, <2>2 DEF delta, m, n
<1>5. CASE delta = 0
    BY <1>1, <1>2, <1>5 DEF delta, m, n
<1> QED
    BY <1>1, <1>3, <1>4, <1>5

\* What covers the lamports at the extreme prices does so at every price between.
Covered(raw, lam, sols, stables, high, low, up, down) ==
    lam * high * stables * up <= sols * low * down * raw

Between(p, high, low, q) == p <= high /\ low <= q

Exchanged(a, up, b, down) == a * up = b * down

LEMMA CostIsCovered ==
    ASSUME NEW raw \in Nat, NEW lam \in Nat, NEW sols \in Nat, NEW stables \in Nat,
           NEW high \in Nat, NEW low \in Nat, NEW up \in Nat \ {0}, NEW down \in Nat,
           Covered(raw, lam, sols, stables, high, low, up, down),
           NEW p \in Nat, NEW q \in Nat, Between(p, high, low, q),
           NEW a \in Nat, NEW b \in Nat, Exchanged(a, up, b, down)
    PROVE  raw * q * sols * a >= lam * p * stables * b
<1> DEFINE x == lam * p * stables
           X == lam * high * stables
           y == raw * low * sols
           Y == raw * q * sols
<1>0. p <= high /\ low <= q /\ a * up = b * down
    BY DEF Between, Exchanged
<1>1. x \in Nat /\ X \in Nat /\ x <= X
    <2>1. p * (lam * stables) <= high * (lam * stables)
        BY <1>0, ProductIsMonotone, ProductIsNat
    <2>2. x = p * (lam * stables) /\ X = high * (lam * stables)
        BY Z3
    <2> QED
        BY <2>1, <2>2, ProductIsNat
<1>2. y \in Nat /\ Y \in Nat /\ y <= Y
    <2>1. low * (raw * sols) <= q * (raw * sols)
        BY <1>0, ProductIsMonotone, ProductIsNat
    <2>2. y = low * (raw * sols) /\ Y = q * (raw * sols)
        BY Z3
    <2> QED
        BY <2>1, <2>2, ProductIsNat
<1>3. X * up <= y * down
    <2>1. sols * low * down * raw = y * down
        BY Z3
    <2> QED
        BY <2>1 DEF Covered
<1> HIDE DEF x, X, y, Y
<1>4. (X * up) * b <= (y * down) * b
    BY <1>1, <1>2, <1>3, ProductIsMonotone, ProductIsNat
<1>5. (y * down) * b = y * (b * down) /\ y * (a * up) = (y * a) * up /\ (X * up) * b = (X * b) * up
    BY <1>1, <1>2, Z3
<1>6. (X * b) * up <= (y * a) * up
    BY <1>0, <1>4, <1>5
<1>7. X * b \in Nat /\ y * a \in Nat /\ x * b \in Nat /\ Y * a \in Nat
    BY <1>1, <1>2, ProductIsNat
<1>8. X * b <= y * a
    BY <1>6, <1>7, Cancels, Z3
<1>9. x * b <= X * b /\ y * a <= Y * a
    BY <1>1, <1>2, ProductIsMonotone
<1>10. x * b <= Y * a
    BY <1>7, <1>8, <1>9
<1> QED
    BY <1>7, <1>10 DEF x, Y

LEMMA ConversionCovers ==
    ASSUME Priced, NEW lamports \in Nat, NEW raw \in LamportsToAnchor(lamports, anchor, prices)
    PROVE  CoversLamports(raw, lamports)
<1>1. CASE anchor = "WSOL"
    BY <1>1 DEF LamportsToAnchor, CoversLamports
<1>2. CASE anchor # "WSOL"
    <2> SUFFICES ASSUME NEW sol \in prices["WSOL"], NEW stable \in prices[anchor],
                        NEW p \in (sol.price - sol.confidence) .. (sol.price + sol.confidence),
                        NEW q \in (stable.price - stable.confidence)
                                     .. (stable.price + stable.confidence)
                 PROVE  raw * q * LamportsPerSol * PowerOfTen[stable.exponent + MaxExponent]
                          >= lamports * p * StableScale * PowerOfTen[sol.exponent + MaxExponent]
        BY <1>2 DEF CoversLamports
    <2> DEFINE delta == sol.exponent - stable.exponent
               up == IF delta > 0 THEN PowerOfTen[delta] ELSE 1
               down == IF delta < 0 THEN PowerOfTen[Magnitude(delta)] ELSE 1
               high == sol.price + sol.confidence
               low == stable.price - stable.confidence
               a == PowerOfTen[stable.exponent + MaxExponent]
               b == PowerOfTen[sol.exponent + MaxExponent]
               n == lamports * high * StableScale * up
               d == LamportsPerSol * low * down
    <2>1. Accepted(sol) /\ Accepted(stable)
        BY DEF Priced, Anchors
    <2>2. raw \in ConservativeLamportsToStable(lamports, sol, stable)
        <3>1. PICK s \in prices["WSOL"], t \in prices[anchor] :
                 raw \in ConservativeLamportsToStable(lamports, s, t)
            BY <1>2 DEF LamportsToAnchor
        <3>2. s = sol /\ t = stable
            BY DEF Priced, Anchors
        <3> QED
            BY <3>1, <3>2
    <2>3. raw = DivUp(n, d)
        BY <2>2 DEF ConservativeLamportsToStable, CheckedRaw
    <2>4. /\ high \in Nat /\ low \in Nat \ {0} /\ p \in Nat /\ q \in Nat /\ p <= high /\ low <= q
          /\ LamportsPerSol \in Nat \ {0} /\ StableScale \in Nat
        BY <2>1, EconomicsAssumption DEF Accepted
    <2>5. /\ up \in Nat \ {0} /\ down \in Nat \ {0} /\ a \in Nat /\ b \in Nat
          /\ a * up = b * down
        BY <2>1, PowerOfDifference DEF Accepted
    <2> HIDE DEF up, down, high, low, a, b
    <2>6. n \in Nat /\ d \in Nat \ {0}
        BY <2>4, <2>5, ProductIsNat, Z3
    <2>7. raw \in Nat /\ n <= d * raw
        <3> HIDE DEF n, d
        <3> QED
            BY <2>3, <2>6, DivUpIsEnough
    <2>8. /\ raw \in Nat /\ LamportsPerSol \in Nat /\ low \in Nat /\ down \in Nat
          /\ Covered(raw, lamports, LamportsPerSol, StableScale, high, low, up, down)
          /\ Between(p, high, low, q) /\ Exchanged(a, up, b, down)
        BY <2>4, <2>5, <2>7 DEF Covered, Between, Exchanged
    <2> HIDE DEF n, d, delta
    <2>9. raw * q * LamportsPerSol * a >= lamports * p * StableScale * b
        BY <2>4, <2>5, <2>8, CostIsCovered
    <2> QED
        BY <2>9 DEF a, b
<1> QED
    BY <1>1, <1>2

\* select_priority_fee: a quarter of the positive samples is above at most.
LEMMA FeeIsHighEnough ==
    ASSUME NEW samples \in Seq(Nat), NEW micro \in SelectPriorityFee(samples)
    PROVE  \E i \in DOMAIN samples :
              /\ samples[i] = micro /\ samples[i] > 0
              /\ 4 * Cardinality({j \in DOMAIN samples : samples[j] > samples[i]})
                    <= Cardinality({j \in DOMAIN samples : samples[j] > 0})
<1> DEFINE P == {i \in DOMAIN samples : samples[i] > 0}
           s == Ranked(P, samples)
           n == Cardinality(P)
           rank == DivUp(3 * n, 4)
<1>1. /\ DOMAIN samples = 1 .. Len(samples) /\ Len(samples) \in Nat
      /\ \A i \in DOMAIN samples : samples[i] \in Nat
    OBVIOUS
<1>2. Weighed(P, samples)
    <2>1. IsFiniteSet(1 .. Len(samples))
        BY <1>1, FS_Interval
    <2>2. IsFiniteSet(P)
        BY <1>1, <2>1, FS_Subset
    <2> QED
        BY <1>1, <2>2 DEF Weighed
<1>3. P # {} /\ micro = samples[s[rank]]
    BY DEF SelectPriorityFee
<1> HIDE DEF s, n
<1>4. /\ n \in Nat /\ \A k \in 1 .. n : s[k] \in P /\ Rank(P, samples, s[k]) = k
    <2> HIDE DEF P
    <2> QED
        BY <1>2, RankedIsOrdered DEF s, n
<1>5. n # 0
    <2> HIDE DEF P
    <2> QED
        BY <1>2, <1>3, FS_EmptySet DEF n, Weighed
<1>6. rank \in 1 .. n /\ 3 * n <= 4 * rank
    BY <1>4, <1>5, Z3 DEF DivUp
<1> HIDE DEF rank
<1> DEFINE i == s[rank]
<1>7. i \in P /\ Rank(P, samples, i) = rank
    BY <1>4, <1>6
<1> HIDE DEF i
<1> DEFINE heavier == {j \in P : samples[j] > samples[i]}
<1>8. Cardinality(heavier) \in Nat /\ Cardinality(heavier) <= n - rank
    <2> HIDE DEF P
    <2> QED
        BY <1>2, <1>7, HeavierIsLater DEF n
<1>9. heavier = {j \in DOMAIN samples : samples[j] > samples[i]}
    BY <1>1, <1>7
<1> HIDE DEF heavier
<1>10. 4 * Cardinality(heavier) <= n
    BY <1>4, <1>6, <1>8
<1> QED
    BY <1>3, <1>7, <1>9, <1>10 DEF n, i

LEMMA CostsCover == Priced => CostsCoverLamports
<1> SUFFICES ASSUME Priced, NEW r \in priced, r.evaluated
             PROVE  /\ \A raw \in r.costs.base_fee : CoversLamports(raw, BaseFeeLamports)
                    /\ \A raw \in r.costs.priority_fee :
                          \E i \in DOMAIN r.samples :
                             /\ r.samples[i] > 0
                             /\ 4 * Cardinality({j \in DOMAIN r.samples :
                                                    r.samples[j] > r.samples[i]})
                                   <= Cardinality({j \in DOMAIN r.samples : r.samples[j] > 0})
                             /\ CoversLamports(raw, DivUp(r.samples[i] * ComputeUnitLimit,
                                                          MicroPerLamport))
    BY DEF CostsCoverLamports
<1> DEFINE samples == r.samples
<1>1. /\ samples \in Seq(Nat)
      /\ r.costs = EconomicsCostModel(anchor, samples, prices)
    BY DEF Priced
<1>2. /\ r.costs.base_fee = LamportsToAnchor(BaseFeeLamports, anchor, prices)
      /\ r.costs.priority_fee = ModeledPriorityFee(anchor, samples, prices)
    BY <1>1 DEF EconomicsCostModel
<1>3. ASSUME NEW raw \in r.costs.base_fee PROVE CoversLamports(raw, BaseFeeLamports)
    BY <1>2, ConversionCovers, EconomicsAssumption
<1>4. ASSUME NEW raw \in r.costs.priority_fee
      PROVE  \E i \in DOMAIN samples :
                /\ samples[i] > 0
                /\ 4 * Cardinality({j \in DOMAIN samples : samples[j] > samples[i]})
                      <= Cardinality({j \in DOMAIN samples : samples[j] > 0})
                /\ CoversLamports(raw, DivUp(samples[i] * ComputeUnitLimit, MicroPerLamport))
    <2>1. PICK lamports \in UNION {PriorityFeeLamports(micro) :
                                       micro \in SelectPriorityFee(samples)} :
             raw \in LamportsToAnchor(lamports, anchor, prices)
        BY <1>2 DEF ModeledPriorityFee
    <2>2. PICK micro \in SelectPriorityFee(samples) : lamports \in PriorityFeeLamports(micro)
        BY <2>1
    <2>3. PICK i \in DOMAIN samples :
             /\ samples[i] = micro /\ samples[i] > 0
             /\ 4 * Cardinality({j \in DOMAIN samples : samples[j] > samples[i]})
                   <= Cardinality({j \in DOMAIN samples : samples[j] > 0})
        BY <1>1, <2>2, FeeIsHighEnough
    <2>4. lamports = DivUp(micro * ComputeUnitLimit, MicroPerLamport)
        BY <2>2 DEF PriorityFeeLamports
    <2>5. lamports \in Nat
        <3>1. micro \in Nat
            BY <1>1, <2>3
        <3>2. micro * ComputeUnitLimit \in Nat /\ MicroPerLamport \in Nat \ {0}
            BY <3>1, ProductIsNat, EconomicsAssumption
        <3> QED
            BY <2>4, <3>2, DivUpIsEnough
    <2>6. CoversLamports(raw, lamports)
        BY <2>1, <2>5, ConversionCovers
    <2> QED
        BY <2>3, <2>4, <2>6
<1> QED
    BY <1>3, <1>4

(***************************************************************************)
(* Theorems                                                                *)
(***************************************************************************)
\* The inductive invariant: every pool holds a context a quote can be asked of,
\* and is worth no less than one of the markets at the start, less what its
\* traders took out.
THEOREM MarketInvariant == Spec => []Inductive
BY InitEstablishes, NextKeeps, PTL DEF Spec

\* Every swap that raydium::quote_exact_input and pumpswap::quote_exact_input
\* foresee leaves two reserves that are not empty.
THEOREM TypeCorrect == Spec => []TypeOK
<1>1. Inductive => TypeOK
    BY ReservesAreNat DEF Inductive, WellFormed, TypeOK
<1> QED
    BY <1>1, MarketInvariant, PTL

\* The quotes of both venues round and tax so that the product of the reserves
\* never shrinks.
THEOREM ProductNeverShrinksAlways == Spec => ProductNeverShrinks
<1>1. Inductive /\ [Next]_vars =>
         [\A p \in DOMAIN pools : Product(pools'[p]) >= Product(pools[p])]_vars
    BY NextKeeps
<1> QED
    BY <1>1, MarketInvariant, PTL DEF Spec, ProductNeverShrinks

LEMMA KeptIsNoFreeLunch ==
    ASSUME NEW s, NEW c \in Contexts, NEW gained \in [Mints -> Int], Kept(s, c, gained)
    PROVE  \/ c.venue = "orca" \/ gained = Nothing
           \/ \E m \in Mints : gained[m] < 0
<1> SUFFICES ASSUME c.venue # "orca", \A m \in Mints : ~ (gained[m] < 0)
             PROVE  gained = Nothing
    OBVIOUS
<1> DEFINE a == ReserveOf(c, "anchor")
           t == ReserveOf(c, "token")
           A == ReserveOf(s, "anchor")
           T == ReserveOf(s, "token")
<1>1. /\ a \in Nat \ {0} /\ t \in Nat \ {0} /\ Product(c) = a * t
      /\ A \in Nat \ {0} /\ T \in Nat \ {0} /\ Product(s) = A * T
    BY ReservesAreNat DEF Kept, Mints
<1>2. a + gained["anchor"] <= A /\ t + gained["token"] <= T
    BY DEF Kept, Mints
<1>3. gained["anchor"] \in Nat /\ gained["token"] \in Nat
    BY DEF Mints
<1>4. Product(c) >= Product(s)
    BY DEF Kept
<1> HIDE DEF a, t, A, T
<1>5. a * t \in Nat /\ A * T \in Nat
    BY <1>1, ProductIsNat
<1>6. a <= A /\ t <= T
    BY <1>1, <1>2, <1>3
<1>7. ~ (t < T)
    <2> SUFFICES ASSUME t < T PROVE FALSE
        OBVIOUS
    <2>1. a * t < A * T
        BY <1>1, <1>6, ProductIsStrict
    <2> QED
        BY <1>1, <1>4, <1>5, <2>1
<1>8. ~ (a < A)
    <2> SUFFICES ASSUME a < A PROVE FALSE
        OBVIOUS
    <2>1. t * a < T * A
        BY <1>1, <1>6, ProductIsStrict
    <2>2. t * a = a * t /\ T * A = A * T
        BY <1>1, Commutes
    <2> QED
        BY <1>1, <1>4, <1>5, <2>1, <2>2
<1>9. gained["anchor"] = 0 /\ gained["token"] = 0
    BY <1>1, <1>2, <1>3, <1>6, <1>7, <1>8
<1> QED
    BY <1>9 DEF Nothing, Mints

\* However a constant-product pool is traded in, by quotes of any size and in
\* any order, its traders never gain of one mint without paying of the other.
THEOREM NoFreeLunchAlways == Spec => []NoFreeLunch
<1>1. Inductive => NoFreeLunch
    BY KeptIsNoFreeLunch DEF Inductive, WellFormed, NothingLost, NoFreeLunch
<1> QED
    BY <1>1, MarketInvariant, PTL

\* A route of two quoted legs leaves exactly the anchor it promised.
THEOREM RoutesEndInTheAnchorAlways == Spec => []RoutesEndInTheAnchor
<1>1. Inductive => RoutesEndInTheAnchor
    BY DEF Inductive
<1> QED
    BY <1>1, MarketInvariant, PTL

\* max_curve_input_for_budget finds the largest input that fits, for every pool
\* and every budget, and what the curve asks for is never more.
THEOREM BuysFitTheirBudgetAlways == Spec => []BuysFitTheirBudget
<1>1. ASSUME Inductive PROVE BuysFitTheirBudget
    <2> SUFFICES ASSUME NEW p \in DOMAIN pools, pools[p].venue = "pumpswap",
                        NEW amount \in TradeAmounts, PumpSwapQuotable(pools[p], amount)
                 PROVE  LET c == pools[p]
                            f == EffectiveFees(c)
                            found == MaxCurveInputForBudget(f, amount)
                            out == BaseOut(c, found)
                        IN  /\ \A n \in 0 .. amount :
                                  n <= found <=> n + AllFees(f, n) <= amount
                            /\ out < c.base => RawQuoteRequired(c, out) <= found
        BY DEF BuysFitTheirBudget
    <2> DEFINE c == pools[p]
               f == EffectiveFees(c)
               found == MaxCurveInputForBudget(f, amount)
    <2>1. c \in PumpSwapContexts /\ amount \in Nat
        <3>1. c \in Contexts
            BY <1>1 DEF Inductive, WellFormed
        <3> QED
            BY <3>1, MarketAssumption DEF Contexts, RaydiumContexts, OrcaContexts
    <2> HIDE DEF c
    <2>2. f \in FeeRates
        BY <2>1, FeesAreRates DEF c
    <2> HIDE DEF f
    <2>3. /\ found \in 0 .. amount
          /\ \A n \in 0 .. amount : n <= found <=> n + AllFees(f, n) <= amount
        BY <2>1, <2>2, BudgetIsMet DEF Fits
    <2>4. found \in Nat
        BY <2>1, <2>3
    <2> HIDE DEF found
    <2>5. BaseOut(c, found) < c.base => RawQuoteRequired(c, BaseOut(c, found)) <= found
        BY <2>1, <2>4, RequiredIsOffered
    <2> QED
        BY <2>3, <2>5 DEF c, f, found
<1> QED
    BY <1>1, MarketInvariant, PTL

\* What the routes were sized and priced by: accepted prices, one of each anchor.
THEOREM PricedInvariant == Spec => []Priced
BY InitIsPriced, NextIsPriced, PTL DEF Spec

\* economics_cost_model_with_usd_prices sets enough aside for both fees, at every
\* price of SOL and of the stable coin within the confidence of the observed ones,
\* whatever the fees and the exponents of the prices are.
THEOREM CostsCoverLamportsAlways == Spec => []CostsCoverLamports
BY CostsCover, PricedInvariant, PTL

\* usd_dollars_to_anchor_raw never sizes an input above its dollars.
THEOREM SizesStayWithinDollarsAlways == Spec => []SizesStayWithinDollars
<1>1. ASSUME Priced, NEW r \in priced, NEW p \in prices[anchor]
      PROVE  r.quote.requested * (p.price + p.confidence)
                    * PowerOfTen[p.exponent + MaxExponent]
                <= r.dollars * AnchorScale(anchor) * PowerOfTen[MaxExponent]
    <2>1. r.dollars \in Nat /\ anchor \in Anchors /\ Accepted(p)
        BY <1>1 DEF Priced
    <2>2. r.quote.requested \in UsdDollarsToAnchorRaw(r.dollars, anchor, p)
        BY <1>1 DEF Priced
    <2> QED
        BY <2>1, <2>2, SizeFitsDollars
<1>2. Priced => SizesStayWithinDollars
    BY <1>1 DEF SizesStayWithinDollars
<1> QED
    BY <1>2, PricedInvariant, PTL
=============================================================================
