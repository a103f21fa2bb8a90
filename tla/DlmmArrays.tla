----------------------------- MODULE DlmmArrays -----------------------------
(***************************************************************************)
(* Bins of a Meteora DLMM pool lie in arrays, an account each.  A bitmap   *)
(* in the LbPair says which arrays near the middle exist, an extension     *)
(* account, if there is one, says it of the others (meteora.rs).           *)
(***************************************************************************)
EXTENDS Orderings

CONSTANTS
    MaxBinPerArray,          \* MAX_BIN_PER_ARRAY, 70
    BinArrayMinIndex, BinArrayMaxIndex,
    InternalBitmapMinIndex, InternalBitmapMaxIndex

ASSUME ArrayAssumption ==
    /\ MaxBinPerArray \in Nat \ {0}
    /\ BinArrayMinIndex \in Int /\ BinArrayMaxIndex \in Int
    /\ InternalBitmapMinIndex \in Int /\ InternalBitmapMaxIndex \in Int
    /\ BinArrayMinIndex <= InternalBitmapMinIndex /\ InternalBitmapMaxIndex <= BinArrayMaxIndex

Indexes == BinArrayMinIndex .. BinArrayMaxIndex

\* \div rounds towards minus infinity, which is what the code does by hand.
BinArrayIndex(bin) == bin \div MaxBinPerArray

LowerBin(index) == index * MaxBinPerArray

UpperBin(index) == LowerBin(index) + MaxBinPerArray - 1

InternalIndexes == InternalBitmapMinIndex .. InternalBitmapMaxIndex

\* next_initialized_bin_array_index walks the bitmap one index at a time, and
\* stops at the first index whose bit it cannot read.
Ahead(start, swapForY) ==
    IF swapForY THEN BinArrayMinIndex .. start ELSE start .. BinArrayMaxIndex

\* ... and comes upon them in this order.
InOrder(indexes, swapForY) ==
    Ranked(indexes, [i \in indexes |-> IF swapForY THEN -i ELSE i])

Nearest(indexes, swapForY) ==
    {i \in indexes : \A j \in indexes : IF swapForY THEN j <= i ELSE i <= j}

Known(pool) == IF pool.extension THEN Indexes ELSE InternalIndexes

\* The next initialized index: {} is None.
NextInitialized(pool, start, swapForY) ==
    Nearest(Ahead(start, swapForY) \cap pool.bitmap \cap Known(pool), swapForY)

\* ... or BitmapExtensionRequired, when an unreadable bit comes first.
ExtensionRequired(pool, start, swapForY) ==
    \E i \in Nearest(Ahead(start, swapForY) \ Known(pool), swapForY) :
        \A j \in NextInitialized(pool, start, swapForY) : IF swapForY THEN j < i ELSE i < j
=============================================================================
