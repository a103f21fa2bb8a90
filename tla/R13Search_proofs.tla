-------------------------- MODULE R13Search_proofs --------------------------
(***************************************************************************)
(* The search of R13 and the files around it.  For every ledger and every  *)
(* set of routes, with nodes that do not lag behind each other: a history  *)
(* that is called complete is the whole history, the search implements     *)
(* ForensicsOracle, and it leaves a route undecided only with a cause.     *)
(* With any nodes: what is found is real.  For all journals and whatever   *)
(* the search finds in them: an artifact that validates is a whole one, a  *)
(* finished one answers for every candidate and route of its plan, and the *)
(* document of Stage F says what the records of its journals say.          *)
(***************************************************************************)
EXTENDS R13Search, EvidenceFiles, IntegerFacts, FiniteSetTheorems, TLAPS

-----------------------------------------------------------------------------
(***************************************************************************)
(* Sequences that are put together, and what is in them                    *)
(***************************************************************************)
\* Counting in two parts of a range, the second one by its own numbers.
UpTo(m, P) == {i \in P : i <= m}

After(m, n, P) == {j \in 1 .. n : m + j \in P}

LEMMA SplitCount ==
    ASSUME NEW m \in Nat, NEW n \in Nat, NEW P \in SUBSET (1 .. m + n),
           NEW low, NEW high, low = UpTo(m, P), high = After(m, n, P)
    PROVE  /\ IsFiniteSet(P) /\ IsFiniteSet(low) /\ IsFiniteSet(high)
           /\ Cardinality(low) \in Nat /\ Cardinality(high) \in Nat
           /\ Cardinality(P) = Cardinality(low) + Cardinality(high)
<1> USE DEF UpTo, After
<1>1. IsFiniteSet(1 .. m + n) /\ IsFiniteSet(1 .. n)
    BY FS_Interval
<1>2. IsFiniteSet(P) /\ low \in SUBSET P /\ high \in SUBSET (1 .. n)
    BY <1>1, FS_Subset
<1>3. IsFiniteSet(low) /\ IsFiniteSet(high) /\ IsFiniteSet(P \ low)
    BY <1>1, <1>2, FS_Subset
<1> DEFINE f == [j \in high |-> m + j]
<1>4. f \in Bijection(high, P \ low)
    <2>1. f \in [high -> P \ low]
        BY <1>2
    <2>2. \A i, j \in high : f[i] = f[j] => i = j
        OBVIOUS
    <2>3. ASSUME NEW i \in P \ low PROVE \E j \in high : f[j] = i
        <3>1. i - m \in 1 .. n /\ m + (i - m) = i
            OBVIOUS
        <3>2. i - m \in high
            BY <3>1
        <3> QED
            BY <3>1, <3>2
    <2> QED
        BY <2>1, <2>2, <2>3 DEF Bijection, Injection, Surjection, IsInjective
<1>5. ExistsBijection(high, P \ low)
    BY <1>4 DEF ExistsBijection
<1>6. Cardinality(P \ low) = Cardinality(high)
    BY <1>3, <1>5, FS_Bijection
<1>7. Cardinality(P \ low) = Cardinality(P) - Cardinality(P \cap low) /\ P \cap low = low
    BY <1>2, FS_Difference
<1>8. Cardinality(P) \in Nat /\ Cardinality(low) \in Nat /\ Cardinality(high) \in Nat
    BY <1>2, <1>3, FS_CardinalityType
<1> HIDE DEF f
<1>9. Cardinality(P) = Cardinality(low) + Cardinality(high)
    BY <1>6, <1>7, <1>8
<1> QED
    BY <1>2, <1>3, <1>8, <1>9

\* What has been put together of the sequences so far.
Flattens(S, seqs, part) ==
    /\ part \in [1 .. Len(seqs) -> Seq(S)]
    /\ part[1] = seqs[1]
    /\ \A i \in 1 .. Len(seqs) : i + 1 <= Len(seqs) => part[i + 1] = part[i] \o seqs[i + 1]
    /\ FlattenSeq(seqs) = part[Len(seqs)]

LEMMA FlattenUnfolds ==
    ASSUME NEW S, NEW seqs \in Seq(Seq(S)), seqs # << >>
    PROVE  \E part : Flattens(S, seqs, part)
<1> DEFINE N == Len(seqs)
           base == seqs[1]
           step == [x \in Nat \X Seq(S) |->
                        IF x[1] + 2 \in 1 .. N THEN x[2] \o seqs[x[1] + 2] ELSE x[2]]
<1>0. N \in Nat \ {0} /\ \A n \in 1 .. N : seqs[n] \in Seq(S)
    OBVIOUS
<1>00. 1 \in 1 .. N /\ N \in 1 .. N /\ \A n \in 1 .. N : n - 1 \in Nat
    BY <1>0
<1>1. step \in Rules(Seq(S)) /\ base \in Seq(S)
    <2>1. ASSUME NEW n \in Nat, NEW s \in Seq(S) PROVE step[<<n, s>>] \in Seq(S)
        BY <1>0
    <2>2. \A x \in Nat \X Seq(S) : step[x] \in Seq(S)
        BY <2>1
    <2> QED
        BY <1>0, <2>2 DEF Rules
<1>2. \A n \in Nat, s \in Seq(S) : n + 2 \in 1 .. N => step[<<n, s>>] = s \o seqs[n + 2]
    BY <1>0
<1> HIDE DEF step, base, N
<1>3. PICK G : Recurs(Seq(S), base, step, G)
    BY <1>1, Recursion
<1> DEFINE F == [n \in 1 .. N |-> G[n - 1]]
<1>4. G \in [Nat -> Seq(S)] /\ G[0] = base /\ \A n \in Nat : G[n + 1] = step[<<n, G[n]>>]
    BY <1>3 DEF Recurs
<1>5. F \in [1 .. N -> Seq(S)] /\ F[1] = base /\ DOMAIN F = 1 .. N
    <2> DEFINE T == Seq(S)
    <2>1. G \in [Nat -> T] /\ G[0] = base
        BY <1>4
    <2> HIDE DEF T
    <2>2. \A n \in 1 .. N : G[n - 1] \in T
        BY <1>00, <2>1
    <2>3. F \in [1 .. N -> T]
        BY <2>2
    <2>4. F[1] = base /\ DOMAIN F = 1 .. N
        BY <1>00, <2>1
    <2> QED
        BY <2>3, <2>4 DEF T
<1>6. ASSUME NEW n \in 1 .. N, n # 1 PROVE F[n] = F[n - 1] \o seqs[n]
    <2>1. n - 2 \in Nat /\ (n - 2) + 1 = n - 1 /\ (n - 2) + 2 = n /\ n - 1 \in 1 .. N
          /\ (n - 1) - 1 = n - 2
        BY <1>0, <1>6
    <2>2. G[n - 1] = G[n - 2] \o seqs[n]
        BY <1>2, <1>4, <2>1
    <2> QED
        BY <2>1, <2>2
<1> HIDE DEF F
<1>7. F = [n \in 1 .. N |-> IF n = 1 THEN seqs[n] ELSE F[n - 1] \o seqs[n]]
    <2>1. \A n \in 1 .. N : F[n] = IF n = 1 THEN seqs[n] ELSE F[n - 1] \o seqs[n]
        BY <1>5, <1>6 DEF base
    <2> QED
        BY <1>5, <2>1
<1> DEFINE whole == CHOOSE f : f = [i \in 1 .. Len(seqs) |->
                                        IF i = 1 THEN seqs[i] ELSE f[i - 1] \o seqs[i]]
<1>8. whole = [n \in 1 .. N |-> IF n = 1 THEN seqs[n] ELSE whole[n - 1] \o seqs[n]]
    BY <1>7 DEF N
<1>9. FlattenSeq(seqs) = whole[N]
    BY <1>0 DEF FlattenSeq, N
<1> HIDE DEF whole
<1>10. /\ whole[1] = seqs[1] /\ DOMAIN whole = 1 .. N
       /\ \A n \in 1 .. N : n # 1 => whole[n] = whole[n - 1] \o seqs[n]
    BY <1>00, <1>8
<1>11. \A n \in 1 .. N : n + 1 <= N => whole[n + 1] = whole[n] \o seqs[n + 1]
    <2> TAKE n \in 1 .. N
    <2> HAVE n + 1 <= N
    <2>1. n + 1 \in 1 .. N /\ n + 1 # 1 /\ (n + 1) - 1 = n
        OBVIOUS
    <2> QED
        BY <1>10, <2>1
<1> DEFINE Fine == {n \in Nat : n + 1 <= N => whole[n + 1] \in Seq(S)}
<1>12. Fine = Nat
    <2>1. 0 \in Fine
        BY <1>0, <1>10
    <2>2. ASSUME NEW n \in Fine PROVE n + 1 \in Fine
        <3> SUFFICES ASSUME n + 2 <= N PROVE whole[n + 2] \in Seq(S)
            OBVIOUS
        <3>1. n + 1 \in 1 .. N /\ (n + 1) + 1 = n + 2 /\ n + 2 \in 1 .. N
            BY <1>0
        <3>2. whole[n + 1] \in Seq(S) /\ seqs[n + 2] \in Seq(S)
            BY <1>0, <3>1
        <3>3. whole[n + 2] = whole[n + 1] \o seqs[n + 2]
            BY <1>11, <3>1
        <3> QED
            BY <3>2, <3>3
    <2> QED
        BY <2>1, <2>2, Induction
<1>13. whole \in [1 .. N -> Seq(S)]
    <2>1. ASSUME NEW n \in 1 .. N PROVE whole[n] \in Seq(S)
        <3>1. n - 1 \in Nat /\ (n - 1) + 1 = n
            BY <1>00
        <3>2. n - 1 \in Fine
            BY <1>12, <3>1
        <3> QED
            BY <1>00, <3>1, <3>2
    <2>2. whole = [n \in 1 .. N |-> whole[n]]
        BY <1>8
    <2> QED
        BY <2>1, <2>2
<1> QED
    BY <1>9, <1>10, <1>11, <1>13 DEF Flattens, N

\* Where a sequence has an element of Q.
Hits(s, Q) == {i \in DOMAIN s : s[i] \in Q}

HitCount(s, Q) == Cardinality(Hits(s, Q))

LEMMA HitsAreFinite ==
    ASSUME NEW S, NEW s \in Seq(S), NEW Q
    PROVE  IsFiniteSet(Hits(s, Q)) /\ HitCount(s, Q) \in Nat
<1>1. DOMAIN s = 1 .. Len(s) /\ Len(s) \in Nat
    OBVIOUS
<1>2. IsFiniteSet(DOMAIN s) /\ Hits(s, Q) \in SUBSET DOMAIN s
    <2>1. 1 \in Int /\ Len(s) \in Int
        BY <1>1
    <2>2. IsFiniteSet(1 .. Len(s))
        BY <2>1, FS_Interval
    <2> QED
        BY <1>1, <2>2 DEF Hits
<1>3. IsFiniteSet(Hits(s, Q))
    BY <1>2, FS_Subset
<1> QED
    BY <1>3, FS_CardinalityType DEF HitCount

\* Of two sequences that are joined.
LEMMA HitsJoin ==
    ASSUME NEW S, NEW s \in Seq(S), NEW t \in Seq(S), NEW Q
    PROVE  /\ HitCount(s \o t, Q) = HitCount(s, Q) + HitCount(t, Q)
           /\ ToSet(s \o t) = ToSet(s) \cup ToSet(t)
<1> DEFINE r == s \o t
           m == Len(s)
           n == Len(t)
<1>1. r \in Seq(S) /\ Joins(r, s, t)
    BY Joined
<1>2. /\ m \in Nat /\ n \in Nat /\ DOMAIN r = 1 .. m + n
      /\ \A i \in 1 .. m : r[i] = s[i]
      /\ \A i \in 1 .. n : r[m + i] = t[i]
      /\ DOMAIN s = 1 .. m /\ DOMAIN t = 1 .. n
      /\ \A i \in DOMAIN r : i \in 1 .. m \/ (i - m \in 1 .. n /\ r[i] = t[i - m])
    BY <1>1 DEF Joins
<1> HIDE DEF r, m, n
<1>3. Hits(r, Q) \in SUBSET (1 .. m + n)
    BY <1>2 DEF Hits
<1>4. Hits(s, Q) = UpTo(m, Hits(r, Q))
    <2>1. ASSUME NEW i \in Hits(r, Q), i <= m PROVE i \in Hits(s, Q)
        <3>1. i \in 1 .. m
            BY <1>2, <1>3, <2>1
        <3> QED
            BY <1>2, <3>1 DEF Hits
    <2>2. ASSUME NEW i \in Hits(s, Q) PROVE i \in Hits(r, Q) /\ i <= m
        <3>1. i \in 1 .. m /\ i \in 1 .. m + n
            BY <1>2 DEF Hits
        <3> QED
            BY <1>2, <3>1 DEF Hits
    <2> QED
        BY <2>1, <2>2 DEF UpTo
<1>5. Hits(t, Q) = After(m, n, Hits(r, Q))
    <2>1. ASSUME NEW j \in 1 .. n PROVE m + j \in DOMAIN r
        BY <1>2
    <2> QED
        BY <1>2, <2>1 DEF Hits, After
<1>6. Cardinality(Hits(r, Q)) = Cardinality(Hits(s, Q)) + Cardinality(Hits(t, Q))
    <2> DEFINE P == Hits(r, Q)
               low == Hits(s, Q)
               high == Hits(t, Q)
    <2>1. /\ m \in Nat /\ n \in Nat /\ P \in SUBSET (1 .. m + n)
          /\ low = UpTo(m, P) /\ high = After(m, n, P)
        BY <1>2, <1>3, <1>4, <1>5
    <2> HIDE DEF P, low, high
    <2>2. Cardinality(P) = Cardinality(low) + Cardinality(high)
        BY <2>1, SplitCount
    <2> QED
        BY <2>2 DEF P, low, high
<1>7. ToSet(r) = ToSet(s) \cup ToSet(t)
    <2>1. ASSUME NEW i \in DOMAIN r PROVE r[i] \in ToSet(s) \cup ToSet(t)
        <3>1. CASE i \in 1 .. m
            BY <1>2, <3>1 DEF ToSet
        <3>2. CASE i - m \in 1 .. n /\ r[i] = t[i - m]
            BY <1>2, <3>2 DEF ToSet
        <3> QED
            BY <1>2, <3>1, <3>2
    <2>2. ASSUME NEW i \in 1 .. m PROVE s[i] \in ToSet(r)
        <3>1. i \in DOMAIN r /\ s[i] = r[i]
            BY <1>2
        <3> QED
            BY <3>1 DEF ToSet
    <2>3. ASSUME NEW i \in 1 .. n PROVE t[i] \in ToSet(r)
        <3>1. m + i \in DOMAIN r /\ t[i] = r[m + i]
            BY <1>2
        <3> QED
            BY <3>1 DEF ToSet
    <2> QED
        <3>1. \A x \in ToSet(r) : x \in ToSet(s) \cup ToSet(t)
            BY <2>1 DEF ToSet
        <3>2. \A x \in ToSet(s) : x \in ToSet(r)
            BY <1>2, <2>2 DEF ToSet
        <3>3. \A x \in ToSet(t) : x \in ToSet(r)
            BY <1>2, <2>3 DEF ToSet
        <3> QED
            BY <3>1, <3>2, <3>3
<1> QED
    BY <1>6, <1>7 DEF HitCount, r

\* Of the first k numbers of a sequence of numbers.
LEMMA SumOfMore ==
    ASSUME NEW N \in Nat, NEW v \in [1 .. N -> Nat], NEW k \in Nat, k + 1 <= N
    PROVE  SumOf([i \in 1 .. k + 1 |-> v[i]]) = SumOf([i \in 1 .. k |-> v[i]]) + v[k + 1]
<1> DEFINE s == [i \in 1 .. k |-> v[i]]
           t == [i \in 1 .. k + 1 |-> v[i]]
<1>1. s \in Seq(Nat) /\ Len(s) = k /\ v[k + 1] \in Nat
    <2>1. s \in [1 .. k -> Nat]
        OBVIOUS
    <2> HIDE DEF s
    <2> QED
        BY <2>1
<1>2. t = Append(s, v[k + 1])
    <2>1. t \in Seq(Nat) /\ Len(t) = k + 1 /\ DOMAIN t = 1 .. k + 1
        <3>1. t \in [1 .. k + 1 -> Nat]
            OBVIOUS
        <3> HIDE DEF t
        <3> QED
            BY <3>1
    <2>2. \A i \in 1 .. k + 1 : t[i] = Append(s, v[k + 1])[i]
        BY <1>1
    <2> HIDE DEF s, t
    <2>3. Append(s, v[k + 1]) \in Seq(Nat) /\ Len(Append(s, v[k + 1])) = k + 1
        BY <1>1
    <2> QED
        BY <2>1, <2>2, <2>3
<1>3. SumOf(Append(s, v[k + 1])) = SumOf(s) + v[k + 1]
    <2> HIDE DEF s
    <2> QED
        BY <1>1, SumAppends
<1> QED
    BY <1>2, <1>3

LEMMA SumOfOne ==
    ASSUME NEW v, v[1] \in Nat
    PROVE  SumOf([i \in 1 .. 1 |-> v[i]]) = v[1]
<1> DEFINE x == v[1]
           s == [i \in 1 .. 1 |-> v[i]]
<1>1. s = Append(<< >>, x)
    <2>1. s \in [1 .. 1 -> Nat] /\ s[1] = x
        BY SMT
    <2> HIDE DEF s, x
    <2>2. s = <<x>>
        BY <2>1
    <2> QED
        BY <2>2
<1>2. SumOf(Append(<< >>, x)) = SumOf(<< >>) + x
    <2>1. << >> \in Seq(Nat) /\ x \in Nat
        OBVIOUS
    <2> HIDE DEF x
    <2> QED
        BY <2>1, SumAppends
<1>3. x \in Nat
    OBVIOUS
<1> HIDE DEF s, x
<1>4. SumOf(s) = x
    BY <1>1, <1>2, <1>3, SumOfNothing
<1> QED
    BY <1>4 DEF s, x

\* Of sequences that are flattened.
LEMMA FlattenCounts ==
    ASSUME NEW S, NEW seqs \in Seq(Seq(S)), seqs # << >>, NEW Q
    PROVE  /\ FlattenSeq(seqs) \in Seq(S)
           /\ HitCount(FlattenSeq(seqs), Q) = SumOf([i \in 1 .. Len(seqs) |-> HitCount(seqs[i], Q)])
           /\ ToSet(FlattenSeq(seqs)) = UNION {ToSet(seqs[i]) : i \in 1 .. Len(seqs)}
<1> DEFINE N == Len(seqs)
           v == [i \in 1 .. N |-> HitCount(seqs[i], Q)]
           Sum(k) == SumOf([i \in 1 .. k |-> v[i]])
           All(k) == UNION {ToSet(seqs[i]) : i \in 1 .. k}
<1>1. PICK part : Flattens(S, seqs, part)
    BY FlattenUnfolds
<1>2. /\ part \in [1 .. N -> Seq(S)] /\ part[1] = seqs[1]
      /\ \A i \in 1 .. N : i + 1 <= N => part[i + 1] = part[i] \o seqs[i + 1]
      /\ FlattenSeq(seqs) = part[N]
    BY <1>1 DEF Flattens
<1>3. N \in Nat /\ 1 \in 1 .. N /\ N \in 1 .. N /\ \A i \in 1 .. N : seqs[i] \in Seq(S)
    OBVIOUS
<1>4. v \in [1 .. N -> Nat] /\ \A i \in 1 .. N : v[i] = HitCount(seqs[i], Q)
    BY <1>3, HitsAreFinite
<1> HIDE DEF N, v
<1> DEFINE Good == {k \in Nat : k + 1 <= N =>
                        /\ HitCount(part[k + 1], Q) = Sum(k + 1)
                        /\ ToSet(part[k + 1]) = All(k + 1)}
<1>5. 0 \in Good
    <2>1. Sum(1) = v[1]
        BY <1>3, <1>4, SumOfOne
    <2>2. All(1) = ToSet(seqs[1])
        OBVIOUS
    <2> QED
        BY <1>2, <1>3, <1>4, <2>1, <2>2
<1>6. ASSUME NEW k \in Good PROVE k + 1 \in Good
    <2> DEFINE j == k + 1
    <2> SUFFICES ASSUME j + 1 <= N
                 PROVE  HitCount(part[j + 1], Q) = Sum(j + 1) /\ ToSet(part[j + 1]) = All(j + 1)
        OBVIOUS
    <2>1. j \in 1 .. N /\ j + 1 \in 1 .. N /\ j \in Nat
        BY <1>3
    <2>2. HitCount(part[j], Q) = Sum(j) /\ ToSet(part[j]) = All(j)
        BY <2>1
    <2>3. Sum(j + 1) = Sum(j) + v[j + 1]
        BY <1>3, <1>4, <2>1, SumOfMore
    <2>4. All(j + 1) = All(j) \cup ToSet(seqs[j + 1])
        <3>1. 1 .. j + 1 = (1 .. j) \cup {j + 1}
            BY <2>1
        <3> QED
            BY <3>1
    <2> HIDE DEF Sum, All, j, Good
    <2>5. part[j] \in Seq(S) /\ seqs[j + 1] \in Seq(S) /\ part[j + 1] = part[j] \o seqs[j + 1]
        BY <1>2, <1>3, <2>1
    <2>6. /\ HitCount(part[j + 1], Q) = HitCount(part[j], Q) + HitCount(seqs[j + 1], Q)
          /\ ToSet(part[j + 1]) = ToSet(part[j]) \cup ToSet(seqs[j + 1])
        <3> DEFINE s == part[j]
                   t == seqs[j + 1]
        <3>1. s \in Seq(S) /\ t \in Seq(S) /\ part[j + 1] = s \o t
            BY <2>5
        <3> HIDE DEF s, t
        <3>2. /\ HitCount(s \o t, Q) = HitCount(s, Q) + HitCount(t, Q)
              /\ ToSet(s \o t) = ToSet(s) \cup ToSet(t)
            BY <3>1, HitsJoin
        <3> QED
            BY <3>1, <3>2 DEF s, t
    <2> QED
        BY <1>4, <2>1, <2>2, <2>3, <2>4, <2>6
<1>7. Good = Nat
    <2> HIDE DEF Good
    <2>1. Good \in SUBSET Nat
        BY DEF Good
    <2> QED
        BY <1>5, <1>6, <2>1, Induction
<1>8. HitCount(part[N], Q) = Sum(N) /\ ToSet(part[N]) = All(N)
    <2>1. N - 1 \in Nat /\ (N - 1) + 1 = N /\ N <= N
        BY <1>3
    <2> HIDE DEF Sum, All
    <2>2. N - 1 \in Good
        BY <1>7, <2>1
    <2> QED
        BY <2>1, <2>2
<1>9. [i \in 1 .. N |-> v[i]] = [i \in 1 .. N |-> HitCount(seqs[i], Q)]
    BY <1>4
<1> HIDE DEF Good
<1>10. FlattenSeq(seqs) \in Seq(S)
    BY <1>2, <1>3
<1> QED
    BY <1>2, <1>8, <1>9, <1>10 DEF N

\* How many numbers of a range there are in P.
LEMMA SumOfMarks ==
    ASSUME NEW N \in Nat, NEW P \in SUBSET (1 .. N)
    PROVE  SumOf([i \in 1 .. N |-> IF i \in P THEN 1 ELSE 0]) = Cardinality(P)
<1> DEFINE v == [i \in 1 .. N |-> IF i \in P THEN 1 ELSE 0]
           Sum(k) == SumOf([i \in 1 .. k |-> v[i]])
           Low(k) == {i \in P : i <= k}
           Good == {k \in Nat : k <= N => Sum(k) = Cardinality(Low(k))}
<1>1. v \in [1 .. N -> Nat] /\ \A i \in 1 .. N : v[i] = IF i \in P THEN 1 ELSE 0
    OBVIOUS
<1>0. IsFiniteSet(P)
    <2>1. 1 \in Int /\ N \in Int
        OBVIOUS
    <2>2. IsFiniteSet(1 .. N)
        BY <2>1, FS_Interval
    <2> QED
        BY <2>2, FS_Subset
<1> HIDE DEF v
<1>2. 0 \in Good
    <2>0. Cardinality({}) = 0
        BY FS_EmptySet
    <2>1. Low(0) = {} /\ Cardinality({}) = 0
        <3>1. \A i \in P : ~ (i <= 0)
            OBVIOUS
        <3> QED
            BY <2>0, <3>1
    <2>2. [i \in 1 .. 0 |-> v[i]] = << >>
        OBVIOUS
    <2> QED
        <3>1. 0 <= N
            OBVIOUS
        <3> HIDE DEF Low
        <3> QED
            BY <2>1, <2>2, <3>1, SumOfNothing
<1>3. ASSUME NEW k \in Good PROVE k + 1 \in Good
    <2> SUFFICES ASSUME k + 1 <= N PROVE Sum(k + 1) = Cardinality(Low(k + 1))
        OBVIOUS
    <2>1. Sum(k + 1) = Sum(k) + v[k + 1]
        BY <1>1, SumOfMore
    <2>2. Sum(k) = Cardinality(Low(k))
        OBVIOUS
    <2>3. /\ k + 1 \in P => Low(k + 1) = Low(k) \cup {k + 1}
          /\ k + 1 \notin P => Low(k + 1) = Low(k)
        <3>1. \A i \in P : i \in Nat /\ (i <= k + 1 <=> i <= k \/ i = k + 1)
            OBVIOUS
        <3>2. \A i : i \in Low(k + 1) <=> i \in Low(k) \/ (i = k + 1 /\ k + 1 \in P)
            BY <3>1
        <3> HIDE DEF Low
        <3> QED
            BY <3>2
    <2>4. IsFiniteSet(Low(k)) /\ k + 1 \notin Low(k)
        <3>1. Low(k) \in SUBSET P
            OBVIOUS
        <3> QED
            BY <1>0, <3>1, FS_Subset
    <2>5. Cardinality(Low(k)) \in Nat /\ k + 1 \in 1 .. N
        BY <2>4, FS_CardinalityType
    <2> HIDE DEF Low, Sum
    <2>6. CASE k + 1 \in P
        BY <1>1, <2>1, <2>2, <2>3, <2>4, <2>5, <2>6, FS_AddElement
    <2>7. CASE k + 1 \notin P
        BY <1>1, <2>1, <2>2, <2>3, <2>5, <2>7
    <2> QED
        BY <2>6, <2>7
<1>4. Good = Nat
    <2> HIDE DEF Good
    <2>1. Good \in SUBSET Nat
        BY DEF Good
    <2> QED
        BY <1>2, <1>3, <2>1, Induction
<1>5. Sum(N) = Cardinality(Low(N)) /\ Low(N) = P
    <2>1. N \in Good /\ N <= N
        BY <1>4
    <2>2. \A i \in P : i <= N
        OBVIOUS
    <2>3. Low(N) = P
        BY <2>2
    <2> HIDE DEF Sum, Low
    <2> QED
        BY <2>1, <2>3
<1>6. [i \in 1 .. N |-> v[i]] = v
    BY <1>1
<1> QED
    BY <1>5, <1>6 DEF v

-----------------------------------------------------------------------------
(***************************************************************************)
(* What a search says of its routes                                        *)
(***************************************************************************)
LEMMA NoHits ==
    ASSUME NEW s, NEW Q, \A i \in DOMAIN s : s[i] \notin Q
    PROVE  HitCount(s, Q) = 0
<1>1. Hits(s, Q) = {}
    BY DEF Hits
<1> QED
    BY <1>1, FS_EmptySet DEF HitCount

LEMMA AllHits ==
    ASSUME NEW S, NEW s \in Seq(S), NEW Q, \A i \in DOMAIN s : s[i] \in Q
    PROVE  HitCount(s, Q) = Len(s)
<1>1. Hits(s, Q) = 1 .. Len(s) /\ Len(s) \in Nat
    BY DEF Hits
<1>2. Cardinality(1 .. Len(s)) = Len(s)
    <2> DEFINE n == Len(s)
    <2>1. n \in Nat /\ 1 \in Int /\ n \in Int
        BY <1>1
    <2> HIDE DEF n
    <2>2. Cardinality(1 .. n) = n
        BY <2>1, FS_Interval
    <2> QED
        BY <2>2 DEF n
<1> QED
    BY <1>1, <1>2 DEF HitCount

LEMMA OneHit ==
    ASSUME NEW x, NEW Q
    PROVE  HitCount(<<x>>, Q) = IF x \in Q THEN 1 ELSE 0
<1> DEFINE one == <<x>>
<1>1. one \in Seq({x}) /\ Len(one) = 1 /\ DOMAIN one = {1} /\ one[1] = x
    OBVIOUS
<1> HIDE DEF one
<1>2. CASE x \in Q
    <2>1. \A i \in DOMAIN one : one[i] \in Q
        BY <1>1, <1>2
    <2>2. HitCount(one, Q) = 1
        BY <1>1, <2>1, AllHits
    <2> QED
        BY <1>2, <2>2 DEF one
<1>3. CASE x \notin Q
    <2>1. \A i \in DOMAIN one : one[i] \notin Q
        BY <1>1, <1>3
    <2>2. HitCount(one, Q) = 0
        BY <2>1, NoHits
    <2> QED
        BY <1>3, <2>2 DEF one
<1> QED
    BY <1>2, <1>3

\* A result and what comes after it.
LEMMA HitsOfFirst ==
    ASSUME NEW S, NEW first \in S, NEW rest \in Seq(S), NEW Q
    PROVE  /\ <<first>> \o rest \in Seq(S)
           /\ HitCount(<<first>> \o rest, Q) = (IF first \in Q THEN 1 ELSE 0) + HitCount(rest, Q)
           /\ ToSet(<<first>> \o rest) = {first} \cup ToSet(rest)
<1> DEFINE one == <<first>>
<1>1. one \in Seq(S) /\ Len(one) = 1 /\ DOMAIN one = {1} /\ one[1] = first
    OBVIOUS
<1> HIDE DEF one
<1>2. HitCount(one, Q) = IF first \in Q THEN 1 ELSE 0
    BY OneHit DEF one
<1>3. ToSet(one) = {first}
    BY <1>1 DEF ToSet
<1>4. /\ HitCount(one \o rest, Q) = HitCount(one, Q) + HitCount(rest, Q)
      /\ ToSet(one \o rest) = ToSet(one) \cup ToSet(rest)
    BY <1>1, HitsJoin
<1>5. one \o rest \in Seq(S)
    BY <1>1
<1> QED
    BY <1>2, <1>3, <1>4, <1>5 DEF one

-----------------------------------------------------------------------------
\* A plan of routes that were analysed, and candidates that are of one of them each.
AnalysedRoutes(p, a) ==
    /\ p.routes \in Seq(ToSet(p.routes)) /\ p.routes # << >>
    /\ \A r \in ToSet(p.routes) :
          a[r].status \in RouteStatuses /\ a[r].matches \in Seq(ToSet(a[r].matches))

Result(a, r) == RouteSearchResult(r, a[r])

Matches(a, r) == TransactionMatches(r, a[r])

Block(p, a, i) == <<Result(a, p.routes[i])>> \o Matches(a, p.routes[i])

\* Everything that is said of the routes of a plan.
Said(p, a) == UNION {{Result(a, r)} \cup ToSet(Matches(a, r)) : r \in ToSet(p.routes)}

LEMMA RouteFacts ==
    ASSUME NEW p, NEW a, AnalysedRoutes(p, a)
    PROVE  /\ Len(p.routes) \in Nat \ {0} /\ DOMAIN p.routes = 1 .. Len(p.routes)
           /\ \A i \in DOMAIN p.routes : p.routes[i] \in ToSet(p.routes)
           /\ \A r \in ToSet(p.routes) : \E i \in DOMAIN p.routes : r = p.routes[i]
  BY DEF AnalysedRoutes, ToSet

LEMMA MatchFacts ==
    ASSUME NEW p, NEW a, AnalysedRoutes(p, a), NEW r \in ToSet(p.routes)
    PROVE  /\ Result(a, r) \in Said(p, a)
           /\ Matches(a, r) \in Seq(Said(p, a))
           /\ Len(Matches(a, r)) = Len(a[r].matches) /\ Len(a[r].matches) \in Nat
           /\ DOMAIN Matches(a, r) = 1 .. Len(a[r].matches)
           /\ DOMAIN a[r].matches = DOMAIN Matches(a, r)
           /\ \A i \in DOMAIN a[r].matches :
                 /\ Matches(a, r)[i].event_type = "transaction_match"
                 /\ Matches(a, r)[i].payload.route = r
                 /\ Matches(a, r)[i].payload.signature = a[r].matches[i].signature
                 /\ Matches(a, r)[i].payload.status \in {"atomic_route_amounts_unresolved",
                                                         "atomic_route_outcome_resolved"}
<1>1. a[r].matches \in Seq(ToSet(a[r].matches))
    BY DEF AnalysedRoutes
<1>2. DOMAIN a[r].matches = 1 .. Len(a[r].matches) /\ Len(a[r].matches) \in Nat
    BY <1>1
<1>3. DOMAIN Matches(a, r) = 1 .. Len(a[r].matches)
    BY <1>2 DEF Matches, TransactionMatches
<1>4. {Result(a, r)} \cup ToSet(Matches(a, r)) \subseteq Said(p, a)
    BY DEF Said
<1>5. \A i \in 1 .. Len(a[r].matches) : Matches(a, r)[i] \in Said(p, a)
    BY <1>3, <1>4 DEF ToSet
<1>6. Matches(a, r) = [i \in 1 .. Len(a[r].matches) |-> Matches(a, r)[i]]
    BY <1>2 DEF Matches, TransactionMatches
<1>7. Matches(a, r) \in Seq(Said(p, a)) /\ Len(Matches(a, r)) = Len(a[r].matches)
    <2> DEFINE s == Matches(a, r)
               n == Len(a[r].matches)
    <2>1. s \in [1 .. n -> Said(p, a)] /\ n \in Nat
        BY <1>2, <1>5, <1>6
    <2> HIDE DEF s, n
    <2>2. s \in Seq(Said(p, a)) /\ Len(s) = n
        BY <2>1
    <2> QED
        BY <2>2 DEF s, n
<1>8. \A i \in DOMAIN a[r].matches :
         /\ Matches(a, r)[i].event_type = "transaction_match"
         /\ Matches(a, r)[i].payload.route = r
         /\ Matches(a, r)[i].payload.signature = a[r].matches[i].signature
         /\ Matches(a, r)[i].payload.status \in {"atomic_route_amounts_unresolved",
                                                 "atomic_route_outcome_resolved"}
    BY DEF Matches, TransactionMatches, Record
<1> QED
    BY <1>2, <1>3, <1>4, <1>7, <1>8

\* How often an element of Q is said of the routes.
LEMMA SearchedCounts ==
    ASSUME NEW p, NEW a, AnalysedRoutes(p, a), NEW Q
    PROVE  /\ Searched(p, a) \in Seq(Said(p, a))
           /\ HitCount(Searched(p, a), Q) =
                 SumOf([i \in 1 .. Len(p.routes) |->
                     (IF Result(a, p.routes[i]) \in Q THEN 1 ELSE 0)
                         + HitCount(Matches(a, p.routes[i]), Q)])
           /\ ToSet(Searched(p, a)) = Said(p, a)
<1> DEFINE N == Len(p.routes)
           S == Said(p, a)
           blocks == [i \in DOMAIN p.routes |-> Block(p, a, i)]
           count(i) == (IF Result(a, p.routes[i]) \in Q THEN 1 ELSE 0)
                          + HitCount(Matches(a, p.routes[i]), Q)
<1>1. N \in Nat \ {0} /\ DOMAIN p.routes = 1 .. N
    BY RouteFacts
<1>2. ASSUME NEW i \in 1 .. N
      PROVE  /\ Block(p, a, i) \in Seq(S) /\ HitCount(Block(p, a, i), Q) = count(i)
             /\ ToSet(Block(p, a, i)) =
                   {Result(a, p.routes[i])} \cup ToSet(Matches(a, p.routes[i]))
    <2> DEFINE first == Result(a, p.routes[i])
               rest == Matches(a, p.routes[i])
    <2>1. p.routes[i] \in ToSet(p.routes)
        BY <1>1, RouteFacts
    <2>2. first \in S /\ rest \in Seq(S)
        BY <2>1, MatchFacts
    <2> HIDE DEF first, rest, S
    <2>3. /\ <<first>> \o rest \in Seq(S)
          /\ HitCount(<<first>> \o rest, Q) = (IF first \in Q THEN 1 ELSE 0) + HitCount(rest, Q)
          /\ ToSet(<<first>> \o rest) = {first} \cup ToSet(rest)
        BY <2>2, HitsOfFirst
    <2> QED
        BY <2>3 DEF Block, first, rest
<1> HIDE DEF S, N
<1>3. blocks \in Seq(Seq(S)) /\ Len(blocks) = N /\ blocks # << >>
      /\ \A i \in 1 .. N : blocks[i] = Block(p, a, i)
    <2>1. blocks \in [1 .. N -> Seq(S)] /\ \A i \in 1 .. N : blocks[i] = Block(p, a, i)
        BY <1>1, <1>2
    <2> HIDE DEF blocks
    <2>2. blocks \in Seq(Seq(S)) /\ Len(blocks) = N
        BY <1>1, <2>1
    <2> QED
        BY <1>1, <2>1, <2>2
<1>4. Searched(p, a) = FlattenSeq(blocks)
    BY DEF Searched, Block, Result, Matches
<1> HIDE DEF blocks
<1>5. /\ FlattenSeq(blocks) \in Seq(S)
      /\ HitCount(FlattenSeq(blocks), Q) = SumOf([i \in 1 .. N |-> HitCount(blocks[i], Q)])
      /\ ToSet(FlattenSeq(blocks)) = UNION {ToSet(blocks[i]) : i \in 1 .. N}
    BY <1>3, FlattenCounts
<1>6. [i \in 1 .. N |-> HitCount(blocks[i], Q)] = [i \in 1 .. N |-> count(i)]
    BY <1>2, <1>3
<1>7. UNION {ToSet(blocks[i]) : i \in 1 .. N} = S
    <2>1. ASSUME NEW x \in S PROVE \E i \in 1 .. N : x \in ToSet(blocks[i])
        <3>1. PICK r \in ToSet(p.routes) : x \in {Result(a, r)} \cup ToSet(Matches(a, r))
            BY DEF S, Said
        <3>2. PICK i \in 1 .. N : r = p.routes[i]
            BY <1>1, RouteFacts
        <3> QED
            BY <1>2, <1>3, <3>1, <3>2
    <2>2. ASSUME NEW i \in 1 .. N, NEW x \in ToSet(blocks[i]) PROVE x \in S
        <3>1. blocks[i] \in Seq(S)
            BY <1>2, <1>3
        <3> QED
            BY <3>1 DEF ToSet
    <2> QED
        BY <2>1, <2>2
<1> QED
    BY <1>4, <1>5, <1>6, <1>7 DEF S, N

LEMMA SearchedIsSaid ==
    ASSUME NEW p, NEW a, AnalysedRoutes(p, a)
    PROVE  Searched(p, a) \in Seq(Said(p, a)) /\ ToSet(Searched(p, a)) = Said(p, a)
<1> DEFINE Q == {}
<1> HIDE DEF Q
<1>1. /\ Searched(p, a) \in Seq(Said(p, a))
      /\ HitCount(Searched(p, a), Q) =
            SumOf([i \in 1 .. Len(p.routes) |->
                (IF Result(a, p.routes[i]) \in Q THEN 1 ELSE 0)
                    + HitCount(Matches(a, p.routes[i]), Q)])
      /\ ToSet(Searched(p, a)) = Said(p, a)
    BY SearchedCounts
<1> QED
    BY <1>1

\* Each route has one result.
LEMMA ResultsCount ==
    ASSUME NEW p, NEW a, AnalysedRoutes(p, a), NEW Q, NEW P \in SUBSET DOMAIN p.routes,
           \A i \in DOMAIN p.routes : Result(a, p.routes[i]) \in Q <=> i \in P,
           \A r \in ToSet(p.routes) : \A i \in DOMAIN a[r].matches : Matches(a, r)[i] \notin Q
    PROVE  HitCount(Searched(p, a), Q) = Cardinality(P)
<1> DEFINE N == Len(p.routes)
<1>1. N \in Nat \ {0} /\ DOMAIN p.routes = 1 .. N
    BY RouteFacts
<1>2. ASSUME NEW i \in 1 .. N
      PROVE  (IF Result(a, p.routes[i]) \in Q THEN 1 ELSE 0) + HitCount(Matches(a, p.routes[i]), Q)
                = IF i \in P THEN 1 ELSE 0
    <2>1. p.routes[i] \in ToSet(p.routes)
        BY <1>1, RouteFacts
    <2>2. \A j \in DOMAIN Matches(a, p.routes[i]) : Matches(a, p.routes[i])[j] \notin Q
        BY <2>1, MatchFacts
    <2>3. HitCount(Matches(a, p.routes[i]), Q) = 0
        BY <2>2, NoHits
    <2> QED
        BY <1>1, <2>3
<1>3. [i \in 1 .. N |-> (IF Result(a, p.routes[i]) \in Q THEN 1 ELSE 0)
                            + HitCount(Matches(a, p.routes[i]), Q)]
        = [i \in 1 .. N |-> IF i \in P THEN 1 ELSE 0]
    BY <1>2
<1>4. HitCount(Searched(p, a), Q) = SumOf([i \in 1 .. N |-> IF i \in P THEN 1 ELSE 0])
    BY <1>3, SearchedCounts
<1> HIDE DEF N
<1>5. SumOf([i \in 1 .. N |-> IF i \in P THEN 1 ELSE 0]) = Cardinality(P)
    BY <1>1, SumOfMarks
<1> QED
    BY <1>4, <1>5

\* All matches are there.
LEMMA MatchesCount ==
    ASSUME NEW p, NEW a, AnalysedRoutes(p, a), NEW Q,
           \A r \in ToSet(p.routes) : Result(a, r) \notin Q,
           \A r \in ToSet(p.routes) : \A i \in DOMAIN a[r].matches : Matches(a, r)[i] \in Q
    PROVE  HitCount(Searched(p, a), Q) = MatchCount(p, a)
<1> DEFINE N == Len(p.routes)
<1>1. N \in Nat \ {0} /\ DOMAIN p.routes = 1 .. N
    BY RouteFacts
<1>2. ASSUME NEW i \in 1 .. N
      PROVE  (IF Result(a, p.routes[i]) \in Q THEN 1 ELSE 0) + HitCount(Matches(a, p.routes[i]), Q)
                = Len(a[p.routes[i]].matches)
    <2> DEFINE r == p.routes[i]
               s == Matches(a, r)
    <2>1. r \in ToSet(p.routes)
        BY <1>1, RouteFacts
    <2>2. /\ s \in Seq(Said(p, a)) /\ Len(s) = Len(a[r].matches) /\ Len(s) \in Nat
          /\ \A j \in DOMAIN s : s[j] \in Q
        BY <2>1, MatchFacts
    <2>3. Result(a, r) \notin Q
        BY <2>1
    <2> HIDE DEF r, s
    <2>4. HitCount(s, Q) = Len(s)
        BY <2>2, AllHits
    <2>5. (IF Result(a, r) \in Q THEN 1 ELSE 0) + HitCount(s, Q) = Len(a[r].matches)
        BY <2>2, <2>3, <2>4
    <2> QED
        BY <2>5 DEF r, s
<1>3. [i \in 1 .. N |-> (IF Result(a, p.routes[i]) \in Q THEN 1 ELSE 0)
                            + HitCount(Matches(a, p.routes[i]), Q)]
        = [i \in 1 .. N |-> Len(a[p.routes[i]].matches)]
    BY <1>2
<1>4. HitCount(Searched(p, a), Q) = SumOf([i \in 1 .. N |-> Len(a[p.routes[i]].matches)])
    BY <1>3, SearchedCounts
<1> QED
    BY <1>1, <1>4 DEF MatchCount

-----------------------------------------------------------------------------
(***************************************************************************)
(* The records of an artifact, from the first to the last                  *)
(***************************************************************************)
\* A sequence that opens with two elements and ends with one.
Laid(w, first, second, body, notes, end) ==
    /\ Len(body) \in Nat /\ Len(notes) \in Nat
    /\ Len(w) = Len(body) + Len(notes) + 3 /\ DOMAIN w = 1 .. Len(body) + Len(notes) + 3
    /\ w[1] = first /\ w[2] = second /\ w[Len(body) + Len(notes) + 3] = end
    /\ \A i \in DOMAIN body : i + 2 \in DOMAIN w /\ w[i + 2] = body[i]
    /\ \A i \in DOMAIN notes : i + 2 + Len(body) \in DOMAIN w /\ w[i + 2 + Len(body)] = notes[i]
    /\ DOMAIN body = 1 .. Len(body) /\ DOMAIN notes = 1 .. Len(notes)
    /\ \A i \in DOMAIN w : \/ i = 1 \/ i = 2 \/ i = Len(body) + Len(notes) + 3
                           \/ i - 2 \in DOMAIN body \/ i - 2 - Len(body) \in DOMAIN notes

Tallied(w, first, second, body, notes, end) ==
    \A Q : HitCount(w, Q) =
              (IF first \in Q THEN 1 ELSE 0) + (IF second \in Q THEN 1 ELSE 0)
                  + HitCount(body, Q) + HitCount(notes, Q) + (IF end \in Q THEN 1 ELSE 0)

LEMMA Layout ==
    ASSUME NEW S, NEW first \in S, NEW second \in S, NEW end \in S,
           NEW body \in Seq(S), NEW notes \in Seq(S),
           NEW w, w = <<first, second>> \o body \o notes \o <<end>>
    PROVE  /\ w \in Seq(S) /\ Laid(w, first, second, body, notes, end)
           /\ Tallied(w, first, second, body, notes, end)
<1> DEFINE head == <<first, second>>
           last == <<end>>
           hb == head \o body
           hbn == hb \o notes
           s == Len(body)
           n == Len(notes)
<1>1. /\ head \in Seq(S) /\ Len(head) = 2 /\ DOMAIN head = 1 .. 2
      /\ head[1] = first /\ head[2] = second
      /\ last \in Seq(S) /\ Len(last) = 1 /\ DOMAIN last = 1 .. 1 /\ last[1] = end
      /\ s \in Nat /\ n \in Nat /\ DOMAIN body = 1 .. s /\ DOMAIN notes = 1 .. n
    OBVIOUS
<1>2. w = hbn \o last
    OBVIOUS
<1> HIDE DEF head, last
<1>3. hb \in Seq(S) /\ Joins(hb, head, body)
    BY <1>1, Joined
<1> HIDE DEF hb
<1>4. hbn \in Seq(S) /\ Joins(hbn, hb, notes)
    BY <1>3, Joined
<1> HIDE DEF hbn
<1>5. w \in Seq(S) /\ Joins(w, hbn, last)
    BY <1>1, <1>2, <1>4, Joined
<1> HIDE DEF s, n
<1>6. /\ Len(hb) = 2 + s /\ DOMAIN hb = 1 .. 2 + s
      /\ hb[1] = first /\ hb[2] = second
      /\ \A i \in 1 .. s : hb[2 + i] = body[i]
    BY <1>1, <1>3 DEF Joins, s
<1>7. /\ Len(hbn) = 2 + s + n /\ DOMAIN hbn = 1 .. 2 + s + n
      /\ \A i \in 1 .. 2 + s : hbn[i] = hb[i]
      /\ \A i \in 1 .. n : hbn[2 + s + i] = notes[i]
    BY <1>4, <1>6 DEF Joins, n
<1>8. /\ Len(w) = 3 + s + n /\ DOMAIN w = 1 .. 3 + s + n
      /\ \A i \in 1 .. 2 + s + n : w[i] = hbn[i]
      /\ w[3 + s + n] = end
    <2> DEFINE k == 2 + s + n
    <2>3. Len(hbn) = k /\ Len(last) = 1 /\ k \in Nat /\ 1 \in 1 .. 1
        BY <1>1, <1>7
    <2> HIDE DEF k
    <2>4. /\ Len(w) = k + 1 /\ DOMAIN w = 1 .. k + 1
          /\ \A i \in 1 .. k : w[i] = hbn[i]
          /\ w[k + 1] = last[1]
        BY <1>5, <2>3 DEF Joins
    <2>1. /\ Len(w) = 2 + s + n + 1 /\ DOMAIN w = 1 .. 2 + s + n + 1
          /\ \A i \in 1 .. 2 + s + n : w[i] = hbn[i]
          /\ w[2 + s + n + 1] = last[1]
        BY <2>4 DEF k
    <2>2. 2 + s + n + 1 = 3 + s + n
        BY <1>1
    <2> QED
        BY <1>1, <2>1, <2>2
<1>9. w[1] = first /\ w[2] = second
    <2>1. 1 \in 1 .. 2 + s /\ 1 \in 1 .. 2 + s + n /\ 2 \in 1 .. 2 + s /\ 2 \in 1 .. 2 + s + n
        BY <1>1
    <2> QED
        BY <1>6, <1>7, <1>8, <2>1
<1>10. ASSUME NEW i \in 1 .. s
       PROVE  i + 2 \in DOMAIN w /\ w[i + 2] = body[i]
    <2>1. i + 2 = 2 + i /\ 2 + i \in 1 .. 2 + s /\ 2 + i \in 1 .. 2 + s + n /\ 2 + i \in 1 .. 3 + s + n
        BY <1>1
    <2> QED
        BY <1>6, <1>7, <1>8, <2>1
<1>11. ASSUME NEW i \in 1 .. n
       PROVE  i + 2 + s \in DOMAIN w /\ w[i + 2 + s] = notes[i]
    <2>1. i + 2 + s = 2 + s + i /\ 2 + s + i \in 1 .. 2 + s + n /\ 2 + s + i \in 1 .. 3 + s + n
        BY <1>1
    <2> QED
        BY <1>7, <1>8, <2>1
<1>12. ASSUME NEW i \in 1 .. 3 + s + n
       PROVE  \/ i = 1 \/ i = 2 \/ i = s + n + 3 \/ i - 2 \in 1 .. s \/ i - 2 - s \in 1 .. n
    BY <1>1
<1>13. Laid(w, first, second, body, notes, end)
    <2>1. 3 + s + n = s + n + 3
        BY <1>1
    <2> QED
        BY <1>1, <1>8, <1>9, <1>10, <1>11, <1>12, <2>1 DEF Laid, s, n
<1>14. ASSUME NEW Q
       PROVE  HitCount(w, Q) =
                  (IF first \in Q THEN 1 ELSE 0) + (IF second \in Q THEN 1 ELSE 0)
                      + HitCount(body, Q) + HitCount(notes, Q) + (IF end \in Q THEN 1 ELSE 0)
    <2>1. HitCount(w, Q) = HitCount(hbn, Q) + HitCount(last, Q)
        <3>1. last \in Seq(S) /\ hbn \in Seq(S)
            BY <1>1, <1>4
        <3>2. HitCount(hbn \o last, Q) = HitCount(hbn, Q) + HitCount(last, Q)
            BY <3>1, HitsJoin
        <3> QED
            BY <1>2, <3>2
    <2>2. HitCount(hbn, Q) = HitCount(hb, Q) + HitCount(notes, Q)
        BY <1>3, HitsJoin DEF hbn
    <2>3. HitCount(hb, Q) = HitCount(head, Q) + HitCount(body, Q)
        BY <1>1, HitsJoin DEF hb
    <2>4. HitCount(last, Q) = IF end \in Q THEN 1 ELSE 0
        BY OneHit DEF last
    <2>5. HitCount(head, Q) = (IF first \in Q THEN 1 ELSE 0) + (IF second \in Q THEN 1 ELSE 0)
        <3> DEFINE one == <<first>>
                   two == <<second>>
        <3>1. one \in Seq(S) /\ two \in Seq(S)
            OBVIOUS
        <3>4. head = one \o two
            <4>1. /\ Len(one) = 1 /\ Len(two) = 1 /\ one[1] = first /\ two[1] = second
                OBVIOUS
            <4> HIDE DEF one, two
            <4>2. one \o two \in Seq(S) /\ Joins(one \o two, one, two)
                BY <3>1, Joined
            <4>3. Len(one \o two) = 2 /\ (one \o two)[1] = first /\ (one \o two)[2] = second
                <5>1. 1 \in 1 .. 1 /\ 1 + 1 = 2
                    OBVIOUS
                <5> QED
                    BY <4>1, <4>2, <5>1 DEF Joins
            <4> HIDE DEF head
            <4>4. \A i \in 1 .. 2 : head[i] = (one \o two)[i]
                BY <1>1, <4>3
            <4> QED
                <5> DEFINE both == one \o two
                <5>1. both \in Seq(S) /\ Len(both) = 2 /\ \A i \in 1 .. 2 : head[i] = both[i]
                    BY <4>2, <4>3, <4>4
                <5> HIDE DEF both
                <5>2. head = both
                    BY <1>1, <5>1
                <5> QED
                    BY <5>2 DEF both
        <3> HIDE DEF one, two
        <3>2. HitCount(one \o two, Q) = HitCount(one, Q) + HitCount(two, Q)
            BY <3>1, HitsJoin
        <3>3. /\ HitCount(one, Q) = IF first \in Q THEN 1 ELSE 0
              /\ HitCount(two, Q) = IF second \in Q THEN 1 ELSE 0
            BY OneHit DEF one, two
        <3> QED
            BY <3>2, <3>3, <3>4
    <2>6. HitCount(body, Q) \in Nat /\ HitCount(notes, Q) \in Nat
        BY HitsAreFinite
    <2> QED
        BY <2>1, <2>2, <2>3, <2>4, <2>5, <2>6
<1> QED
    BY <1>5, <1>13, <1>14 DEF Tallied

-----------------------------------------------------------------------------
\* A plan whose candidates come from different records.
SoundPlan(p, a) ==
    /\ AnalysedRoutes(p, a)
    /\ p.candidates \in Seq(ToSet(p.candidates))
    /\ \A i \in DOMAIN p.candidates : p.candidates[i].route \in ToSet(p.routes)
    /\ \A i, j \in DOMAIN p.candidates :
          p.candidates[i].source = p.candidates[j].source => i = j

Opening(p) == Record("forensics_run_start", [candidates |-> Len(p.candidates)])

Body(p, m, a) == IF m.maturity_reached THEN Searched(p, a) ELSE << >>

\* Everything that may be in the file of a plan.
Records(p, m, a) ==
    {Opening(p), Record("maturity_result", m), RunEnd(p, m, a)}
        \cup Said(p, a) \cup ToSet(Annotated(p, m, a))

LEMMA SaidIs ==
    ASSUME NEW p, NEW a, AnalysedRoutes(p, a), NEW x \in Said(p, a)
    PROVE  \/ \E r \in ToSet(p.routes) : x = Result(a, r)
           \/ \E r \in ToSet(p.routes) : \E i \in DOMAIN a[r].matches : x = Matches(a, r)[i]
<1>1. PICK r \in ToSet(p.routes) : x \in {Result(a, r)} \cup ToSet(Matches(a, r))
    BY DEF Said
<1>2. CASE x = Result(a, r)
    BY <1>2
<1>3. CASE x \in ToSet(Matches(a, r))
    <2>1. PICK i \in DOMAIN Matches(a, r) : x = Matches(a, r)[i]
        BY <1>3 DEF ToSet
    <2>2. i \in DOMAIN a[r].matches
        BY MatchFacts
    <2> QED
        BY <2>1, <2>2
<1> QED
    BY <1>1, <1>2, <1>3

LEMMA SaidEvents ==
    ASSUME NEW p, NEW a, AnalysedRoutes(p, a), NEW x \in Said(p, a)
    PROVE  /\ x.event_type \in {"route_search_result", "transaction_match"}
           /\ x.event_type = "route_search_result" <=> \E r \in ToSet(p.routes) : x = Result(a, r)
           /\ x.event_type = "transaction_match" <=>
                 \E r \in ToSet(p.routes) : \E i \in DOMAIN a[r].matches : x = Matches(a, r)[i]
<1>1. \A r \in ToSet(p.routes) : Result(a, r).event_type = "route_search_result"
    BY DEF Result, RouteSearchResult, Record
<1>2. \A r \in ToSet(p.routes) : \A i \in DOMAIN a[r].matches :
          Matches(a, r)[i].event_type = "transaction_match"
    BY MatchFacts
<1> QED
    BY <1>1, <1>2, SaidIs

\* Where what is in the file of a plan.
LEMMA ScriptFacts ==
    ASSUME NEW p, NEW m, NEW a, SoundPlan(p, a)
    PROVE  LET w == Script(p, m, a)
               body == Body(p, m, a)
               notes == Annotated(p, m, a)
           IN  /\ w \in Seq(Records(p, m, a))
               /\ Laid(w, Opening(p), Record("maturity_result", m), body, notes, RunEnd(p, m, a))
               /\ Tallied(w, Opening(p), Record("maturity_result", m), body, notes, RunEnd(p, m, a))
               /\ body \in Seq(Said(p, a)) /\ notes \in Seq(ToSet(notes))
               /\ Len(notes) = Len(p.candidates) /\ DOMAIN notes = DOMAIN p.candidates
<1> DEFINE w == Script(p, m, a)
           body == Body(p, m, a)
           notes == Annotated(p, m, a)
           S == Records(p, m, a)
           first == Opening(p)
           second == Record("maturity_result", m)
           end == RunEnd(p, m, a)
<1>1. w = <<first, second>> \o body \o notes \o <<end>>
    BY DEF Script, Opening, Body
<1>2. first \in S /\ second \in S /\ end \in S
    BY DEF Records
<1>3. body \in Seq(Said(p, a)) /\ body \in Seq(S)
    <2>1. Searched(p, a) \in Seq(Said(p, a)) /\ << >> \in Seq(Said(p, a))
        BY SearchedIsSaid DEF SoundPlan
    <2>2. body \in Seq(Said(p, a))
        BY <2>1 DEF Body
    <2>3. Said(p, a) \subseteq S
        BY DEF Records
    <2> QED
        BY <2>2, <2>3
<1>4. /\ notes \in Seq(ToSet(notes)) /\ notes \in Seq(S)
      /\ Len(notes) = Len(p.candidates) /\ DOMAIN notes = DOMAIN p.candidates
    <2> DEFINE n == Len(p.candidates)
               T == ToSet(notes)
    <2>1. n \in Nat /\ DOMAIN p.candidates = 1 .. n
        BY DEF SoundPlan
    <2>2. DOMAIN notes = 1 .. n /\ notes = [i \in 1 .. n |-> notes[i]]
        BY <2>1 DEF Annotated
    <2>3. \A i \in 1 .. n : notes[i] \in T
        BY <2>2 DEF ToSet
    <2>4. T \subseteq S
        BY DEF Records
    <2> HIDE DEF n, T, notes, S
    <2>5. notes \in [1 .. n -> T]
        BY <2>2, <2>3
    <2>6. notes \in Seq(T) /\ Len(notes) = n
        BY <2>1, <2>5
    <2>7. notes \in Seq(S)
        BY <2>4, <2>6
    <2> QED
        BY <2>1, <2>2, <2>6, <2>7 DEF n, T
<1> HIDE DEF w, body, notes, S, first, second, end
<1>5. /\ w \in Seq(S) /\ Laid(w, first, second, body, notes, end)
      /\ Tallied(w, first, second, body, notes, end)
    BY <1>1, <1>2, <1>3, <1>4, Layout
<1> QED
    BY <1>3, <1>4, <1>5 DEF w, body, notes, S, first, second, end

\* Which event is where.
Events(w, p, m, a) ==
    LET b == Len(Body(p, m, a))
    IN  /\ Of(w, "forensics_run_start") = {1}
        /\ Of(w, "maturity_result") = {2}
        /\ Of(w, "forensics_run_end") = {Len(w)}
        /\ \A i \in Of(w, "route_search_result") \cup Of(w, "transaction_match") :
              i - 2 \in DOMAIN Body(p, m, a) /\ w[i] \in Said(p, a)
        /\ \A i \in Of(w, "candidate_annotation") :
              /\ i - 2 - b \in DOMAIN p.candidates
              /\ w[i] = Annotated(p, m, a)[i - 2 - b]
        /\ \A i \in DOMAIN p.candidates :
              /\ i + 2 + b \in Of(w, "candidate_annotation")
              /\ w[i + 2 + b] = Annotated(p, m, a)[i]

LEMMA ScriptEvents ==
    ASSUME NEW p, NEW m, NEW a, SoundPlan(p, a)
    PROVE  Events(Script(p, m, a), p, m, a)
<1> DEFINE w == Script(p, m, a)
           body == Body(p, m, a)
           notes == Annotated(p, m, a)
           b == Len(body)
           n == Len(notes)
           start == "forensics_run_start"
           mature == "maturity_result"
           result == "route_search_result"
           match == "transaction_match"
           note == "candidate_annotation"
           end == "forensics_run_end"
<1>1. /\ Laid(w, Opening(p), Record("maturity_result", m), body, notes, RunEnd(p, m, a))
      /\ body \in Seq(Said(p, a)) /\ DOMAIN notes = DOMAIN p.candidates
    BY ScriptFacts
<1>2. /\ Opening(p).event_type = start
      /\ Record("maturity_result", m).event_type = mature
      /\ RunEnd(p, m, a).event_type = end
    BY DEF Opening, Record, RunEnd
<1>3. \A i \in DOMAIN notes : notes[i].event_type = note
    BY DEF Annotated, Record
<1>4. \A i \in DOMAIN body : body[i] \in Said(p, a) /\ body[i].event_type \in {result, match}
    <2>1. \A i \in DOMAIN body : body[i] \in Said(p, a)
        BY <1>1
    <2> QED
        BY <2>1, SaidEvents DEF SoundPlan
<1> HIDE DEF w, body, notes, b, n
<1>5. /\ b \in Nat /\ n \in Nat
      /\ Len(w) = b + n + 3 /\ DOMAIN w = 1 .. b + n + 3
      /\ w[1].event_type = start /\ w[2].event_type = mature /\ w[b + n + 3].event_type = end
      /\ \A i \in DOMAIN body : i + 2 \in DOMAIN w /\ w[i + 2] = body[i]
      /\ \A i \in DOMAIN notes : i + 2 + b \in DOMAIN w /\ w[i + 2 + b] = notes[i]
      /\ DOMAIN body = 1 .. b /\ DOMAIN notes = 1 .. n
      /\ \A i \in DOMAIN w : \/ i = 1 \/ i = 2 \/ i = b + n + 3
                             \/ i - 2 \in DOMAIN body \/ i - 2 - b \in DOMAIN notes
    BY <1>1, <1>2 DEF Laid, b, n
<1>6. ASSUME NEW i \in DOMAIN w
      PROVE  \/ i = 1 /\ w[i].event_type = start
             \/ i = 2 /\ w[i].event_type = mature
             \/ i = b + n + 3 /\ w[i].event_type = end
             \/ /\ i - 2 \in DOMAIN body /\ w[i] = body[i - 2] /\ w[i] \in Said(p, a)
                /\ w[i].event_type \in {result, match}
             \/ /\ i - 2 - b \in DOMAIN notes /\ w[i] = notes[i - 2 - b]
                /\ w[i].event_type = note
    <2>1. CASE i = 1 \/ i = 2 \/ i = b + n + 3
        BY <1>5, <2>1
    <2>2. CASE i - 2 \in DOMAIN body
        <3>1. (i - 2) + 2 = i
            BY <1>5
        <3>2. w[i] = body[i - 2]
            BY <1>5, <2>2, <3>1
        <3> QED
            BY <1>4, <2>2, <3>2
    <2>3. CASE i - 2 - b \in DOMAIN notes
        <3>1. (i - 2 - b) + 2 + b = i
            BY <1>5
        <3>2. w[i] = notes[i - 2 - b]
            BY <1>5, <2>3, <3>1
        <3> QED
            BY <1>3, <2>3, <3>2
    <2> QED
        BY <1>5, <2>1, <2>2, <2>3
<1>7. 1 \in DOMAIN w /\ 2 \in DOMAIN w /\ b + n + 3 \in DOMAIN w
    BY <1>5
<1>8. Of(w, start) = {1} /\ Of(w, mature) = {2} /\ Of(w, end) = {Len(w)}
    <2>1. \A i \in DOMAIN w : /\ w[i].event_type = start <=> i = 1
                              /\ w[i].event_type = mature <=> i = 2
                              /\ w[i].event_type = end <=> i = b + n + 3
        BY <1>5, <1>6
    <2> QED
        BY <1>5, <1>7, <2>1 DEF Of
<1>9. \A i \in Of(w, result) \cup Of(w, match) : i - 2 \in DOMAIN body /\ w[i] \in Said(p, a)
    BY <1>6 DEF Of
<1>10. \A i \in Of(w, note) : i - 2 - b \in DOMAIN notes /\ w[i] = notes[i - 2 - b]
    BY <1>6 DEF Of
<1>11. \A i \in DOMAIN notes : i + 2 + b \in Of(w, note) /\ w[i + 2 + b] = notes[i]
    BY <1>3, <1>5 DEF Of
<1> QED
    BY <1>1, <1>8, <1>9, <1>10, <1>11 DEF Events, w, body, notes, b

\* How many of each event.
LEMMA ScriptCounts ==
    ASSUME NEW p, NEW m, NEW a, SoundPlan(p, a)
    PROVE  LET w == Script(p, m, a)
               results == Of(w, "route_search_result")
           IN  /\ Cardinality(Of(w, "candidate_annotation")) = Len(p.candidates)
               /\ Cardinality(results) = IF m.maturity_reached THEN Len(p.routes) ELSE 0
               /\ Cardinality(Of(w, "transaction_match"))
                     = IF m.maturity_reached THEN MatchCount(p, a) ELSE 0
               /\ \A s \in RouteStatuses :
                     Cardinality({i \in results : w[i].payload.status = s})
                        = IF m.maturity_reached THEN WithStatus(p, a, s) ELSE 0
<1> DEFINE w == Script(p, m, a)
           body == Body(p, m, a)
           notes == Annotated(p, m, a)
           S == Records(p, m, a)
           first == Opening(p)
           second == Record("maturity_result", m)
           end == RunEnd(p, m, a)
           result == "route_search_result"
           match == "transaction_match"
           note == "candidate_annotation"
           OfKind(event) == {x \in S : x.event_type = event}
           OfStatus(s) == {x \in S : x.event_type = result /\ x.payload.status = s}
<1>0. AnalysedRoutes(p, a)
    BY DEF SoundPlan
<1>1. /\ w \in Seq(S) /\ Tallied(w, first, second, body, notes, end)
      /\ body \in Seq(Said(p, a)) /\ notes \in Seq(ToSet(notes))
      /\ Len(notes) = Len(p.candidates) /\ DOMAIN notes = DOMAIN p.candidates
    BY ScriptFacts
<1>2. \A i \in DOMAIN w : w[i] \in S
    BY <1>1
<1>3. /\ first.event_type = "forensics_run_start"
      /\ second.event_type = "maturity_result"
      /\ end.event_type = "forensics_run_end"
    BY DEF Record, Opening, RunEnd
<1>4. \A i \in DOMAIN notes : notes[i].event_type = note /\ notes[i] \in S
    BY DEF Annotated, Record, Records, ToSet
<1>5. \A i \in DOMAIN body : body[i].event_type \in {result, match}
    BY <1>0, <1>1, SaidEvents
<1>6. Said(p, a) \subseteq S
    BY DEF Records
<1>7. \A event : Of(w, event) = Hits(w, OfKind(event))
    BY <1>2 DEF Of, Hits
<1>8. \A s : {i \in Of(w, result) : w[i].payload.status = s} = Hits(w, OfStatus(s))
    BY <1>2 DEF Of, Hits
<1>9. body = IF m.maturity_reached THEN Searched(p, a) ELSE << >>
    BY DEF Body
<1>10. \A Q : HitCount(<< >>, Q) = 0
    BY NoHits
<1>11. \A r \in ToSet(p.routes) :
          /\ Result(a, r) \in S /\ Result(a, r).event_type = result
          /\ Result(a, r).payload.status = a[r].status
    BY <1>0, <1>6, MatchFacts DEF Result, RouteSearchResult, Record
<1>12. \A r \in ToSet(p.routes) : \A i \in DOMAIN a[r].matches :
          Matches(a, r)[i] \in S /\ Matches(a, r)[i].event_type = match
    <2> SUFFICES ASSUME NEW r \in ToSet(p.routes), NEW i \in DOMAIN a[r].matches
                 PROVE  Matches(a, r)[i] \in S /\ Matches(a, r)[i].event_type = match
        OBVIOUS
    <2>1. Matches(a, r) \in Seq(Said(p, a)) /\ i \in DOMAIN Matches(a, r)
        BY <1>0, MatchFacts
    <2>2. Matches(a, r)[i] \in Said(p, a)
        BY <2>1
    <2> QED
        BY <1>0, <1>6, <2>2, MatchFacts
<1>13. /\ Len(p.candidates) \in Nat /\ Len(p.routes) \in Nat
       /\ DOMAIN p.routes = 1 .. Len(p.routes)
       /\ \A i \in DOMAIN p.routes : p.routes[i] \in ToSet(p.routes)
    BY <1>0, RouteFacts DEF SoundPlan
<1>a. ASSUME NEW Q PROVE HitCount(body, Q) \in Nat /\ HitCount(notes, Q) \in Nat
    BY <1>1, HitsAreFinite
<1> HIDE DEF w, body, notes, S, first, second, end
<1>14. ASSUME NEW Q, first \notin Q, second \notin Q, end \notin Q
       PROVE  HitCount(w, Q) = HitCount(body, Q) + HitCount(notes, Q)
    BY <1>1, <1>14, <1>a DEF Tallied
<1>15. Cardinality(Of(w, note)) = Len(p.candidates)
    <2> DEFINE Q == OfKind(note)
    <2>1. first \notin Q /\ second \notin Q /\ end \notin Q
        BY <1>3
    <2>2. \A i \in DOMAIN body : body[i] \notin Q
        BY <1>5
    <2>3. \A i \in DOMAIN notes : notes[i] \in Q
        BY <1>4
    <2>4. Of(w, note) = Hits(w, Q)
        BY <1>7
    <2> HIDE DEF Q
    <2>5. HitCount(body, Q) = 0
        BY <2>2, NoHits
    <2>6. HitCount(notes, Q) = Len(p.candidates)
        BY <1>1, <2>3, AllHits
    <2>7. HitCount(w, Q) = Len(p.candidates)
        BY <1>13, <1>14, <2>1, <2>5, <2>6
    <2> QED
        BY <2>4, <2>7 DEF HitCount
<1>16. Cardinality(Of(w, result)) = IF m.maturity_reached THEN Len(p.routes) ELSE 0
    <2> DEFINE Q == OfKind(result)
               P == DOMAIN p.routes
    <2>1. first \notin Q /\ second \notin Q /\ end \notin Q
        BY <1>3
    <2>2. \A i \in DOMAIN p.routes : Result(a, p.routes[i]) \in Q <=> i \in P
        BY <1>11, <1>13
    <2>3. \A i \in DOMAIN notes : notes[i] \notin Q
        BY <1>4
    <2>4. Of(w, result) = Hits(w, Q)
        BY <1>7
    <2>5. \A r \in ToSet(p.routes) : \A i \in DOMAIN a[r].matches : Matches(a, r)[i] \notin Q
        BY <1>12
    <2>6. P \in SUBSET DOMAIN p.routes /\ Cardinality(P) = Len(p.routes)
        <3> DEFINE N == Len(p.routes)
        <3>1. N \in Nat /\ 1 \in Int /\ N \in Int
            BY <1>13
        <3> HIDE DEF N
        <3>2. Cardinality(1 .. N) = N
            BY <3>1, FS_Interval
        <3> QED
            BY <1>13, <3>2 DEF N
    <2> HIDE DEF Q, P
    <2>7. HitCount(notes, Q) = 0
        BY <2>3, NoHits
    <2>8. HitCount(Searched(p, a), Q) = Cardinality(P)
        BY <1>0, <2>2, <2>5, <2>6, ResultsCount
    <2>9. HitCount(body, Q) = IF m.maturity_reached THEN Len(p.routes) ELSE 0
        BY <1>9, <1>10, <2>6, <2>8
    <2>10. HitCount(w, Q) = IF m.maturity_reached THEN Len(p.routes) ELSE 0
        BY <1>13, <1>14, <2>1, <2>7, <2>9
    <2> QED
        BY <2>4, <2>10 DEF HitCount
<1>17. ASSUME NEW s \in RouteStatuses
       PROVE  Cardinality({i \in Of(w, result) : w[i].payload.status = s})
                 = IF m.maturity_reached THEN WithStatus(p, a, s) ELSE 0
    <2> DEFINE Q == OfStatus(s)
               P == {i \in DOMAIN p.routes : a[p.routes[i]].status = s}
    <2>1. first \notin Q /\ second \notin Q /\ end \notin Q
        BY <1>3
    <2>2. \A i \in DOMAIN p.routes : Result(a, p.routes[i]) \in Q <=> i \in P
        BY <1>11, <1>13
    <2>3. \A i \in DOMAIN notes : notes[i] \notin Q
        BY <1>4
    <2>4. {i \in Of(w, result) : w[i].payload.status = s} = Hits(w, Q)
        BY <1>8
    <2>5. \A r \in ToSet(p.routes) : \A i \in DOMAIN a[r].matches : Matches(a, r)[i] \notin Q
        BY <1>12
    <2>6. P \in SUBSET DOMAIN p.routes /\ WithStatus(p, a, s) = Cardinality(P)
        BY DEF WithStatus
    <2> HIDE DEF Q, P
    <2>7. HitCount(notes, Q) = 0
        BY <2>3, NoHits
    <2>8. HitCount(Searched(p, a), Q) = Cardinality(P)
        BY <1>0, <2>2, <2>5, <2>6, ResultsCount
    <2>9. HitCount(body, Q) = IF m.maturity_reached THEN WithStatus(p, a, s) ELSE 0
        BY <1>9, <1>10, <2>6, <2>8
    <2>10. HitCount(w, Q) = HitCount(body, Q)
        BY <1>14, <1>a, <2>1, <2>7
    <2> QED
        BY <2>4, <2>9, <2>10 DEF HitCount
<1>18. Cardinality(Of(w, match)) = IF m.maturity_reached THEN MatchCount(p, a) ELSE 0
    <2> DEFINE Q == OfKind(match)
    <2>1. first \notin Q /\ second \notin Q /\ end \notin Q
        BY <1>3
    <2>2. \A r \in ToSet(p.routes) : Result(a, r) \notin Q
        BY <1>11
    <2>3. \A i \in DOMAIN notes : notes[i] \notin Q
        BY <1>4
    <2>4. Of(w, match) = Hits(w, Q)
        BY <1>7
    <2>5. \A r \in ToSet(p.routes) : \A i \in DOMAIN a[r].matches : Matches(a, r)[i] \in Q
        BY <1>12
    <2> HIDE DEF Q
    <2>7. HitCount(notes, Q) = 0
        BY <2>3, NoHits
    <2>8. HitCount(Searched(p, a), Q) = MatchCount(p, a)
        BY <1>0, <2>2, <2>5, MatchesCount
    <2>9. HitCount(body, Q) = IF m.maturity_reached THEN MatchCount(p, a) ELSE 0
        BY <1>9, <1>10, <2>8
    <2>10. HitCount(w, Q) = HitCount(body, Q)
        BY <1>14, <1>a, <2>1, <2>7
    <2> QED
        BY <2>4, <2>9, <2>10 DEF HitCount
<1> QED
    BY <1>15, <1>16, <1>17, <1>18 DEF w

\* What a run has written in full is accepted.
LEMMA ScriptValidates ==
    ASSUME NEW p, NEW m, NEW a, SoundPlan(p, a), MaturityHolds(m)
    PROVE  Validates(Script(p, m, a), FALSE, Len(p.candidates), Len(p.routes))
<1> DEFINE w == Script(p, m, a)
           body == Body(p, m, a)
           b == Len(body)
           notes == Annotated(p, m, a)
           result == "route_search_result"
           match == "transaction_match"
           note == "candidate_annotation"
           end == "forensics_run_end"
<1>0. AnalysedRoutes(p, a) /\ Len(p.candidates) \in Nat /\ Len(p.routes) \in Nat
    BY RouteFacts DEF SoundPlan
<1>1. /\ Laid(w, Opening(p), Record("maturity_result", m), body, notes, RunEnd(p, m, a))
      /\ w \in Seq(Records(p, m, a))
    BY ScriptFacts
<1>2. /\ Len(w) \in Nat /\ Len(w) >= 3 /\ DOMAIN w = 1 .. Len(w)
      /\ w[2] = Record("maturity_result", m) /\ w[Len(w)] = RunEnd(p, m, a)
    BY <1>1 DEF Laid
<1>3. Reached(w) = m.maturity_reached /\ w[2].payload = m
    BY <1>2 DEF Reached, Record
<1>4. Events(w, p, m, a)
    BY ScriptEvents
<1>5. /\ Cardinality(Of(w, note)) = Len(p.candidates)
      /\ Cardinality(Of(w, result)) = IF m.maturity_reached THEN Len(p.routes) ELSE 0
      /\ Cardinality(Of(w, match)) = IF m.maturity_reached THEN MatchCount(p, a) ELSE 0
      /\ \A s \in RouteStatuses :
            Cardinality({i \in Of(w, result) : w[i].payload.status = s})
               = IF m.maturity_reached THEN WithStatus(p, a, s) ELSE 0
    BY ScriptCounts
<1> HIDE DEF w
<1>6. Lifecycle(w)
    <2>1. ~ m.maturity_reached => Of(w, result) \cup Of(w, match) = {}
        <3> SUFFICES ASSUME ~ m.maturity_reached, NEW i \in Of(w, result) \cup Of(w, match)
                     PROVE  FALSE
            OBVIOUS
        <3>1. i - 2 \in DOMAIN body /\ body = << >>
            BY <1>4 DEF Events, Body
        <3> QED
            BY <3>1
    <2> QED
        BY <1>3, <1>4, <2>1 DEF Lifecycle, Events, EndsWhereItShould
<1>7. ResultsHold(w)
    <2>1. ASSUME NEW i \in Of(w, result)
          PROVE  /\ w[i].payload.status \in RouteStatuses
                 /\ Cardinality(w[i].payload.signatures) = w[i].payload.count
        <3>1. w[i] \in Said(p, a) /\ w[i].event_type = result
            BY <1>4 DEF Events, Of
        <3>2. PICK r \in ToSet(p.routes) : w[i] = Result(a, r)
            BY <1>0, <3>1, SaidEvents
        <3>3. a[r].status \in RouteStatuses
            BY <1>0 DEF AnalysedRoutes
        <3> QED
            BY <3>2, <3>3 DEF Result, RouteSearchResult, Record
    <2>2. ASSUME NEW i \in Of(w, match)
          PROVE  w[i].payload.status \in {"atomic_route_amounts_unresolved",
                                          "atomic_route_outcome_resolved"}
        <3>1. w[i] \in Said(p, a) /\ w[i].event_type = match
            BY <1>4 DEF Events, Of
        <3>2. PICK r \in ToSet(p.routes) : \E j \in DOMAIN a[r].matches : w[i] = Matches(a, r)[j]
            BY <1>0, <3>1, SaidEvents
        <3> QED
            BY <1>0, <3>2, MatchFacts
    <2> QED
        BY <2>1, <2>2 DEF ResultsHold
<1>8. AnnotationsHold(w, Len(p.candidates))
    <2>1. ASSUME NEW i \in Of(w, note)
          PROVE  /\ i \in Int /\ i - 2 - b \in DOMAIN p.candidates
                 /\ w[i].payload.source = p.candidates[i - 2 - b].source
                 /\ w[i].payload.status = CaptureabilityStatus(p, m, a, p.candidates[i - 2 - b])
        <3>1. i - 2 - b \in DOMAIN p.candidates /\ w[i] = notes[i - 2 - b] /\ i \in DOMAIN w
            BY <1>4 DEF Events, Of
        <3> QED
            BY <1>2, <3>1 DEF Annotated, Record
    <2>2. ASSUME NEW i \in Of(w, note)
          PROVE  /\ w[i].payload.status \in CandidateStatuses
                 /\ Reached(w) <=> w[i].payload.status # "window_not_mature"
        <3>1. PICK c \in ToSet(p.candidates) : /\ c.route \in ToSet(p.routes)
                                               /\ w[i].payload.status = CaptureabilityStatus(p, m, a, c)
            BY <2>1 DEF SoundPlan, ToSet
        <3>2. a[c.route].status \in RouteStatuses /\ "window_not_mature" \notin RouteStatuses
            BY <1>0, <3>1 DEF AnalysedRoutes, RouteStatuses
        <3> QED
            BY <1>3, <3>1, <3>2 DEF CaptureabilityStatus, CandidateStatuses
    <2>3. ASSUME NEW i \in Of(w, note), NEW j \in Of(w, note),
                 w[i].payload.source = w[j].payload.source
          PROVE  i = j
        <3>1. i - 2 - b = j - 2 - b
            BY <2>1, <2>3 DEF SoundPlan
        <3>2. b \in Int
            BY <1>1 DEF Laid
        <3> HIDE DEF b
        <3> QED
            BY <2>1, <3>1, <3>2
    <2> QED
        BY <1>5, <2>2, <2>3 DEF AnnotationsHold
<1>9. CountsHold(w, Len(p.candidates), Len(p.routes))
    <2>1. Of(w, end) = {Len(w)}
        BY <1>4 DEF Events
    <2>2. w[Len(w)].payload =
             [route_count |-> Len(p.routes),
              route_search_result_count |-> IF m.maturity_reached THEN Len(p.routes) ELSE 0,
              candidate_annotation_count |-> Len(p.candidates),
              transaction_match_count |-> IF m.maturity_reached THEN MatchCount(p, a) ELSE 0,
              status_counts |-> [s \in RouteStatuses |->
                                    IF m.maturity_reached THEN WithStatus(p, a, s) ELSE 0],
              window_not_mature_candidate_count |->
                  IF m.maturity_reached THEN 0 ELSE Len(p.candidates),
              maturity_reached |-> m.maturity_reached]
        BY <1>2 DEF RunEnd, Record
    <2> QED
        BY <1>3, <1>5, <2>1, <2>2 DEF CountsHold
<1>10. Reached(w) => Cardinality(Of(w, result)) = Len(p.routes)
    BY <1>3, <1>5
<1>11. w # << >>
    BY <1>2
<1> QED
    BY <1>2, <1>3, <1>6, <1>7, <1>8, <1>9, <1>10, <1>11 DEF Validates, w

-----------------------------------------------------------------------------
(***************************************************************************)
(* The plan that is made of a journal                                      *)
(***************************************************************************)
LEMMA SetToSeqLists ==
    ASSUME NEW S, IsFiniteSet(S)
    PROVE  /\ SetToSeq(S) \in Seq(S) /\ Len(SetToSeq(S)) = Cardinality(S)
           /\ ToSet(SetToSeq(S)) = S
<1> DEFINE n == Cardinality(S)
           s == SetToSeq(S)
<1>1. n \in Nat /\ ExistsBijection(1 .. n, S)
    BY FS_CardinalityType
<1>2. \E f \in [1 .. n -> S] : IsInjective(f)
    BY <1>1 DEF ExistsBijection, Bijection, Injection
<1>3. s \in [1 .. n -> S] /\ IsInjective(s)
    BY <1>2 DEF SetToSeq
<1>4. s \in Injection(1 .. n, S)
    BY <1>3 DEF Injection
<1>5. Cardinality(1 .. n) = n
    <2>1. 1 \in Int /\ n \in Int /\ n \in Nat
        BY <1>1
    <2> HIDE DEF n
    <2> QED
        BY <2>1, FS_Interval
<1> HIDE DEF s
<1>6. s \in Surjection(1 .. n, S)
    BY <1>4, <1>5, FS_Injection
<1>7. \A x \in S : \E i \in 1 .. n : s[i] = x
    BY <1>6 DEF Surjection
<1> HIDE DEF n
<1>8. s \in Seq(S) /\ Len(s) = n /\ DOMAIN s = 1 .. n
    BY <1>1, <1>3
<1>9. ToSet(s) = S
    BY <1>3, <1>7, <1>8 DEF ToSet
<1> QED
    BY <1>8, <1>9 DEF n, s

\* What a journal's plan is made of.
LEMMA EvaluatedFacts ==
    ASSUME NEW path \in DOMAIN Sources
    PROVE  LET source == Sources[path]
               found == EvaluatedAt(source)
           IN  /\ source.records \in Seq(ToSet(source.records))
               /\ DOMAIN source.records = 1 .. Len(source.records) /\ Len(source.records) \in Nat
               /\ found \in SUBSET DOMAIN source.records /\ IsFiniteSet(found)
               /\ Weighed(found, [j \in found |-> j])
<1> DEFINE source == Sources[path]
           found == EvaluatedAt(source)
           n == Len(source.records)
<1>1. source.records \in Seq(ToSet(source.records)) /\ n \in Nat /\ DOMAIN source.records = 1 .. n
    BY SourcesAssumption
<1>2. found \in SUBSET (1 .. n)
    BY <1>1 DEF EvaluatedAt
<1>3. 1 \in Int /\ n \in Int
    BY <1>1
<1> HIDE DEF n, found
<1>4. IsFiniteSet(found)
    BY <1>2, <1>3, FS_Interval, FS_Subset
<1>5. Weighed(found, [j \in found |-> j])
    BY <1>2, <1>4 DEF Weighed
<1> QED
    BY <1>1, <1>2, <1>4, <1>5 DEF n, found

LEMMA PlanIsSound ==
    ASSUME NEW path \in DOMAIN Sources, NEW p \in PlanOf(Sources[path]),
           NEW a \in [ToSet(p.routes) -> Analyses]
    PROVE  SoundPlan(p, a)
<1> DEFINE source == Sources[path]
           records == source.records
           found == EvaluatedAt(source)
           routes == {records[i].route : i \in found}
           order == Ranked(found, [j \in found |-> j])
           n == Cardinality(found)
           candidate(i) == [source |-> <<records[i].run_id, i>>, route |-> records[i].route]
<1>1. /\ found # {} /\ p.routes = SetToSeq(routes)
      /\ p.candidates = [k \in 1 .. n |-> candidate(order[k])]
    <2>1. /\ found # {}
          /\ p = [candidates |-> [k \in 1 .. n |->
                      LET i == order[k]
                      IN  [source |-> <<records[i].run_id, i>>, route |-> records[i].route]],
                  routes |-> SetToSeq(routes),
                  required_end_slot |-> Max({RouteEnd[r] : r \in routes})]
        BY DEF PlanOf
    <2> HIDE DEF found, order, n, routes, records
    <2>2. p.routes = SetToSeq(routes)
        BY <2>1
    <2>3. p.candidates = [k \in 1 .. n |-> candidate(order[k])]
        BY <2>1
    <2> QED
        BY <2>1, <2>2, <2>3
<1>2. IsFiniteSet(found) /\ Weighed(found, [j \in found |-> j])
    BY EvaluatedFacts
<1>3. /\ n \in Nat /\ order \in [1 .. n -> found]
      /\ \A j, k \in 1 .. n : j < k => Before([i \in found |-> i], order[j], order[k])
    <2> HIDE DEF found
    <2> QED
        BY <1>2, RankedIsOrdered
<1> HIDE DEF order, n, found, records
<1>4. \A j, k \in 1 .. n : order[j] = order[k] => j = k
    <2> SUFFICES ASSUME NEW j \in 1 .. n, NEW k \in 1 .. n, order[j] = order[k], j # k
                 PROVE  FALSE
        OBVIOUS
    <2>1. order[j] \in found
        BY <1>3
    <2>2. ~ Before([i \in found |-> i], order[j], order[j])
        BY <1>2, <2>1, BeforeIsAnOrder
    <2>3. j < k \/ k < j
        BY <1>3
    <2> QED
        BY <1>3, <2>2, <2>3
<1>5. IsFiniteSet(routes)
    <2> DEFINE f == [i \in found |-> records[i].route]
    <2>1. f \in Surjection(found, routes)
        BY DEF Surjection
    <2> HIDE DEF f, routes
    <2> QED
        BY <1>2, <2>1, FS_Surjection
<1>6. routes # {}
    <2>1. PICK i \in found : TRUE
        BY <1>1
    <2>2. records[i].route \in routes
        OBVIOUS
    <2> QED
        BY <2>2
<1>7. p.routes \in Seq(routes) /\ ToSet(p.routes) = routes
    BY <1>1, <1>5, SetToSeqLists
<1>8. p.routes # << >>
    <2>1. ToSet(<< >>) = {}
        BY DEF ToSet
    <2> QED
        BY <1>6, <1>7, <2>1
<1>9. AnalysedRoutes(p, a)
    <2>1. \A r \in ToSet(p.routes) : a[r] \in Analyses
        OBVIOUS
    <2> QED
        BY <1>7, <1>8, <2>1, AnalysesAssumption DEF AnalysedRoutes
<1>10. /\ DOMAIN p.candidates = 1 .. n
       /\ \A k \in 1 .. n : p.candidates[k] = candidate(order[k])
    BY <1>1
<1>11. \A k \in 1 .. n : p.candidates[k].route \in ToSet(p.routes)
    <2> TAKE k \in 1 .. n
    <2>1. order[k] \in found /\ p.candidates[k].route = records[order[k]].route
        <3> DEFINE i == order[k]
        <3>1. p.candidates[k] = candidate(i) /\ i \in found
            BY <1>3, <1>10
        <3> HIDE DEF i
        <3>2. candidate(i).route = records[i].route
            OBVIOUS
        <3> QED
            BY <3>1, <3>2 DEF i
    <2>2. records[order[k]].route \in routes
        BY <2>1
    <2> QED
        BY <1>7, <2>1, <2>2
<1>12. \A j, k \in 1 .. n : p.candidates[j].source = p.candidates[k].source => j = k
    <2>1. \A k \in 1 .. n : p.candidates[k].source[2] = order[k]
        <3> TAKE k \in 1 .. n
        <3> DEFINE i == order[k]
        <3>1. p.candidates[k] = candidate(i)
            BY <1>10
        <3> HIDE DEF i
        <3>2. candidate(i).source = <<records[i].run_id, i>>
            OBVIOUS
        <3> QED
            BY <3>1, <3>2 DEF i
    <2> QED
        BY <1>4, <2>1
<1>13. p.candidates \in Seq(ToSet(p.candidates))
    <2> DEFINE s == p.candidates
               T == ToSet(s)
    <2>1. s = [k \in 1 .. n |-> s[k]]
        BY <1>1
    <2>2. \A k \in 1 .. n : s[k] \in T
        BY <1>10 DEF ToSet
    <2> HIDE DEF s, T
    <2>3. s \in [1 .. n -> T]
        BY <2>1, <2>2
    <2>4. s \in Seq(T)
        BY <1>3, <2>3
    <2> QED
        BY <2>4 DEF s, T
<1> QED
    BY <1>9, <1>10, <1>11, <1>12, <1>13 DEF SoundPlan

-----------------------------------------------------------------------------
(***************************************************************************)
(* The file while it is written                                            *)
(***************************************************************************)
Stages == {"planned", "writing", "ok", "rejected", "err", "crashed"}

\* The file holds the first records of what the run would write.
FileIsAPrefix ==
    /\ artifact \in Seq(Records(plan, maturity, analyses))
    /\ Len(artifact) <= Len(Whole)
    /\ \A i \in DOMAIN artifact : artifact[i] = Whole[i]

\* What is left of a run says how far it came.
StageSaysHowFar ==
    /\ stage \in Stages
    /\ stage = "planned" => artifact = << >>
    /\ stage \in {"planned", "err"} => Len(artifact) < Len(Whole)
    /\ stage = "ok" => Len(artifact) = Len(Whole)
    /\ stage # "crashed" => torn = FALSE
    /\ stage \notin {"planned", "err"} => ValidForPlan(plan, maturity)
    /\ stage # "rejected"

FileInductive == SoundPlan(plan, analyses) /\ FileIsAPrefix /\ StageSaysHowFar

LEMMA WholeFacts ==
    ASSUME SoundPlan(plan, analyses)
    PROVE  /\ Whole \in Seq(Records(plan, maturity, analyses))
           /\ Len(Whole) \in Nat /\ Len(Whole) >= 3 /\ DOMAIN Whole = 1 .. Len(Whole)
           /\ Events(Whole, plan, maturity, analyses)
  BY ScriptFacts, ScriptEvents DEF Whole, Laid

LEMMA FileInit == FilesInit => FileInductive
<1> SUFFICES ASSUME FilesInit PROVE FileInductive
    OBVIOUS
<1>1. SoundPlan(plan, analyses)
    BY PlanIsSound DEF FilesInit
<1>2. FileIsAPrefix /\ StageSaysHowFar
    BY <1>1, WholeFacts DEF FilesInit, FileIsAPrefix, StageSaysHowFar, Stages
<1> QED
    BY <1>1, <1>2 DEF FileInductive

\* A file that is as long as the whole is the whole.
LEMMA LongIsWhole ==
    ASSUME FileInductive, Len(artifact) = Len(Whole)
    PROVE  artifact = Whole
<1> DEFINE S == Records(plan, maturity, analyses)
<1>1. Whole \in Seq(S) /\ artifact \in Seq(S) /\ \A i \in DOMAIN artifact : artifact[i] = Whole[i]
    BY WholeFacts DEF FileInductive, FileIsAPrefix
<1> HIDE DEF S
<1> QED
    BY <1>1

LEMMA FileNext == FileInductive /\ [FilesNext]_filesVars => FileInductive'
<1> SUFFICES ASSUME FileInductive, [FilesNext]_filesVars PROVE FileInductive'
    OBVIOUS
<1>1. SoundPlan(plan, analyses) /\ FileIsAPrefix /\ StageSaysHowFar
    BY DEF FileInductive
<1>2. /\ Len(Whole) \in Nat /\ Whole \in Seq(Records(plan, maturity, analyses))
      /\ DOMAIN Whole = 1 .. Len(Whole)
    BY <1>1, WholeFacts
<1>3. UNCHANGED <<plan, maturity, analyses>>
    BY DEF FilesNext, Create, WriteEvent, Finish, Crash, WriteEvidence, filesVars, search
<1>4. SoundPlan(plan, analyses)' /\ Whole' = Whole
      /\ Records(plan, maturity, analyses)' = Records(plan, maturity, analyses)
      /\ ValidForPlan(plan, maturity)' = ValidForPlan(plan, maturity)
    BY <1>1, <1>3 DEF Whole
<1>5. CASE UNCHANGED artifact /\ StageSaysHowFar'
    <2>1. FileIsAPrefix'
        BY <1>1, <1>4, <1>5 DEF FileIsAPrefix
    <2> QED
        BY <1>4, <1>5, <2>1 DEF FileInductive
<1>6. CASE UNCHANGED <<stage, artifact, torn>>
    BY <1>1, <1>4, <1>5, <1>6 DEF StageSaysHowFar
<1>7. CASE Create
    <2>1. UNCHANGED artifact /\ StageSaysHowFar'
        BY <1>1, <1>4, <1>7 DEF Create, StageSaysHowFar, Stages
    <2> QED
        BY <1>5, <2>1
<1>8. CASE WriteEvent
    <2> DEFINE record == Whole[Len(artifact) + 1]
    <2>0. stage = "writing" /\ Len(artifact) < Len(Whole) /\ UNCHANGED torn
        BY <1>8 DEF WriteEvent
    <2>1. CASE stage' = "err" /\ UNCHANGED artifact
        <3>1. StageSaysHowFar'
            BY <1>1, <1>4, <2>0, <2>1 DEF StageSaysHowFar, Stages
        <3> QED
            BY <1>5, <2>1, <3>1
    <2>2. CASE artifact' = Append(artifact, record) /\ UNCHANGED stage
        <3> DEFINE S == Records(plan, maturity, analyses)
                   n == Len(artifact)
        <3>1. /\ artifact \in Seq(S) /\ n \in Nat /\ n + 1 \in 1 .. Len(Whole) /\ record \in S
              /\ \A i \in 1 .. n : artifact[i] = Whole[i]
            BY <1>1, <1>2, <2>0 DEF FileIsAPrefix
        <3> HIDE DEF S
        <3>2. /\ artifact' \in Seq(S) /\ Len(artifact') = n + 1 /\ DOMAIN artifact' = 1 .. n + 1
              /\ \A i \in 1 .. n : artifact'[i] = artifact[i]
              /\ artifact'[n + 1] = record
            BY <2>2, <3>1
        <3> HIDE DEF n
        <3>3. \A i \in DOMAIN artifact' : artifact'[i] = Whole[i]
            BY <3>1, <3>2 DEF n
        <3>4. FileIsAPrefix'
            <4>1. Len(artifact') <= Len(Whole)
                BY <1>2, <3>1, <3>2
            <4> QED
                BY <1>4, <3>2, <3>3, <4>1 DEF FileIsAPrefix, S
        <3>5. StageSaysHowFar'
            BY <1>1, <1>4, <2>0, <2>2 DEF StageSaysHowFar, Stages
        <3> QED
            BY <1>4, <3>4, <3>5 DEF FileInductive
    <2> QED
        BY <1>8, <2>1, <2>2 DEF WriteEvent
<1>9. CASE Finish
    <2>1. artifact = Whole /\ torn = FALSE /\ MaturityHolds(maturity)
        BY <1>1, <1>9, LongIsWhole DEF Finish, StageSaysHowFar, ValidForPlan
    <2>2. Validates(artifact, torn, Len(plan.candidates), Len(plan.routes))
        BY <1>1, <2>1, ScriptValidates DEF Whole
    <2>3. StageSaysHowFar'
        BY <1>1, <1>4, <1>9, <2>2 DEF Finish, StageSaysHowFar, Stages
    <2> QED
        BY <1>5, <1>9, <2>3 DEF Finish
<1>10. CASE Crash
    <2>1. StageSaysHowFar'
        BY <1>1, <1>4, <1>10 DEF Crash, StageSaysHowFar, Stages
    <2> QED
        BY <1>5, <1>10, <2>1 DEF Crash
<1>11. CASE WriteEvidence
    BY <1>6, <1>11 DEF WriteEvidence, search
<1>12. CASE UNCHANGED filesVars
    BY <1>6, <1>12 DEF filesVars, search
<1> QED
    BY <1>7, <1>8, <1>9, <1>10, <1>11, <1>12 DEF FilesNext

\* The file is always the first records of what the whole run would write, and
\* the stage says how far the run came: nothing is written that is not planned,
\* in another order or a second time.
THEOREM FileInvariant == FilesSpec => []FileInductive
<1> QED
    BY FileInit, FileNext, PTL DEF FilesSpec

LEMMA WholeFilesValidate == FileInductive => OnlyWholeArtifactsValidate
<1> SUFFICES ASSUME FileInductive, Replays
             PROVE  Len(artifact) = Len(Whole) /\ stage \in {"writing", "crashed", "ok"}
    BY DEF OnlyWholeArtifactsValidate
<1>1. SoundPlan(plan, analyses) /\ FileIsAPrefix /\ StageSaysHowFar
    BY DEF FileInductive
<1> DEFINE n == Len(artifact)
<1>2. n \in 1 .. Len(Whole) /\ n \in DOMAIN artifact /\ n \in DOMAIN Whole
      /\ artifact[n].event_type = "forensics_run_end"
    <2>1. Of(artifact, "forensics_run_end") = {n}
        BY DEF Replays, Validates, Lifecycle, EndsWhereItShould
    <2>2. n \in DOMAIN artifact /\ artifact[n].event_type = "forensics_run_end"
        BY <2>1 DEF Of
    <2> QED
        BY <1>1, <2>2, WholeFacts DEF FileIsAPrefix
<1>3. n \in Of(Whole, "forensics_run_end")
    BY <1>1, <1>2 DEF Of, FileIsAPrefix
<1>4. n = Len(Whole)
    BY <1>1, <1>3, WholeFacts DEF Events
<1>5. stage \notin {"planned", "err"}
    BY <1>1, <1>2, <1>4 DEF StageSaysHowFar
<1> QED
    BY <1>1, <1>4, <1>5 DEF StageSaysHowFar, Stages

\* A file that validate_r13_jsonl accepts is a whole one: only its last record
\* is a run_end, and a file cut off before it, or inside of a line, has none.
THEOREM OnlyWholeArtifactsValidateAlways == FilesSpec => []OnlyWholeArtifactsValidate
<1> QED
    BY FileInvariant, WholeFilesValidate, PTL

-----------------------------------------------------------------------------
(***************************************************************************)
(* What a finished file answers                                            *)
(***************************************************************************)
\* Whatever is said of a route is somewhere in the file, if the window was mature.
LEMMA SaidIsWritten ==
    ASSUME NEW p, NEW m, NEW a, SoundPlan(p, a), NEW x \in Said(p, a),
           Body(p, m, a) = Searched(p, a)
    PROVE  \E i \in DOMAIN Script(p, m, a) : Script(p, m, a)[i] = x
<1> DEFINE w == Script(p, m, a)
           body == Body(p, m, a)
<1>1. ToSet(body) = Said(p, a)
    BY SearchedIsSaid DEF SoundPlan
<1>2. PICK i \in DOMAIN body : body[i] = x
    BY <1>1 DEF ToSet
<1>3. Laid(w, Opening(p), Record("maturity_result", m), body, Annotated(p, m, a), RunEnd(p, m, a))
    BY ScriptFacts
<1> HIDE DEF w, body
<1>4. i + 2 \in DOMAIN w /\ w[i + 2] = body[i]
    BY <1>2, <1>3 DEF Laid
<1> QED
    BY <1>2, <1>4 DEF w

CandidateAnswered(w, m, a, c) ==
    \E i \in DOMAIN w :
       /\ {j \in Of(w, "candidate_annotation") : w[j].payload.source = c.source} = {i}
       /\ w[i].payload.status =
              IF m.maturity_reached THEN a[c.route].status ELSE "window_not_mature"

\* What the file says of a route.
SaidOf(w, r, event) ==
    {w[i].payload : i \in {j \in Of(w, event) : w[j].payload.route = r}}

RouteAnswered(w, m, a, r) ==
    IF m.maturity_reached
    THEN /\ {q.status : q \in SaidOf(w, r, "route_search_result")} = {a[r].status}
         /\ {q.signature : q \in SaidOf(w, r, "transaction_match")}
               = {mm.signature : mm \in ToSet(a[r].matches)}
    ELSE SaidOf(w, r, "route_search_result") \cup SaidOf(w, r, "transaction_match") = {}

\* A candidate has one annotation, with what was found for its route.
LEMMA CandidatesAnswered ==
    ASSUME NEW p, NEW m, NEW a, SoundPlan(p, a), NEW c \in ToSet(p.candidates)
    PROVE  CandidateAnswered(Script(p, m, a), m, a, c)
<1> DEFINE w == Script(p, m, a)
           b == Len(Body(p, m, a))
           note == "candidate_annotation"
           notes == Annotated(p, m, a)
<1>1. PICK k \in DOMAIN p.candidates : c = p.candidates[k]
    BY DEF ToSet
<1>2. Events(w, p, m, a)
    BY ScriptEvents
<1>3. b \in Nat
    BY ScriptFacts DEF Laid
<1>4. \A i \in DOMAIN p.candidates :
          /\ notes[i].payload.source = p.candidates[i].source
          /\ notes[i].payload.status = CaptureabilityStatus(p, m, a, p.candidates[i])
    BY DEF Annotated, Record
<1> HIDE DEF w, b, notes
<1>5. /\ \A i \in Of(w, note) : i - 2 - b \in DOMAIN p.candidates /\ w[i] = notes[i - 2 - b]
      /\ \A i \in DOMAIN p.candidates : i + 2 + b \in Of(w, note) /\ w[i + 2 + b] = notes[i]
    BY <1>2 DEF Events, b, notes
<1>6. k \in Nat
    BY DEF SoundPlan
<1> DEFINE i == k + 2 + b
<1>7. i \in Of(w, note) /\ w[i] = notes[k]
    BY <1>1, <1>5
<1>8. \A j \in Of(w, note) : j \in Int
    <2>1. Len(w) \in Nat /\ DOMAIN w = 1 .. Len(w)
        BY ScriptFacts DEF w
    <2> QED
        BY <2>1 DEF Of
<1>9. ASSUME NEW j \in Of(w, note), w[j].payload.source = c.source PROVE j = i
    <2>1. p.candidates[j - 2 - b].source = p.candidates[k].source /\ j - 2 - b \in DOMAIN p.candidates
        BY <1>1, <1>4, <1>5, <1>9
    <2>2. j - 2 - b = k
        BY <1>1, <2>1 DEF SoundPlan
    <2> QED
        BY <1>3, <1>6, <1>8, <2>2
<1>10. /\ w[i].payload.source = c.source
       /\ w[i].payload.status = CaptureabilityStatus(p, m, a, c)
    BY <1>1, <1>4, <1>7
<1> HIDE DEF i
<1>11. {j \in Of(w, note) : w[j].payload.source = c.source} = {i}
    BY <1>7, <1>9, <1>10
<1>12. i \in DOMAIN w
    BY <1>7 DEF Of
<1> QED
    BY <1>10, <1>11, <1>12 DEF CaptureabilityStatus, CandidateAnswered, w

LEMMA RoutesAnswered ==
    ASSUME NEW p, NEW m, NEW a, SoundPlan(p, a), NEW r \in ToSet(p.routes)
    PROVE  RouteAnswered(Script(p, m, a), m, a, r)
<1> DEFINE w == Script(p, m, a)
           result == "route_search_result"
           match == "transaction_match"
<1>0. AnalysedRoutes(p, a)
    BY DEF SoundPlan
<1>1. Events(w, p, m, a)
    BY ScriptEvents
<1>2. m.maturity_reached => \A x \in Said(p, a) : \E i \in DOMAIN w : w[i] = x
    <2> SUFFICES ASSUME m.maturity_reached, NEW x \in Said(p, a)
                 PROVE  \E i \in DOMAIN w : w[i] = x
        OBVIOUS
    <2> QED
        <3>1. Body(p, m, a) = Searched(p, a)
            BY DEF Body
        <3> QED
            BY <3>1, SaidIsWritten DEF w
<1> HIDE DEF w
<1>3. \A i \in Of(w, result) \cup Of(w, match) :
          i - 2 \in DOMAIN Body(p, m, a) /\ w[i] \in Said(p, a)
    BY <1>1 DEF Events
<1>4. CASE ~ m.maturity_reached
    <2>1. Body(p, m, a) = << >>
        BY <1>4 DEF Body
    <2>2. Of(w, result) = {} /\ Of(w, match) = {}
        BY <1>3, <2>1
    <2>3. SaidOf(w, r, result) = {} /\ SaidOf(w, r, match) = {}
        BY <2>2 DEF SaidOf
    <2> QED
        BY <1>4, <2>3 DEF RouteAnswered, w
<1>5. CASE m.maturity_reached
    <2>1. {q.status : q \in SaidOf(w, r, result)} = {a[r].status}
        <3>1. ASSUME NEW i \in Of(w, result), w[i].payload.route = r
              PROVE  w[i].payload.status = a[r].status
            <4>1. w[i] \in Said(p, a) /\ w[i].event_type = result
                BY <1>3 DEF Of
            <4>2. PICK t \in ToSet(p.routes) : w[i] = Result(a, t)
                BY <1>0, <4>1, SaidEvents
            <4>3. w[i].payload.route = t /\ w[i].payload.status = a[t].status
                BY <4>2 DEF Result, RouteSearchResult, Record
            <4> QED
                BY <3>1, <4>3
        <3>2. \E i \in Of(w, result) : w[i].payload.route = r /\ w[i].payload.status = a[r].status
            <4>1. Result(a, r) \in Said(p, a)
                BY <1>0, MatchFacts
            <4>2. PICK i \in DOMAIN w : w[i] = Result(a, r)
                BY <1>2, <1>5, <4>1
            <4> QED
                BY <4>2 DEF Result, RouteSearchResult, Record, Of
        <3>3. \A x : x \in {q.status : q \in SaidOf(w, r, result)} <=>
                  \E i \in Of(w, result) : w[i].payload.route = r /\ x = w[i].payload.status
            BY DEF SaidOf
        <3> QED
            BY <3>1, <3>2, <3>3
    <2>2. {q.signature : q \in SaidOf(w, r, match)} = {mm.signature : mm \in ToSet(a[r].matches)}
        <3>1. ASSUME NEW i \in Of(w, match), w[i].payload.route = r
              PROVE  \E mm \in ToSet(a[r].matches) : w[i].payload.signature = mm.signature
            <4>1. w[i] \in Said(p, a) /\ w[i].event_type = match
                BY <1>3 DEF Of
            <4>2. PICK t \in ToSet(p.routes) : \E j \in DOMAIN a[t].matches : w[i] = Matches(a, t)[j]
                BY <1>0, <4>1, SaidEvents
            <4>3. PICK j \in DOMAIN a[t].matches : w[i] = Matches(a, t)[j]
                BY <4>2
            <4>4. w[i].payload.route = t /\ w[i].payload.signature = a[t].matches[j].signature
                BY <1>0, <4>3, MatchFacts
            <4>5. a[r].matches[j] \in ToSet(a[r].matches)
                BY <3>1, <4>3, <4>4 DEF ToSet
            <4> QED
                BY <3>1, <4>4, <4>5
        <3>2. ASSUME NEW mm \in ToSet(a[r].matches)
              PROVE  \E i \in Of(w, match) :
                         w[i].payload.route = r /\ w[i].payload.signature = mm.signature
            <4>1. PICK j \in DOMAIN a[r].matches : mm = a[r].matches[j]
                BY DEF ToSet
            <4> DEFINE x == Matches(a, r)[j]
            <4>2. /\ Matches(a, r) \in Seq(Said(p, a)) /\ j \in DOMAIN Matches(a, r)
                  /\ x.event_type = match /\ x.payload.route = r /\ x.payload.signature = mm.signature
                BY <1>0, <4>1, MatchFacts
            <4>3. x \in Said(p, a)
                BY <4>2
            <4> HIDE DEF x
            <4>4. PICK i \in DOMAIN w : w[i] = x
                BY <1>2, <1>5, <4>3
            <4> QED
                BY <4>2, <4>4 DEF Of
        <3>3. \A x : x \in {q.signature : q \in SaidOf(w, r, match)} <=>
                  \E i \in Of(w, match) : w[i].payload.route = r /\ x = w[i].payload.signature
            BY DEF SaidOf
        <3>4. ASSUME NEW x
              PROVE  x \in {q.signature : q \in SaidOf(w, r, match)} <=>
                         \E mm \in ToSet(a[r].matches) : x = mm.signature
            <4>1. ASSUME NEW i \in Of(w, match), w[i].payload.route = r, x = w[i].payload.signature
                  PROVE  \E mm \in ToSet(a[r].matches) : x = mm.signature
                BY <3>1, <4>1
            <4>2. ASSUME NEW mm \in ToSet(a[r].matches), x = mm.signature
                  PROVE  \E i \in Of(w, match) :
                             w[i].payload.route = r /\ x = w[i].payload.signature
                BY <3>2, <4>2
            <4> QED
                BY <3>3, <4>1, <4>2
        <3> QED
            BY <3>4
    <2> QED
        BY <1>5, <2>1, <2>2 DEF RouteAnswered, w
<1> QED
    BY <1>4, <1>5

LEMMA WholeFilesAnswer ==
    FileInductive /\ DOMAIN analyses = ToSet(plan.routes) => FinishedArtifactsAnswer
<1> SUFFICES ASSUME FileInductive, DOMAIN analyses = ToSet(plan.routes)
             PROVE  FinishedArtifactsAnswer
    OBVIOUS
<1>1. SoundPlan(plan, analyses) /\ StageSaysHowFar
    BY DEF FileInductive
<1>2. /\ \A c \in ToSet(plan.candidates) : CandidateAnswered(Whole, maturity, analyses, c)
      /\ \A r \in DOMAIN analyses : RouteAnswered(Whole, maturity, analyses, r)
    BY <1>1, CandidatesAnswered, RoutesAnswered DEF Whole
<1>3. stage = "ok" => artifact = Whole
    BY <1>1, LongIsWhole DEF StageSaysHowFar
<1>4. stage = "ok" =>
         /\ \A c \in ToSet(plan.candidates) : CandidateAnswered(artifact, maturity, analyses, c)
         /\ \A r \in DOMAIN analyses : RouteAnswered(artifact, maturity, analyses, r)
    BY <1>2, <1>3
<1> QED
    BY <1>1, <1>4 DEF FinishedArtifactsAnswer, CandidateAnswered, RouteAnswered, SaidOf,
                      StageSaysHowFar

AnalysesAreOfThePlan == DOMAIN analyses = ToSet(plan.routes)

\* What the writer finishes it accepts, and the file answers once for every
\* candidate, with what was found for its own route, and once for every route,
\* with each of its matches.
THEOREM FinishedArtifactsAnswerAlways == FilesSpec => []FinishedArtifactsAnswer
<1>1. FilesInit => AnalysesAreOfThePlan
    BY DEF FilesInit, AnalysesAreOfThePlan
<1>2. AnalysesAreOfThePlan /\ [FilesNext]_filesVars => AnalysesAreOfThePlan'
    BY DEF FilesNext, Create, WriteEvent, Finish, Crash, WriteEvidence, filesVars, search,
           AnalysesAreOfThePlan
<1>3. FileInductive /\ AnalysesAreOfThePlan => FinishedArtifactsAnswer
    BY WholeFilesAnswer DEF AnalysesAreOfThePlan
<1> QED
    BY <1>1, <1>2, <1>3, FileInvariant, PTL DEF FilesSpec

-----------------------------------------------------------------------------
(***************************************************************************)
(* What Stage F knows after each of the records                            *)
(***************************************************************************)
LEMMA UpToGrows ==
    ASSUME NEW L \in Nat, NEW W \in SUBSET (1 .. L), NEW n \in Nat
    PROVE  /\ UpTo(0, W) = {} /\ UpTo(L, W) = W
           /\ IsFiniteSet(UpTo(n, W)) /\ Cardinality(UpTo(n, W)) \in Nat
           /\ n + 1 \in W => /\ UpTo(n + 1, W) = UpTo(n, W) \cup {n + 1}
                             /\ Cardinality(UpTo(n + 1, W)) = Cardinality(UpTo(n, W)) + 1
           /\ n + 1 \notin W => UpTo(n + 1, W) = UpTo(n, W)
<1>1. \A i \in W : i \in Nat /\ i # 0 /\ i <= L /\ (i <= n + 1 <=> i <= n \/ i = n + 1)
    OBVIOUS
<1>2. UpTo(0, W) = {} /\ UpTo(L, W) = W
    <2>1. \A i \in W : i <= L /\ ~ (i <= 0)
        BY <1>1
    <2>2. \A i : i \in UpTo(0, W) => FALSE
        BY <2>1 DEF UpTo
    <2>3. \A i : i \in UpTo(L, W) <=> i \in W
        BY <2>1 DEF UpTo
    <2> QED
        BY <2>2, <2>3
<1>3. /\ n + 1 \in W => UpTo(n + 1, W) = UpTo(n, W) \cup {n + 1}
      /\ n + 1 \notin W => UpTo(n + 1, W) = UpTo(n, W)
      /\ n + 1 \notin UpTo(n, W)
    <2>1. \A i : i \in UpTo(n + 1, W) <=> i \in UpTo(n, W) \/ (i = n + 1 /\ n + 1 \in W)
        BY <1>1 DEF UpTo
    <2>2. n + 1 \notin UpTo(n, W)
        BY DEF UpTo
    <2> QED
        BY <2>1, <2>2
<1>4. IsFiniteSet(UpTo(n, W))
    <2>1. 1 \in Int /\ L \in Int
        OBVIOUS
    <2>2. IsFiniteSet(1 .. L) /\ UpTo(n, W) \in SUBSET (1 .. L)
        BY <2>1, FS_Interval DEF UpTo
    <2> QED
        BY <2>2, FS_Subset
<1>5. Cardinality(UpTo(n, W)) \in Nat
    BY <1>4, FS_CardinalityType
<1>6. n + 1 \in W => Cardinality(UpTo(n + 1, W)) = Cardinality(UpTo(n, W)) + 1
    BY <1>3, <1>4, FS_AddElement
<1> QED
    BY <1>2, <1>3, <1>4, <1>5, <1>6

LEMMA UpToMore ==
    ASSUME NEW L \in Nat, NEW n \in Nat, NEW W, W \in SUBSET (1 .. L), n + 1 \in W
    PROVE  Cardinality(UpTo(n + 1, W)) = Cardinality(UpTo(n, W)) + 1
  BY UpToGrows

LEMMA UpToSame ==
    ASSUME NEW L \in Nat, NEW n \in Nat, NEW W, W \in SUBSET (1 .. L), n + 1 \notin W
    PROVE  UpTo(n + 1, W) = UpTo(n, W)
<1>1. ASSUME NEW i \in W PROVE i <= n + 1 <=> i <= n
    <2>1. i \in Int /\ i # n + 1
        OBVIOUS
    <2> QED
        BY <2>1
<1>2. \A i : i \in UpTo(n + 1, W) <=> i \in UpTo(n, W)
    BY <1>1 DEF UpTo
<1> QED
    BY <1>2

-----------------------------------------------------------------------------
\* Records of evaluations, each with a known status.
Observations(all) ==
    /\ all \in Seq(ToSet(all))
    /\ \A i \in DOMAIN all : all[i].observed_at \in Int /\ all[i].status \in EvaluationStatuses

\* The records of a candidate, and those of them with a status.
Sightings(all, id) == {i \in DOMAIN all : all[i].candidate_id = id}

SightingsAs(all, id, s) == {i \in DOMAIN all : all[i].candidate_id = id /\ all[i].status = s}

\* What a row says of the first n records.
RowIs(row, all, n, id) ==
    LET seen == UpTo(n, Sightings(all, id))
    IN  /\ row.observation_count = Cardinality(seen)
        /\ row.first_seen \in Int /\ row.last_seen \in Int
        /\ \E i \in seen : row.first_seen = all[i].observed_at
        /\ \E i \in seen : row.last_seen = all[i].observed_at
        /\ \A i \in seen : row.first_seen <= all[i].observed_at /\ all[i].observed_at <= row.last_seen
        /\ row.source_run_ids = {all[i].run_id : i \in seen}
        /\ \A s \in EvaluationStatuses :
              row.status_counts[s] = Cardinality(UpTo(n, SightingsAs(all, id, s)))

Ids(all) == {all[i].candidate_id : i \in DOMAIN all}

Rows(all) ==
    [first_seen : Int, last_seen : Int, observation_count : Int,
     source_run_ids : SUBSET {all[i].run_id : i \in DOMAIN all},
     status_counts : [EvaluationStatuses -> Int]]

Tables(all) == UNION {[D -> Rows(all)] : D \in SUBSET Ids(all)}

TableIs(table, all, n) ==
    /\ table \in Tables(all)
    /\ DOMAIN table = {all[i].candidate_id : i \in 1 .. n}
    /\ \A id \in DOMAIN table : RowIs(table[id], all, n, id)

LEMMA TableFacts ==
    ASSUME NEW all, NEW table
    PROVE  /\ table \in Tables(all) => /\ DOMAIN table \in SUBSET Ids(all)
                                       /\ table = [id \in DOMAIN table |-> table[id]]
                                       /\ \A id \in DOMAIN table : table[id] \in Rows(all)
           /\ \A D \in SUBSET Ids(all) : table \in [D -> Rows(all)] => table \in Tables(all)
  BY DEF Tables

LEMMA ObserveTyped ==
    ASSUME NEW all, Observations(all), NEW row \in Rows(all), NEW i \in DOMAIN all
    PROVE  Observe(row, all[i].run_id, all[i]) \in Rows(all)
<1>1. all[i].observed_at \in Int /\ all[i].status \in EvaluationStatuses
    BY DEF Observations
<1>2. [row.status_counts EXCEPT ![all[i].status] = @ + 1] \in [EvaluationStatuses -> Int]
    BY <1>1 DEF Rows
<1>3. row.source_run_ids \cup {all[i].run_id} \in SUBSET {all[k].run_id : k \in DOMAIN all}
    BY DEF Rows
<1>4. /\ (IF all[i].observed_at < row.first_seen THEN all[i].observed_at ELSE row.first_seen) \in Int
      /\ (IF all[i].observed_at > row.last_seen THEN all[i].observed_at ELSE row.last_seen) \in Int
      /\ row.observation_count + 1 \in Int
    BY <1>1 DEF Rows
<1> QED
    BY <1>2, <1>3, <1>4 DEF Observe, Rows

LEMMA FreshTyped ==
    ASSUME NEW all, Observations(all), NEW i \in DOMAIN all
    PROVE  Fresh(all[i].observed_at) \in Rows(all)
  BY DEF Fresh, Rows, Observations

\* What there is of a candidate before it is observed once more.
StateOf(table, r) ==
    IF r.candidate_id \in DOMAIN table THEN table[r.candidate_id] ELSE Fresh(r.observed_at)

LEMMA AccumulateFacts ==
    ASSUME NEW all, Observations(all), NEW table \in Tables(all), NEW i \in DOMAIN all
    PROVE  LET r == all[i]
               next == Accumulate(table, r)
           IN  /\ next \in Tables(all)
               /\ DOMAIN next = DOMAIN table \cup {r.candidate_id}
               /\ next[r.candidate_id] = Observe(StateOf(table, r), r.run_id, r)
               /\ \A id \in DOMAIN table : id # r.candidate_id => next[id] = table[id]
<1> DEFINE r == all[i]
           next == Accumulate(table, r)
           id == r.candidate_id
           D == DOMAIN table \cup {id}
<1>1. next = [c \in D |-> IF c = id THEN Observe(StateOf(table, r), r.run_id, r) ELSE table[c]]
    BY DEF Accumulate, StateOf
<1>2. DOMAIN table \in SUBSET Ids(all) /\ \A c \in DOMAIN table : table[c] \in Rows(all)
    BY TableFacts
<1>3. id \in Ids(all)
    BY DEF Ids
<1>4. StateOf(table, r) \in Rows(all)
    BY <1>2, FreshTyped DEF StateOf
<1>5. Observe(StateOf(table, r), r.run_id, r) \in Rows(all)
    BY <1>4, ObserveTyped
<1> HIDE DEF next, r, id
<1>6. next \in [D -> Rows(all)] /\ D \in SUBSET Ids(all)
    BY <1>1, <1>2, <1>3, <1>5
<1>7. next \in Tables(all)
    BY <1>6, TableFacts
<1> QED
    BY <1>1, <1>7 DEF next, r, id

\* One more record.
LEMMA AccumulateIsExact ==
    ASSUME NEW all, Observations(all), NEW n \in Nat, n + 1 \in DOMAIN all,
           NEW table, TableIs(table, all, n)
    PROVE  TableIs(Accumulate(table, all[n + 1]), all, n + 1)
<1> DEFINE r == all[n + 1]
           me == r.candidate_id
           next == Accumulate(table, r)
           L == Len(all)
<1>0. L \in Nat /\ DOMAIN all = 1 .. L /\ r.observed_at \in Int /\ r.status \in EvaluationStatuses
    BY DEF Observations
<1>1. /\ next \in Tables(all)
      /\ DOMAIN next = DOMAIN table \cup {me}
      /\ next[me] = Observe(StateOf(table, r), r.run_id, r)
      /\ \A id \in DOMAIN table : id # me => next[id] = table[id]
    BY AccumulateFacts DEF TableIs
<1>2. DOMAIN next = {all[i].candidate_id : i \in 1 .. n + 1}
    <2>1. 1 .. n + 1 = (1 .. n) \cup {n + 1}
        OBVIOUS
    <2> QED
        BY <1>1, <2>1 DEF TableIs
<1> HIDE DEF next
<1>3. \A id : /\ Sightings(all, id) \in SUBSET (1 .. L)
              /\ \A s : SightingsAs(all, id, s) \in SUBSET (1 .. L)
    BY <1>0 DEF Sightings, SightingsAs
<1>4. ASSUME NEW id \in DOMAIN next, id # me
      PROVE  RowIs(next[id], all, n + 1, id)
    <2>1. n + 1 \notin Sightings(all, id) /\ \A s : n + 1 \notin SightingsAs(all, id, s)
        BY <1>4 DEF Sightings, SightingsAs
    <2>2. /\ UpTo(n + 1, Sightings(all, id)) = UpTo(n, Sightings(all, id))
          /\ \A s : UpTo(n + 1, SightingsAs(all, id, s)) = UpTo(n, SightingsAs(all, id, s))
        <3>1. ASSUME NEW W, W \in SUBSET (1 .. L), n + 1 \notin W
              PROVE  UpTo(n + 1, W) = UpTo(n, W)
            <4> HIDE DEF L
            <4> QED
                BY <1>0, <3>1, UpToSame
        <3> QED
            BY <1>3, <2>1, <3>1
    <2>3. RowIs(table[id], all, n, id) /\ next[id] = table[id]
        BY <1>1, <1>4 DEF TableIs
    <2> QED
        BY <2>2, <2>3 DEF RowIs
<1>5. RowIs(next[me], all, n + 1, me)
    <2> DEFINE W == Sightings(all, me)
               row == StateOf(table, r)
    <2>1. n + 1 \in W
        BY DEF Sightings
    <2>2. /\ UpTo(n + 1, W) = UpTo(n, W) \cup {n + 1}
          /\ Cardinality(UpTo(n + 1, W)) = Cardinality(UpTo(n, W)) + 1
        BY <1>0, <1>3, <2>1, UpToGrows
    <2>3. ASSUME NEW s \in EvaluationStatuses
          PROVE  Cardinality(UpTo(n + 1, SightingsAs(all, me, s))) =
                     IF s = r.status THEN Cardinality(UpTo(n, SightingsAs(all, me, s))) + 1
                     ELSE Cardinality(UpTo(n, SightingsAs(all, me, s)))
        <3> DEFINE V == SightingsAs(all, me, s)
        <3>1. n + 1 \in V <=> s = r.status
            BY DEF SightingsAs
        <3>2. V \in SUBSET (1 .. L)
            BY <1>3
        <3> HIDE DEF V, L, r, me
        <3>3. n + 1 \in V => Cardinality(UpTo(n + 1, V)) = Cardinality(UpTo(n, V)) + 1
            BY <1>0, <3>2, UpToMore
        <3>5. n + 1 \notin V => UpTo(n + 1, V) = UpTo(n, V)
            BY <1>0, <3>2, UpToSame
        <3>4. Cardinality(UpTo(n + 1, V)) = IF s = r.status THEN Cardinality(UpTo(n, V)) + 1
                                            ELSE Cardinality(UpTo(n, V))
            BY <3>1, <3>3, <3>5
        <3> QED
            BY <3>4 DEF V
    <2>4. /\ row.observation_count = Cardinality(UpTo(n, W))
          /\ row.first_seen \in Int /\ row.last_seen \in Int
          /\ row.source_run_ids = {all[i].run_id : i \in UpTo(n, W)}
          /\ row.status_counts \in [EvaluationStatuses -> Int]
          /\ \A s \in EvaluationStatuses :
                row.status_counts[s] = Cardinality(UpTo(n, SightingsAs(all, me, s)))
          /\ \/ /\ \E i \in UpTo(n, W) : row.first_seen = all[i].observed_at
                /\ \E i \in UpTo(n, W) : row.last_seen = all[i].observed_at
             \/ row.first_seen = r.observed_at /\ row.last_seen = r.observed_at
          /\ \A i \in UpTo(n, W) : row.first_seen <= all[i].observed_at
                                       /\ all[i].observed_at <= row.last_seen
        <3>1. CASE me \in DOMAIN table
            <4>1. row = table[me] /\ RowIs(table[me], all, n, me)
                BY <3>1 DEF StateOf, TableIs
            <4>2. table[me] \in Rows(all)
                BY <3>1, TableFacts DEF TableIs
            <4> QED
                BY <4>1, <4>2 DEF RowIs, Rows
        <3>2. CASE me \notin DOMAIN table
            <4>1. row = Fresh(r.observed_at)
                BY <3>2 DEF StateOf
            <4>2. UpTo(n, W) = {}
                <5>1. \A i \in 1 .. n : all[i].candidate_id # me
                    BY <3>2 DEF TableIs
                <5>2. \A i \in UpTo(n, W) : i \in 1 .. n /\ all[i].candidate_id = me
                    BY <1>0 DEF UpTo, Sightings
                <5> QED
                    BY <5>1, <5>2
            <4>3. \A s : UpTo(n, SightingsAs(all, me, s)) = {}
                BY <4>2 DEF UpTo, Sightings, SightingsAs
            <4>4. Cardinality({}) = 0
                BY FS_EmptySet
            <4>5. /\ row.observation_count = 0 /\ row.source_run_ids = {}
                  /\ row.first_seen = r.observed_at /\ row.last_seen = r.observed_at
                  /\ row.status_counts = [s \in EvaluationStatuses |-> 0]
                BY <4>1 DEF Fresh
            <4>6. row.status_counts \in [EvaluationStatuses -> Int]
                BY <4>5
            <4>7. \A s \in EvaluationStatuses :
                      row.status_counts[s] = Cardinality(UpTo(n, SightingsAs(all, me, s)))
                BY <4>3, <4>4, <4>5
            <4>8. row.source_run_ids = {all[i].run_id : i \in UpTo(n, W)}
                BY <4>2, <4>5
            <4>9. row.observation_count = Cardinality(UpTo(n, W))
                BY <4>2, <4>4, <4>5
            <4> HIDE DEF row, W, r
            <4> QED
                BY <1>0, <4>2, <4>5, <4>6, <4>7, <4>8, <4>9
        <3> QED
            BY <3>1, <3>2
    <2> HIDE DEF row, W
    <2>5. /\ next[me].first_seen = IF r.observed_at < row.first_seen THEN r.observed_at ELSE row.first_seen
          /\ next[me].last_seen = IF r.observed_at > row.last_seen THEN r.observed_at ELSE row.last_seen
          /\ next[me].observation_count = row.observation_count + 1
          /\ next[me].source_run_ids = row.source_run_ids \cup {r.run_id}
          /\ next[me].status_counts = [row.status_counts EXCEPT ![r.status] = @ + 1]
        BY <1>1 DEF Observe, row
    <2>6. next[me].observation_count = Cardinality(UpTo(n + 1, W))
        BY <2>2, <2>4, <2>5
    <2>7. next[me].source_run_ids = {all[i].run_id : i \in UpTo(n + 1, W)}
        BY <2>2, <2>4, <2>5
    <2>8. \A s \in EvaluationStatuses :
              next[me].status_counts[s] = Cardinality(UpTo(n + 1, SightingsAs(all, me, s)))
        BY <1>0, <2>3, <2>4, <2>5
    <2>9. \A i \in UpTo(n, W) : all[i].observed_at \in Int
        BY DEF UpTo, W, Sightings, Observations
    <2>10. /\ next[me].first_seen \in Int /\ next[me].last_seen \in Int
           /\ \E i \in UpTo(n + 1, W) : next[me].first_seen = all[i].observed_at
           /\ \E i \in UpTo(n + 1, W) : next[me].last_seen = all[i].observed_at
        BY <1>0, <2>2, <2>4, <2>5
    <2>11. \A i \in UpTo(n + 1, W) : next[me].first_seen <= all[i].observed_at
                                         /\ all[i].observed_at <= next[me].last_seen
        <3>1. CASE row.first_seen <= r.observed_at /\ r.observed_at <= row.last_seen
            BY <1>0, <2>2, <2>4, <2>5, <2>9, <3>1
        <3>2. /\ next[me].first_seen <= row.first_seen /\ row.last_seen <= next[me].last_seen
              /\ next[me].first_seen <= r.observed_at /\ r.observed_at <= next[me].last_seen
              /\ next[me].first_seen \in Int /\ next[me].last_seen \in Int
            BY <1>0, <2>4, <2>5
        <3>3. ASSUME NEW i \in UpTo(n, W)
              PROVE  next[me].first_seen <= all[i].observed_at
                         /\ all[i].observed_at <= next[me].last_seen
            <4>1. all[i].observed_at \in Int /\ row.first_seen <= all[i].observed_at
                  /\ all[i].observed_at <= row.last_seen
                BY <2>4, <2>9
            <4> QED
                BY <2>4, <3>2, <4>1
        <3> QED
            BY <2>2, <3>2, <3>3
    <2> QED
        BY <2>6, <2>7, <2>8, <2>10, <2>11 DEF RowIs, W
<1> QED
    BY <1>1, <1>2, <1>4, <1>5 DEF TableIs, next

-----------------------------------------------------------------------------
(***************************************************************************)
(* Everything once: where the records of a document are                    *)
(***************************************************************************)
\* What all of the records together say of the candidates.
LEMMA AccumulatedIsExact ==
    ASSUME NEW all, Observations(all)
    PROVE  TableIs(Accumulated(all), all, Len(all))
<1> DEFINE L == Len(all)
           S == Tables(all)
           base == << >>
           step == [x \in Nat \X S |->
                        IF x[1] + 1 \in 1 .. L THEN Accumulate(x[2], all[x[1] + 1]) ELSE x[2]]
<1>0. L \in Nat /\ DOMAIN all = 1 .. L
    BY DEF Observations
<1>1. base \in S
    <2>1. {} \in SUBSET Ids(all) /\ base \in [{} -> Rows(all)]
        OBVIOUS
    <2> QED
        BY <2>1, TableFacts
<1>2. ASSUME NEW n \in Nat, NEW t \in S, n + 1 \in 1 .. L
      PROVE  Accumulate(t, all[n + 1]) \in S
    BY <1>0, <1>2, AccumulateFacts
<1>3. step \in Rules(S)
    <2>1. ASSUME NEW n \in Nat, NEW t \in S PROVE step[<<n, t>>] \in S
        BY <1>2
    <2>2. \A x \in Nat \X S : step[x] \in S
        BY <2>1
    <2>3. step = [x \in Nat \X S |-> step[x]]
        OBVIOUS
    <2> HIDE DEF step
    <2> QED
        BY <2>2, <2>3 DEF Rules
<1>4. \A n \in Nat, t \in S : n + 1 \in 1 .. L => step[<<n, t>>] = Accumulate(t, all[n + 1])
    OBVIOUS
<1> HIDE DEF step, base, L, S
<1>5. PICK G : Recurs(S, base, step, G)
    BY <1>1, <1>3, Recursion
<1> DEFINE F == [n \in 0 .. L |-> G[n]]
<1>6. G \in [Nat -> S] /\ G[0] = base /\ \A n \in Nat : G[n + 1] = step[<<n, G[n]>>]
    BY <1>5 DEF Recurs
<1>7. ASSUME NEW n \in 0 .. L, n # 0 PROVE F[n] = Accumulate(F[n - 1], all[n])
    <2>1. n - 1 \in Nat /\ n - 1 \in 0 .. L /\ (n - 1) + 1 = n /\ n \in 1 .. L
        BY <1>0, <1>7
    <2>2. G[n] = step[<<n - 1, G[n - 1]>>] /\ G[n - 1] \in S
        BY <1>6, <2>1
    <2>3. G[n] = Accumulate(G[n - 1], all[n])
        BY <1>4, <2>1, <2>2
    <2> QED
        BY <2>1, <2>3
<1>8. 0 \in 0 .. L /\ F[0] = << >>
    BY <1>0, <1>6 DEF base
<1>9. F = [n \in 0 .. L |-> IF n = 0 THEN << >> ELSE Accumulate(F[n - 1], all[n])]
    <2>1. \A n \in 0 .. L : F[n] = IF n = 0 THEN << >> ELSE Accumulate(F[n - 1], all[n])
        BY <1>7, <1>8
    <2>2. F = [n \in 0 .. L |-> F[n]]
        OBVIOUS
    <2> HIDE DEF F
    <2> QED
        BY <2>1, <2>2
<1> HIDE DEF F
<1> DEFINE known == CHOOSE f : f = [n \in 0 .. Len(all) |->
                                        IF n = 0 THEN << >> ELSE Accumulate(f[n - 1], all[n])]
<1>10. known = [n \in 0 .. L |-> IF n = 0 THEN << >> ELSE Accumulate(known[n - 1], all[n])]
    BY <1>9 DEF L
<1>11. Accumulated(all) = known[L]
    BY DEF Accumulated, L
<1> HIDE DEF known
<1>12. /\ known[0] = << >>
       /\ \A n \in 0 .. L : n # 0 => known[n] = Accumulate(known[n - 1], all[n])
    BY <1>8, <1>10
<1> DEFINE Good == {n \in Nat : n <= L => TableIs(known[n], all, n)}
<1>13. Good = Nat
    <2>1. 0 \in Good
        <3>1. << >> \in Tables(all)
            BY <1>1 DEF base, S
        <3>2. DOMAIN << >> = {} /\ 1 .. 0 = {}
            OBVIOUS
        <3>3. TableIs(<< >>, all, 0)
            BY <3>1, <3>2 DEF TableIs
        <3> QED
            BY <1>12, <3>3
    <2>2. ASSUME NEW n \in Good PROVE n + 1 \in Good
        <3> SUFFICES ASSUME n + 1 <= L PROVE TableIs(known[n + 1], all, n + 1)
            OBVIOUS
        <3>1. n + 1 \in 0 .. L /\ n + 1 # 0 /\ (n + 1) - 1 = n /\ n + 1 \in DOMAIN all
            BY <1>0
        <3>2. TableIs(known[n], all, n)
            BY <1>0
        <3>3. known[n + 1] = Accumulate(known[n], all[n + 1])
            BY <1>12, <3>1
        <3> QED
            BY <3>1, <3>2, <3>3, AccumulateIsExact
    <2> HIDE DEF Good
    <2>3. Good \in SUBSET Nat
        BY DEF Good
    <2> QED
        BY <2>1, <2>2, <2>3, Induction
<1>14. L \in Good /\ L <= L
    BY <1>0, <1>13
<1> QED
    BY <1>11, <1>14 DEF L

-----------------------------------------------------------------------------
\* The places in the first m of the sequences.
Cells(seqs, m) == {c \in (1 .. m) \X Nat : c[2] \in DOMAIN seqs[c[1]]}

\* Every place once, in the order of what was put together.
Located(seqs, m, flat, at) ==
    /\ at \in [1 .. Len(flat) -> Cells(seqs, m)]
    /\ \A k \in 1 .. Len(flat) : flat[k] = seqs[at[k][1]][at[k][2]]
    /\ \A j, k \in 1 .. Len(flat) : at[j] = at[k] => j = k
    /\ \A c \in Cells(seqs, m) : \E k \in 1 .. Len(flat) : at[k] = c

LEMMA OneMore ==
    ASSUME NEW S, NEW seqs \in Seq(Seq(S)), NEW m \in 1 .. Len(seqs), m + 1 <= Len(seqs),
           NEW flat \in Seq(S), NEW at, Located(seqs, m, flat, at)
    PROVE  \E next : Located(seqs, m + 1, flat \o seqs[m + 1], next)
<1> DEFINE t == seqs[m + 1]
           r == flat \o t
           k0 == Len(flat)
           n == Len(t)
           C == Cells(seqs, m)
           D == Cells(seqs, m + 1)
           next == [k \in 1 .. Len(r) |-> IF k <= k0 THEN at[k] ELSE <<m + 1, k - k0>>]
<1>1. m \in Nat /\ m + 1 \in 1 .. Len(seqs) /\ t \in Seq(S)
    OBVIOUS
<1>2. r \in Seq(S) /\ Joins(r, flat, t)
    BY <1>1, Joined
<1>3. /\ k0 \in Nat /\ n \in Nat /\ Len(r) = k0 + n /\ DOMAIN t = 1 .. n
      /\ \A i \in 1 .. k0 : r[i] = flat[i]
      /\ \A i \in 1 .. n : r[k0 + i] = t[i]
    BY <1>1, <1>2 DEF Joins
<1>4. /\ at \in [1 .. k0 -> C]
      /\ \A k \in 1 .. k0 : flat[k] = seqs[at[k][1]][at[k][2]]
      /\ \A j, k \in 1 .. k0 : at[j] = at[k] => j = k
      /\ \A c \in C : \E k \in 1 .. k0 : at[k] = c
    BY DEF Located
<1>5. \A c \in D : c \in C \/ \E j \in 1 .. n : c = <<m + 1, j>>
    BY <1>1, <1>3 DEF Cells
<1>6. C \in SUBSET D /\ \A j \in 1 .. n : <<m + 1, j>> \in D
    BY <1>1, <1>3 DEF Cells
<1>7. \A c \in C : c[1] # m + 1
    BY <1>1 DEF Cells
<1> HIDE DEF C, D, t, r, k0, n
<1>8. /\ \A k \in 1 .. k0 : next[k] = at[k]
      /\ \A j \in 1 .. n : next[k0 + j] = <<m + 1, j>>
      /\ \A k \in 1 .. Len(r) : k \in 1 .. k0 \/ (k - k0 \in 1 .. n /\ k = k0 + (k - k0))
      /\ \A k \in 1 .. k0 : k \in 1 .. Len(r)
      /\ \A j \in 1 .. n : k0 + j \in 1 .. Len(r)
      /\ next = [k \in 1 .. Len(r) |-> next[k]]
    BY <1>3
<1> HIDE DEF next
<1>9. next \in [1 .. Len(r) -> D]
    <2>1. ASSUME NEW k \in 1 .. Len(r) PROVE next[k] \in D
        <3>1. CASE k \in 1 .. k0
            <4>1. at[k] \in C /\ next[k] = at[k]
                BY <1>4, <1>8, <3>1
            <4> QED
                BY <1>6, <4>1
        <3>2. CASE k - k0 \in 1 .. n /\ k = k0 + (k - k0)
            <4> DEFINE j == k - k0
            <4>1. j \in 1 .. n /\ next[k] = <<m + 1, j>>
                BY <1>8, <3>2
            <4> HIDE DEF j
            <4> QED
                BY <1>6, <4>1
        <3> QED
            BY <1>8, <3>1, <3>2
    <2> QED
        BY <1>8, <2>1
<1>10. ASSUME NEW k \in 1 .. Len(r) PROVE r[k] = seqs[next[k][1]][next[k][2]]
    <2>1. CASE k \in 1 .. k0
        BY <1>3, <1>4, <1>8, <2>1
    <2>2. CASE k - k0 \in 1 .. n /\ k = k0 + (k - k0)
        <3> DEFINE j == k - k0
        <3>1. next[k] = <<m + 1, j>> /\ r[k] = t[j]
            BY <1>3, <1>8, <2>2
        <3> QED
            BY <3>1 DEF t
    <2> QED
        BY <1>8, <2>1, <2>2
<1>11. ASSUME NEW j \in 1 .. Len(r), NEW k \in 1 .. Len(r), next[j] = next[k]
       PROVE  j = k
    <2>1. CASE j \in 1 .. k0 /\ k \in 1 .. k0
        BY <1>4, <1>8, <1>11, <2>1
    <2>2. ASSUME NEW x \in 1 .. k0, NEW y \in 1 .. n PROVE next[x] # next[k0 + y]
        <3>1. next[x] \in C /\ next[k0 + y] = <<m + 1, y>>
            BY <1>4, <1>8
        <3> QED
            BY <1>7, <3>1
    <2>3. CASE j - k0 \in 1 .. n /\ j = k0 + (j - k0) /\ k - k0 \in 1 .. n /\ k = k0 + (k - k0)
        <3> DEFINE x == j - k0
                   y == k - k0
        <3>1. next[j] = <<m + 1, x>> /\ next[k] = <<m + 1, y>>
            BY <1>8, <2>3
        <3> HIDE DEF x, y
        <3>3. next[j][2] = x /\ next[k][2] = y
            BY <3>1
        <3>4. x = y
            BY <1>11, <3>3
        <3>2. j - k0 = k - k0
            BY <3>4 DEF x, y
        <3> QED
            BY <2>3, <3>2
    <2> QED
        BY <1>8, <1>11, <2>1, <2>2, <2>3
<1>12. ASSUME NEW c \in D PROVE \E k \in 1 .. Len(r) : next[k] = c
    <2>1. CASE c \in C
        BY <1>4, <1>8, <2>1
    <2>2. CASE \E j \in 1 .. n : c = <<m + 1, j>>
        BY <1>8, <2>2
    <2> QED
        BY <1>5, <2>1, <2>2
<1>13. Located(seqs, m + 1, r, next)
    BY <1>9, <1>10, <1>11, <1>12 DEF Located, D
<1> QED
    BY <1>13 DEF r, t

\* What is flattened is there once, and nothing else is.
LEMMA FlattenLocates ==
    ASSUME NEW S, NEW seqs \in Seq(Seq(S)), seqs # << >>
    PROVE  /\ FlattenSeq(seqs) \in Seq(S)
           /\ \E at : Located(seqs, Len(seqs), FlattenSeq(seqs), at)
<1> DEFINE N == Len(seqs)
<1>1. PICK part : Flattens(S, seqs, part)
    BY FlattenUnfolds
<1>2. /\ part \in [1 .. N -> Seq(S)] /\ part[1] = seqs[1]
      /\ \A i \in 1 .. N : i + 1 <= N => part[i + 1] = part[i] \o seqs[i + 1]
      /\ FlattenSeq(seqs) = part[N]
    BY <1>1 DEF Flattens
<1>3. N \in Nat /\ 1 \in 1 .. N /\ N \in 1 .. N /\ \A i \in 1 .. N : seqs[i] \in Seq(S)
    OBVIOUS
<1> HIDE DEF N
<1> DEFINE Good == {k \in Nat : k + 1 <= N => \E at : Located(seqs, k + 1, part[k + 1], at)}
<1>4. 0 \in Good
    <2> DEFINE s == seqs[1]
               at == [k \in 1 .. Len(s) |-> <<1, k>>]
               C == Cells(seqs, 1)
    <2>1. s \in Seq(S) /\ part[1] = s /\ DOMAIN s = 1 .. Len(s) /\ Len(s) \in Nat
        BY <1>2, <1>3
    <2>2. /\ \A k \in 1 .. Len(s) : <<1, k>> \in C
          /\ \A c \in C : \E k \in 1 .. Len(s) : c = <<1, k>>
        BY <2>1 DEF Cells
    <2>3. \A k \in 1 .. Len(s) : at[k] = <<1, k>> /\ seqs[at[k][1]][at[k][2]] = s[k]
        OBVIOUS
    <2>4. at \in [1 .. Len(s) -> C]
        BY <2>2
    <2>5. \A j, k \in 1 .. Len(s) : at[j] = at[k] => j = k
        BY <2>3
    <2>6. \A c \in C : \E k \in 1 .. Len(s) : at[k] = c
        BY <2>2, <2>3
    <2> HIDE DEF at, s
    <2>7. Located(seqs, 1, s, at)
        BY <2>3, <2>4, <2>5, <2>6 DEF Located
    <2> QED
        BY <2>1, <2>7
<1>5. ASSUME NEW k \in Good PROVE k + 1 \in Good
    <2> DEFINE j == k + 1
    <2> SUFFICES ASSUME j + 1 <= N PROVE \E at : Located(seqs, j + 1, part[j + 1], at)
        OBVIOUS
    <2>1. j \in 1 .. N /\ j + 1 <= N
        BY <1>3
    <2>2. PICK at : Located(seqs, j, part[j], at)
        BY <2>1
    <2> HIDE DEF j
    <2>3. part[j] \in Seq(S) /\ part[j + 1] = part[j] \o seqs[j + 1]
        BY <1>2, <2>1
    <2>4. \E next : Located(seqs, j + 1, part[j] \o seqs[j + 1], next)
        <3> DEFINE flat == part[j]
        <3>1. flat \in Seq(S) /\ Located(seqs, j, flat, at)
            BY <2>2, <2>3
        <3> HIDE DEF flat
        <3>2. \E next : Located(seqs, j + 1, flat \o seqs[j + 1], next)
            BY <2>1, <3>1, OneMore DEF N
        <3> QED
            BY <3>2 DEF flat
    <2> QED
        BY <2>3, <2>4
<1>6. Good = Nat
    <2> HIDE DEF Good
    <2>1. Good \in SUBSET Nat
        BY DEF Good
    <2> QED
        BY <1>4, <1>5, <2>1, Induction
<1>7. \E at : Located(seqs, N, part[N], at)
    <2>1. N - 1 \in Nat /\ (N - 1) + 1 = N /\ N <= N
        BY <1>3
    <2>2. N - 1 \in Good
        BY <1>6, <2>1
    <2> QED
        BY <2>1, <2>2
<1> QED
    BY <1>2, <1>3, <1>7 DEF N

\* What the places of T are in a list of all the places.
Held(place, L, T) == {k \in 1 .. L : place[k] \in T}

Lists(place, L, P) ==
    /\ L \in Nat /\ place \in [1 .. L -> P]
    /\ \A j, k \in 1 .. L : place[j] = place[k] => j = k
    /\ \A w \in P : \E k \in 1 .. L : place[k] = w

LEMMA ListingCounts ==
    ASSUME NEW L, NEW P, NEW place, Lists(place, L, P), NEW T, T \in SUBSET P
    PROVE  Cardinality(Held(place, L, T)) = Cardinality(T)
<1> USE DEF Lists
<1> DEFINE W == Held(place, L, T)
           f == [k \in W |-> place[k]]
<1>1. IsFiniteSet(W)
    <2>1. 1 \in Int /\ L \in Int
        OBVIOUS
    <2>2. IsFiniteSet(1 .. L) /\ W \in SUBSET (1 .. L)
        BY <2>1, FS_Interval DEF Held
    <2> QED
        BY <2>2, FS_Subset
<1>2. f \in [W -> T] /\ \A j, k \in W : f[j] = f[k] => j = k
    BY DEF Held
<1>3. \A w \in T : \E k \in W : f[k] = w
    BY DEF Held
<1>4. f \in Bijection(W, T)
    <2> HIDE DEF f
    <2> QED
        BY <1>2, <1>3 DEF Bijection, Injection, Surjection, IsInjective
<1>5. ExistsBijection(W, T)
    BY <1>4 DEF ExistsBijection
<1> QED
    BY <1>1, <1>5, FS_Bijection

\* The evaluations of a journal in their order.
Turn(path) == Ranked(EvaluatedAt(Sources[path]), [j \in EvaluatedAt(Sources[path]) |-> j])

LEMMA TurnFacts ==
    ASSUME NEW path \in DOMAIN Sources
    PROVE  LET source == Sources[path]
               found == EvaluatedAt(source)
               n == Cardinality(found)
           IN  /\ n \in Nat /\ found \in SUBSET DOMAIN source.records
               /\ DOMAIN source.records = 1 .. Len(source.records) /\ Len(source.records) \in Nat
               /\ Turn(path) \in [1 .. n -> found]
               /\ \A j, k \in 1 .. n : Turn(path)[j] = Turn(path)[k] => j = k
               /\ \A i \in found : \E k \in 1 .. n : Turn(path)[k] = i
               /\ Evaluations(source) = [k \in 1 .. n |-> source.records[Turn(path)[k]]]
<1> DEFINE source == Sources[path]
           found == EvaluatedAt(source)
           n == Cardinality(found)
           id == [j \in found |-> j]
           q == Turn(path)
<1>1. /\ IsFiniteSet(found) /\ Weighed(found, id) /\ found \in SUBSET DOMAIN source.records
      /\ DOMAIN source.records = 1 .. Len(source.records) /\ Len(source.records) \in Nat
    BY EvaluatedFacts
<1>2. /\ n \in Nat /\ q \in [1 .. n -> found]
      /\ \A i \in found : \E k \in 1 .. n : q[k] = i
      /\ \A j, k \in 1 .. n : j < k => Before(id, q[j], q[k])
    <2> DEFINE s == Ranked(found, id)
    <2>1. q = s
        BY DEF Turn
    <2> HIDE DEF found, id
    <2>2. /\ n \in Nat /\ s \in [1 .. n -> found]
          /\ \A i \in found : \E k \in 1 .. n : s[k] = i
          /\ \A j, k \in 1 .. n : j < k => Before(id, s[j], s[k])
        BY <1>1, RankedIsOrdered
    <2> QED
        BY <2>1, <2>2
<1>3. Evaluations(source) = [k \in 1 .. n |-> source.records[q[k]]]
    BY DEF Evaluations, Picked, Turn
<1> HIDE DEF q, n, found, id
<1>4. \A j, k \in 1 .. n : q[j] = q[k] => j = k
    <2> SUFFICES ASSUME NEW j \in 1 .. n, NEW k \in 1 .. n, q[j] = q[k], j # k PROVE FALSE
        OBVIOUS
    <2>1. q[j] \in found
        BY <1>2
    <2>2. ~ Before(id, q[j], q[j])
        BY <1>1, <2>1, BeforeIsAnOrder
    <2>3. j < k \/ k < j
        BY <1>2
    <2> QED
        BY <1>2, <2>2, <2>3
<1> QED
    BY <1>1, <1>2, <1>3, <1>4 DEF q, n, found

Turns(path) == Cardinality(EvaluatedAt(Sources[path]))

\* Where the journals at these paths have an evaluation.
Places(paths) == {w \in paths \X Nat : w[2] \in EvaluatedAt(Sources[w[1]])}

\* Every evaluation of the journals once.
Listed(all, paths, place) ==
    /\ all \in Seq(ToSet(all))
    /\ place \in [1 .. Len(all) -> Places(paths)]
    /\ \A k \in 1 .. Len(all) : all[k] = RecordAt(place[k])
    /\ \A j, k \in 1 .. Len(all) : place[j] = place[k] => j = k
    /\ \A w \in Places(paths) : \E k \in 1 .. Len(all) : place[k] = w

LEMMA EvaluationsAreListed ==
    ASSUME NEW R \in Nat \ {0}, NEW runs \in [1 .. R -> DOMAIN Sources],
           \A i, j \in 1 .. R : runs[i] = runs[j] => i = j
    PROVE  \E place : Listed(FlattenSeq([i \in DOMAIN runs |-> Evaluations(Sources[runs[i]])]),
                             ToSet(runs), place)
<1> DEFINE seqs == [i \in 1 .. R |-> Evaluations(Sources[runs[i]])]
           P == Places(ToSet(runs))
           S == {RecordAt(w) : w \in P}
           all == FlattenSeq(seqs)
<1>1. DOMAIN runs = 1 .. R /\ 1 \in 1 .. R /\ ToSet(runs) = {runs[i] : i \in 1 .. R}
    BY DEF ToSet
<1>2. ASSUME NEW i \in 1 .. R
      PROVE  /\ Turns(runs[i]) \in Nat
             /\ Turn(runs[i]) \in [1 .. Turns(runs[i]) -> EvaluatedAt(Sources[runs[i]])]
             /\ \A j, k \in 1 .. Turns(runs[i]) : Turn(runs[i])[j] = Turn(runs[i])[k] => j = k
             /\ \A w \in EvaluatedAt(Sources[runs[i]]) : \E k \in 1 .. Turns(runs[i]) : Turn(runs[i])[k] = w
             /\ EvaluatedAt(Sources[runs[i]]) \in SUBSET Nat
             /\ seqs[i] = [k \in 1 .. Turns(runs[i]) |-> Sources[runs[i]].records[Turn(runs[i])[k]]]
    <2> DEFINE path == runs[i]
    <2>0. path \in DOMAIN Sources
        OBVIOUS
    <2> HIDE DEF path
    <2>1. LET source == Sources[path]
              found == EvaluatedAt(source)
              n == Cardinality(found)
          IN  /\ n \in Nat /\ found \in SUBSET DOMAIN source.records
              /\ DOMAIN source.records = 1 .. Len(source.records) /\ Len(source.records) \in Nat
              /\ Turn(path) \in [1 .. n -> found]
              /\ \A j, k \in 1 .. n : Turn(path)[j] = Turn(path)[k] => j = k
              /\ \A w \in found : \E k \in 1 .. n : Turn(path)[k] = w
              /\ Evaluations(source) = [k \in 1 .. n |-> source.records[Turn(path)[k]]]
        BY <2>0, TurnFacts
    <2>2. EvaluatedAt(Sources[path]) \in SUBSET Nat
        BY <2>1
    <2>3. seqs[i] = Evaluations(Sources[path])
        BY DEF path
    <2> QED
        BY <2>1, <2>2, <2>3 DEF path, Turns
<1> HIDE DEF seqs
<1>3. ASSUME NEW i \in 1 .. R, NEW k \in 1 .. Turns(runs[i])
      PROVE  /\ <<runs[i], Turn(runs[i])[k]>> \in P
             /\ seqs[i][k] = RecordAt(<<runs[i], Turn(runs[i])[k]>>)
    <2>1. Turn(runs[i])[k] \in EvaluatedAt(Sources[runs[i]]) /\ Turn(runs[i])[k] \in Nat
        <3> DEFINE t == Turn(runs[i])
                   E == EvaluatedAt(Sources[runs[i]])
        <3>1. t \in [1 .. Turns(runs[i]) -> E] /\ E \in SUBSET Nat
            BY <1>2
        <3> HIDE DEF t, E
        <3>2. t[k] \in E /\ t[k] \in Nat
            BY <3>1
        <3> QED
            BY <3>2 DEF t, E
    <2>2. runs[i] \in ToSet(runs)
        BY <1>1
    <2>3. seqs[i][k] = Sources[runs[i]].records[Turn(runs[i])[k]]
        <3> DEFINE s == seqs[i]
                   t == Turn(runs[i])
                   records == Sources[runs[i]].records
                   n == Turns(runs[i])
        <3>1. s = [j \in 1 .. n |-> records[t[j]]]
            BY <1>2
        <3> HIDE DEF s, t, records
        <3>2. s[k] = records[t[k]]
            BY <3>1
        <3> QED
            BY <3>2 DEF s, t, records
    <2> QED
        BY <2>1, <2>2, <2>3 DEF Places, RecordAt
<1> HIDE DEF P
<1>4. \A i \in 1 .. R : seqs[i] \in Seq(S) /\ DOMAIN seqs[i] = 1 .. Turns(runs[i])
    <2> TAKE i \in 1 .. R
    <2> DEFINE s == seqs[i]
               n == Turns(runs[i])
    <2>1. n \in Nat /\ DOMAIN s = 1 .. n /\ s = [k \in 1 .. n |-> s[k]]
        BY <1>2
    <2>2. \A k \in 1 .. n : s[k] \in S
        <3> TAKE k \in 1 .. n
        <3> DEFINE w == <<runs[i], Turn(runs[i])[k]>>
        <3>1. w \in P /\ seqs[i][k] = RecordAt(w)
            BY <1>3
        <3> HIDE DEF w
        <3> QED
            BY <3>1
    <2> HIDE DEF s, n, S
    <2>3. s \in [1 .. n -> S]
        BY <2>1, <2>2
    <2>4. s \in Seq(S)
        BY <2>1, <2>3
    <2> QED
        BY <2>1, <2>4 DEF s, n
<1>5. seqs \in Seq(Seq(S)) /\ Len(seqs) = R /\ seqs # << >>
    <2> HIDE DEF S
    <2>1. seqs \in [1 .. R -> Seq(S)]
        BY <1>4 DEF seqs
    <2> QED
        BY <2>1
<1>6. all \in Seq(S)
    <2> HIDE DEF S
    <2> QED
        BY <1>5, FlattenLocates
<1>7. PICK at : Located(seqs, R, all, at)
    <2> HIDE DEF S
    <2> QED
        BY <1>5, FlattenLocates
<1> HIDE DEF all
<1> DEFINE C == Cells(seqs, R)
           of(c) == <<runs[c[1]], Turn(runs[c[1]])[c[2]]>>
           place == [k \in 1 .. Len(all) |-> of(at[k])]
<1>8. /\ at \in [1 .. Len(all) -> C]
      /\ \A k \in 1 .. Len(all) : all[k] = seqs[at[k][1]][at[k][2]]
      /\ \A j, k \in 1 .. Len(all) : at[j] = at[k] => j = k
      /\ \A c \in C : \E k \in 1 .. Len(all) : at[k] = c
    BY <1>7 DEF Located
<1>9. \A c \in C : /\ c[1] \in 1 .. R /\ c[2] \in 1 .. Turns(runs[c[1]]) /\ c = <<c[1], c[2]>>
    <2>1. \A c \in C : c \in (1 .. R) \X Nat /\ c[2] \in DOMAIN seqs[c[1]]
        BY DEF Cells
    <2>2. \A c \in C : c[1] \in 1 .. R /\ c = <<c[1], c[2]>>
        BY <2>1
    <2> HIDE DEF C
    <2> QED
        BY <1>4, <2>1, <2>2
<1>10. \A i \in 1 .. R : \A k \in 1 .. Turns(runs[i]) : <<i, k>> \in C
    <2> TAKE i \in 1 .. R
    <2> TAKE k \in 1 .. Turns(runs[i])
    <2> DEFINE c == <<i, k>>
    <2>1. c \in (1 .. R) \X Nat /\ c[1] = i /\ c[2] = k
        OBVIOUS
    <2>2. k \in DOMAIN seqs[i]
        BY <1>4
    <2> HIDE DEF c
    <2>3. c \in C
        BY <2>1, <2>2 DEF Cells
    <2> QED
        BY <2>3 DEF c
<1> HIDE DEF C
<1>11. \A c \in C : of(c) \in P /\ seqs[c[1]][c[2]] = RecordAt(of(c))
    BY <1>3, <1>9
<1>12. ASSUME NEW c \in C, NEW e \in C, of(c) = of(e) PROVE c = e
    <2>1. runs[c[1]] = runs[e[1]] /\ Turn(runs[c[1]])[c[2]] = Turn(runs[e[1]])[e[2]]
        BY <1>12
    <2>2. c[1] = e[1]
        BY <1>9, <2>1
    <2>3. c[2] = e[2]
        <3> DEFINE i == c[1]
                   j == c[2]
                   k == e[2]
        <3>1. i \in 1 .. R /\ j \in 1 .. Turns(runs[i]) /\ k \in 1 .. Turns(runs[i])
              /\ Turn(runs[i])[j] = Turn(runs[i])[k]
            BY <1>9, <2>1, <2>2
        <3> HIDE DEF i, j, k
        <3>2. j = k
            BY <1>2, <3>1
        <3> QED
            BY <3>2 DEF j, k
    <2> QED
        BY <1>9, <2>2, <2>3
<1>13. ASSUME NEW w \in P PROVE \E c \in C : of(c) = w
    <2>1. w[1] \in ToSet(runs) /\ w[2] \in EvaluatedAt(Sources[w[1]]) /\ w = <<w[1], w[2]>>
        BY DEF P, Places
    <2>2. PICK i \in 1 .. R : runs[i] = w[1]
        BY <1>1, <2>1
    <2>3. PICK k \in 1 .. Turns(runs[i]) : Turn(runs[i])[k] = w[2]
        <3> DEFINE v == w[2]
        <3>1. v \in EvaluatedAt(Sources[runs[i]])
            BY <2>1, <2>2
        <3> HIDE DEF v
        <3>2. \E k \in 1 .. Turns(runs[i]) : Turn(runs[i])[k] = v
            BY <1>2, <3>1
        <3> QED
            BY <3>2 DEF v
    <2> DEFINE c == <<i, k>>
    <2>4. c \in C
        BY <1>10
    <2>5. of(c) = <<runs[i], Turn(runs[i])[k]>>
        OBVIOUS
    <2>6. of(c) = w
        BY <2>1, <2>2, <2>3, <2>5
    <2> QED
        BY <2>4, <2>6
<1> HIDE DEF of
<1>14. /\ place \in [1 .. Len(all) -> P]
       /\ \A k \in 1 .. Len(all) : place[k] = of(at[k]) /\ all[k] = RecordAt(place[k])
    BY <1>8, <1>11
<1> HIDE DEF place
<1>15. \A j, k \in 1 .. Len(all) : place[j] = place[k] => j = k
    BY <1>8, <1>12, <1>14
<1>16. \A w \in P : \E k \in 1 .. Len(all) : place[k] = w
    BY <1>8, <1>13, <1>14
<1>17. all \in Seq(ToSet(all))
    <2> DEFINE T == ToSet(all)
               n == Len(all)
    <2>1. n \in Nat /\ DOMAIN all = 1 .. n /\ all = [k \in 1 .. n |-> all[k]]
        BY <1>6
    <2>2. \A k \in 1 .. n : all[k] \in T
        BY <2>1 DEF ToSet
    <2> HIDE DEF T, n
    <2>3. all \in [1 .. n -> T]
        BY <2>1, <2>2
    <2> QED
        BY <2>1, <2>3 DEF T
<1>18. Listed(all, ToSet(runs), place)
    BY <1>14, <1>15, <1>16, <1>17 DEF Listed, P
<1> QED
    BY <1>1, <1>18 DEF all, seqs

-----------------------------------------------------------------------------
(***************************************************************************)
(* The documents of Stage F                                                *)
(***************************************************************************)
\* What the documents say that are made of these journals.
Gathered(runs) == FlattenSeq([i \in DOMAIN runs |-> Evaluations(Sources[runs[i]])])

Documented(d, runs) ==
    /\ runs \in [1 .. RequiredSourceRuns -> DOMAIN Sources]
    /\ \A i \in 1 .. RequiredSourceRuns : Completed(Sources[runs[i]])
    /\ \A i, k \in 1 .. RequiredSourceRuns :
          i < k => RunId(Sources[runs[i]]) < RunId(Sources[runs[k]])
    /\ \A i \in 1 .. RequiredSourceRuns : RunId(Sources[runs[i]]) \in Int
    /\ \A i \in DOMAIN Gathered(runs) : Gathered(runs)[i].status \in EvaluationStatuses
    /\ d.source_paths = runs
    /\ d.source_run_ids = [i \in DOMAIN runs |-> RunId(Sources[runs[i]])]
    /\ d.candidates = Accumulated(Gathered(runs))

LEMMA DocumentsAreDocumented ==
    ASSUME NEW paths \in [1 .. RequiredSourceRuns -> DOMAIN Sources],
           NEW d \in Aggregate(paths, Sources)
    PROVE  \E runs : Documented(d, runs)
<1> DEFINE R == RequiredSourceRuns
           runs == Sorted(paths, Sources)
           id(i) == RunId(Sources[paths[i]])
           weight == [i \in 1 .. R |-> id(i)]
           order == Ranked(1 .. R, weight)
<1>1. R \in Nat \ {0} /\ DOMAIN paths = 1 .. R
    BY SourceRunsAssumption
<1>2. /\ \A i \in 1 .. R : Completed(Sources[paths[i]])
      /\ \A i, j \in 1 .. R : id(i) = id(j) => i = j
      /\ \A i \in DOMAIN Gathered(runs) : Gathered(runs)[i].status \in EvaluationStatuses
      /\ d = [source_paths |-> runs,
              source_run_ids |-> [i \in DOMAIN runs |-> RunId(Sources[runs[i]])],
              candidates |-> Accumulated(Gathered(runs))]
    BY <1>1 DEF Aggregate, Gathered
<1>3. ASSUME NEW i \in 1 .. R PROVE id(i) \in Int
    <2> DEFINE path == paths[i]
               records == Sources[path].records
    <2>1. path \in DOMAIN Sources /\ Completed(Sources[path])
        BY <1>1, <1>2
    <2>2. records \in Seq(ToSet(records)) /\ \A r \in ToSet(records) : r.run_id \in Int
        BY <2>1, SourcesAssumption
    <2>3. records # << >>
        BY <2>1 DEF Completed
    <2> HIDE DEF path, records
    <2>4. records[1] \in ToSet(records)
        BY <2>2, <2>3
    <2>5. records[1].run_id \in Int
        BY <2>2, <2>4
    <2> QED
        BY <2>5 DEF RunId, path, records
<1>4. runs = [k \in 1 .. R |-> paths[order[k]]]
    BY <1>1 DEF Sorted
<1> HIDE DEF id, runs
<1>5. Weighed(1 .. R, weight)
    <2>1. 1 \in Int /\ R \in Int
        BY <1>1
    <2>2. IsFiniteSet(1 .. R)
        BY <2>1, FS_Interval
    <2>3. 1 .. R \subseteq Int /\ \A i \in 1 .. R : weight[i] \in Int
        BY <1>3
    <2> HIDE DEF weight, R
    <2> QED
        BY <2>2, <2>3 DEF Weighed
<1>6. Cardinality(1 .. R) = R
    <2> HIDE DEF R
    <2>1. 1 \in Int /\ R \in Int /\ R \in Nat
        BY <1>1
    <2> QED
        BY <2>1, FS_Interval
<1>7. /\ order \in [1 .. R -> 1 .. R]
      /\ \A j, k \in 1 .. R : j < k => Before(weight, order[j], order[k])
    <2> DEFINE P == 1 .. R
    <2>1. Weighed(P, weight) /\ Cardinality(P) = R
        BY <1>5, <1>6
    <2> HIDE DEF P, weight
    <2>2. /\ order \in [1 .. Cardinality(P) -> P]
          /\ \A j, k \in 1 .. Cardinality(P) : j < k => Before(weight, order[j], order[k])
        BY <2>1, RankedIsOrdered DEF P
    <2> QED
        BY <2>1, <2>2 DEF P
<1>8. ASSUME NEW i \in 1 .. R, NEW k \in 1 .. R, Before(weight, i, k)
      PROVE  id(i) < id(k)
    <2>1. weight[i] = id(i) /\ weight[k] = id(k)
        OBVIOUS
    <2>2. id(i) < id(k) \/ (id(i) = id(k) /\ i < k)
        BY <1>8, <2>1 DEF Before
    <2>3. id(i) = id(k) => i = k
        BY <1>2
    <2>4. i < k => i # k
        OBVIOUS
    <2> QED
        BY <2>2, <2>3, <2>4
<1> HIDE DEF order, weight
<1>9. \A k \in 1 .. R : order[k] \in 1 .. R /\ RunId(Sources[runs[k]]) = id(order[k])
    BY <1>4, <1>7 DEF id
<1>10. runs \in [1 .. R -> DOMAIN Sources] /\ \A i \in 1 .. R : Completed(Sources[runs[i]])
    BY <1>1, <1>2, <1>4, <1>7
<1>11. \A i, k \in 1 .. R : i < k => RunId(Sources[runs[i]]) < RunId(Sources[runs[k]])
    BY <1>7, <1>8, <1>9
<1>12. \A i \in 1 .. R : RunId(Sources[runs[i]]) \in Int
    BY <1>3, <1>9
<1>13. /\ d.source_paths = runs
       /\ d.source_run_ids = [i \in DOMAIN runs |-> RunId(Sources[runs[i]])]
       /\ d.candidates = Accumulated(Gathered(runs))
    BY <1>2
<1>14. Documented(d, runs)
    BY <1>2, <1>10, <1>11, <1>12, <1>13 DEF Documented
<1> QED
    BY <1>14

\* Nobody comes twice into a document.
LEMMA RunsDiffer ==
    ASSUME NEW d, NEW runs, Documented(d, runs)
    PROVE  /\ \A i, k \in 1 .. RequiredSourceRuns :
                 RunId(Sources[runs[i]]) = RunId(Sources[runs[k]]) => i = k
           /\ \A i, k \in 1 .. RequiredSourceRuns : runs[i] = runs[k] => i = k
<1>1. ASSUME NEW i \in 1 .. RequiredSourceRuns, NEW k \in 1 .. RequiredSourceRuns,
             RunId(Sources[runs[i]]) = RunId(Sources[runs[k]])
      PROVE  i = k
    <2> DEFINE x == RunId(Sources[runs[i]])
               y == RunId(Sources[runs[k]])
    <2>1. (i < k => x < y) /\ (k < i => y < x) /\ x \in Int /\ y \in Int /\ x = y
        BY <1>1 DEF Documented
    <2>2. i \in Int /\ k \in Int
        BY SourceRunsAssumption
    <2> HIDE DEF x, y
    <2> QED
        BY <2>1, <2>2
<1> QED
    BY <1>1

-----------------------------------------------------------------------------
\* What a document is made of.
LEMMA GatheredFacts ==
    ASSUME NEW d, NEW runs, Documented(d, runs)
    PROVE  /\ Observations(Gathered(runs))
           /\ \E place : Listed(Gathered(runs), ToSet(runs), place)
<1> DEFINE all == Gathered(runs)
           paths == ToSet(runs)
<1>1. \E place : Listed(all, paths, place)
    <2> DEFINE R == RequiredSourceRuns
    <2>1. R \in Nat \ {0} /\ runs \in [1 .. R -> DOMAIN Sources]
        BY SourceRunsAssumption DEF Documented
    <2>2. \A i, j \in 1 .. R : runs[i] = runs[j] => i = j
        BY RunsDiffer
    <2> HIDE DEF R
    <2>3. \E place : Listed(FlattenSeq([i \in DOMAIN runs |-> Evaluations(Sources[runs[i]])]),
                            ToSet(runs), place)
        BY <2>1, <2>2, EvaluationsAreListed
    <2> QED
        BY <2>3 DEF Gathered
<1>2. PICK place : Listed(all, paths, place)
    BY <1>1
<1>3. paths \in SUBSET DOMAIN Sources
    BY DEF Documented, ToSet
<1>4. ASSUME NEW w \in Places(paths) PROVE RecordAt(w).observed_at \in Int
    <2> DEFINE path == w[1]
               records == Sources[path].records
               i == w[2]
    <2>1. path \in DOMAIN Sources /\ i \in EvaluatedAt(Sources[path])
        BY <1>3 DEF Places
    <2>2. i \in DOMAIN records /\ records[i].event_type = "candidate_evaluation"
        BY <2>1 DEF EvaluatedAt
    <2>3. \A r \in ToSet(records) : r.event_type = "candidate_evaluation" => r.observed_at \in Int
        BY <2>1, SourcesAssumption
    <2> HIDE DEF path, records, i
    <2>4. records[i] \in ToSet(records)
        BY <2>2 DEF ToSet
    <2>5. records[i].observed_at \in Int
        BY <2>2, <2>3, <2>4
    <2> QED
        BY <2>5 DEF RecordAt, records, path, i
<1>5. \A i \in DOMAIN all : all[i].status \in EvaluationStatuses
    BY DEF Documented
<1> HIDE DEF all, paths
<1>6. /\ all \in Seq(ToSet(all))
      /\ \A k \in 1 .. Len(all) : place[k] \in Places(paths) /\ all[k] = RecordAt(place[k])
    BY <1>2 DEF Listed
<1>7. \A i \in DOMAIN all : all[i].observed_at \in Int
    BY <1>4, <1>6
<1>8. Observations(all)
    BY <1>5, <1>6, <1>7 DEF Observations
<1> QED
    BY <1>1, <1>8 DEF all, paths

\* The least and the greatest are the ones that are among them.
LEMMA LeastIsMin ==
    ASSUME NEW T \in SUBSET Int, NEW x \in T
    PROVE  /\ (\A y \in T : x <= y) => x = Min(T)
           /\ (\A y \in T : y <= x) => x = Max(T)
<1>1. ASSUME \A y \in T : x <= y PROVE x = Min(T)
    <2> DEFINE m == Min(T)
    <2>1. m \in T /\ \A y \in T : m <= y
        BY <1>1 DEF Min
    <2> HIDE DEF m
    <2>2. x <= m /\ m <= x /\ x \in Int /\ m \in Int
        BY <1>1, <2>1
    <2> QED
        BY <2>2 DEF m
<1>2. ASSUME \A y \in T : y <= x PROVE x = Max(T)
    <2> DEFINE m == Max(T)
    <2>0. \A y \in T : x >= y
        BY <1>2
    <2>1. m \in T /\ \A y \in T : m >= y
        BY <2>0 DEF Max
    <2> HIDE DEF m
    <2>2. x <= m /\ m <= x /\ x \in Int /\ m \in Int
        BY <1>2, <2>1
    <2> QED
        BY <2>2 DEF m
<1> QED
    BY <1>1, <1>2

\* What a row says of a candidate that was seen at these places.
RowSays(row, seen) ==
    /\ row.observation_count = Cardinality(seen)
    /\ row.first_seen = Min({RecordAt(w).observed_at : w \in seen})
    /\ row.last_seen = Max({RecordAt(w).observed_at : w \in seen})
    /\ row.source_run_ids = {RecordAt(w).run_id : w \in seen}
    /\ \A s \in EvaluationStatuses :
          row.status_counts[s] = Cardinality({w \in seen : RecordAt(w).status = s})

LEMMA RowsAreExact ==
    ASSUME NEW all, Observations(all), NEW paths, NEW place, Listed(all, paths, place),
           NEW id, NEW row, RowIs(row, all, Len(all), id)
    PROVE  RowSays(row, {w \in Places(paths) : RecordAt(w).candidate_id = id})
<1> DEFINE L == Len(all)
           P == Places(paths)
           seen == {w \in P : RecordAt(w).candidate_id = id}
           as(s) == {w \in seen : RecordAt(w).status = s}
           W == Sightings(all, id)
           at(k) == all[k].observed_at
           times == {RecordAt(w).observed_at : w \in seen}
<1>1. /\ L \in Nat /\ DOMAIN all = 1 .. L
      /\ \A k \in 1 .. L : at(k) \in Int
    BY DEF Observations
<1>2. /\ place \in [1 .. L -> P]
      /\ \A k \in 1 .. L : all[k] = RecordAt(place[k])
      /\ \A j, k \in 1 .. L : place[j] = place[k] => j = k
      /\ \A w \in P : \E k \in 1 .. L : place[k] = w
    BY DEF Listed
<1>3. W = Held(place, L, seen)
    BY <1>1, <1>2 DEF Sightings, Held
<1>4. ASSUME NEW s PROVE SightingsAs(all, id, s) = Held(place, L, as(s))
    BY <1>1, <1>2 DEF SightingsAs, Held
<1>5. seen \in SUBSET P /\ \A s : as(s) \in SUBSET P
    OBVIOUS
<1>6. W \in SUBSET (1 .. L) /\ \A s : SightingsAs(all, id, s) \in SUBSET (1 .. L)
    BY <1>3, <1>4 DEF Held
<1>7. UpTo(L, W) = W
    <2> HIDE DEF L, W
    <2> QED
        BY <1>1, <1>6, UpToGrows
<1>8. ASSUME NEW s PROVE UpTo(L, SightingsAs(all, id, s)) = SightingsAs(all, id, s)
    <2> DEFINE V == SightingsAs(all, id, s)
    <2>1. V \in SUBSET (1 .. L)
        BY <1>6
    <2> HIDE DEF L, V
    <2>2. UpTo(L, V) = V
        BY <1>1, <2>1, UpToGrows
    <2> QED
        BY <2>2 DEF V
<1>9. /\ row.observation_count = Cardinality(W)
      /\ row.first_seen \in Int /\ row.last_seen \in Int
      /\ \E i \in W : row.first_seen = at(i)
      /\ \E i \in W : row.last_seen = at(i)
      /\ \A i \in W : row.first_seen <= at(i) /\ at(i) <= row.last_seen
      /\ row.source_run_ids = {all[i].run_id : i \in W}
      /\ \A s \in EvaluationStatuses : row.status_counts[s] = Cardinality(SightingsAs(all, id, s))
    BY <1>7, <1>8 DEF RowIs
<1>17. ASSUME NEW T \in SUBSET P PROVE Cardinality(Held(place, L, T)) = Cardinality(T)
    <2>1. Lists(place, L, P)
        BY <1>1, <1>2 DEF Lists
    <2>2. T \in SUBSET P
        OBVIOUS
    <2> HIDE DEF L, P
    <2> QED
        BY <2>1, <2>2, ListingCounts
<1>10. Cardinality(W) = Cardinality(seen)
    BY <1>3, <1>5, <1>17
<1>11. ASSUME NEW s PROVE Cardinality(SightingsAs(all, id, s)) = Cardinality(as(s))
    BY <1>4, <1>5, <1>17
<1> HIDE DEF seen, W, L, P
<1>12. /\ \A k \in W : k \in 1 .. L /\ place[k] \in seen /\ all[k] = RecordAt(place[k])
       /\ \A w \in seen : \E k \in W : place[k] = w /\ all[k] = RecordAt(w)
    BY <1>2, <1>3, <1>5 DEF Held
<1>13. times = {at(k) : k \in W}
    BY <1>12
<1>14. {RecordAt(w).run_id : w \in seen} = {all[k].run_id : k \in W}
    BY <1>12
<1>15. row.first_seen = Min(times) /\ row.last_seen = Max(times)
    <2>1. times \in SUBSET Int /\ row.first_seen \in times /\ row.last_seen \in times
        BY <1>1, <1>9, <1>12, <1>13
    <2>2. \A y \in times : row.first_seen <= y /\ y <= row.last_seen
        BY <1>9, <1>13
    <2> HIDE DEF times
    <2> QED
        BY <2>1, <2>2, LeastIsMin
<1>16. RowSays(row, seen)
    <2>1. row.observation_count = Cardinality(seen)
        BY <1>9, <1>10
    <2>2. row.source_run_ids = {RecordAt(w).run_id : w \in seen}
        BY <1>9, <1>14
    <2>3. \A s \in EvaluationStatuses : row.status_counts[s] = Cardinality(as(s))
        BY <1>9, <1>11
    <2> QED
        BY <1>15, <2>1, <2>2, <2>3 DEF RowSays
<1> QED
    BY <1>16 DEF seen, P

\* The candidates of a document are those its journals evaluate.
LEMMA CandidatesAreThere ==
    ASSUME NEW paths \in SUBSET DOMAIN Sources, NEW all, NEW place, Listed(all, paths, place)
    PROVE  Ids(all) = {r.candidate_id : r \in
                          UNION {ToSet(Evaluations(j)) : j \in {Sources[path] : path \in paths}}}
<1> DEFINE P == Places(paths)
           records == UNION {ToSet(Evaluations(j)) : j \in {Sources[path] : path \in paths}}
<1>1. ASSUME NEW path \in paths
      PROVE  ToSet(Evaluations(Sources[path])) =
                 {Sources[path].records[i] : i \in EvaluatedAt(Sources[path])}
    <2> DEFINE n == Cardinality(EvaluatedAt(Sources[path]))
               found == EvaluatedAt(Sources[path])
               s == Evaluations(Sources[path])
               t == Turn(path)
               rs == Sources[path].records
    <2>1. /\ t \in [1 .. n -> found] /\ \A i \in found : \E k \in 1 .. n : t[k] = i
          /\ s = [k \in 1 .. n |-> rs[t[k]]]
        BY TurnFacts
    <2> HIDE DEF n, found, s, t, rs
    <2>2. ToSet(s) = {rs[i] : i \in found}
        BY <2>1 DEF ToSet
    <2> QED
        BY <2>2 DEF s, rs, found
<1>2. ASSUME NEW path \in paths, NEW i \in EvaluatedAt(Sources[path])
      PROVE  <<path, i>> \in P /\ RecordAt(<<path, i>>) = Sources[path].records[i]
    <2>1. i \in Nat
        <3> DEFINE found == EvaluatedAt(Sources[path])
                   rs == Sources[path].records
        <3>1. found \in SUBSET DOMAIN rs /\ DOMAIN rs = 1 .. Len(rs) /\ Len(rs) \in Nat
            BY TurnFacts
        <3> HIDE DEF rs
        <3> QED
            BY <3>1
    <2> QED
        BY <2>1 DEF Places, RecordAt
<1>3. ASSUME NEW w \in P
      PROVE  /\ w[1] \in paths /\ w[2] \in EvaluatedAt(Sources[w[1]])
             /\ RecordAt(w) = Sources[w[1]].records[w[2]]
    BY DEF Places, RecordAt
<1>4. records = {RecordAt(w) : w \in P}
    <2>1. ASSUME NEW w \in P PROVE RecordAt(w) \in records
        <3>1. RecordAt(w) \in ToSet(Evaluations(Sources[w[1]]))
            BY <1>1, <1>3
        <3> QED
            BY <1>3, <3>1
    <2>2. ASSUME NEW r \in records PROVE \E w \in P : r = RecordAt(w)
        <3>1. PICK path \in paths : r \in ToSet(Evaluations(Sources[path]))
            OBVIOUS
        <3>2. PICK i \in EvaluatedAt(Sources[path]) : r = Sources[path].records[i]
            BY <1>1, <3>1
        <3> QED
            BY <1>2, <3>2
    <2> HIDE DEF records, P
    <2> QED
        BY <2>1, <2>2
<1>5. /\ DOMAIN all = 1 .. Len(all) /\ place \in [1 .. Len(all) -> P]
      /\ \A k \in 1 .. Len(all) : all[k] = RecordAt(place[k])
      /\ \A w \in P : \E k \in 1 .. Len(all) : place[k] = w
    BY DEF Listed
<1> HIDE DEF records, P
<1>6. Ids(all) = {RecordAt(w).candidate_id : w \in P}
    BY <1>5 DEF Ids
<1>7. {r.candidate_id : r \in records} = {RecordAt(w).candidate_id : w \in P}
    BY <1>4
<1> QED
    BY <1>6, <1>7 DEF records

LEMMA SeenArePlaces ==
    ASSUME NEW d, NEW id, ToSet(d.source_paths) \in SUBSET DOMAIN Sources
    PROVE  Seen(d, id) = {w \in Places(ToSet(d.source_paths)) : RecordAt(w).candidate_id = id}
<1> DEFINE paths == ToSet(d.source_paths)
           at(path) == {j \in DOMAIN Sources[path].records :
                           /\ Sources[path].records[j].event_type = "candidate_evaluation"
                           /\ Sources[path].records[j].candidate_id = id}
           P == {w \in Places(paths) : RecordAt(w).candidate_id = id}
<1>1. Seen(d, id) = UNION {{<<path, i>> : i \in at(path)} : path \in paths}
    BY DEF Seen
<1>2. ASSUME NEW path \in paths, NEW i \in at(path) PROVE <<path, i>> \in P
    <2> DEFINE rs == Sources[path].records
    <2>1. i \in EvaluatedAt(Sources[path]) /\ rs[i].candidate_id = id
        BY DEF EvaluatedAt
    <2>2. DOMAIN rs = 1 .. Len(rs) /\ Len(rs) \in Nat
        BY TurnFacts
    <2>3. i \in DOMAIN rs
        OBVIOUS
    <2>4. i \in Nat
        <3> HIDE DEF rs
        <3> QED
            BY <2>2, <2>3
    <2> QED
        BY <2>1, <2>4 DEF Places, RecordAt
<1>3. ASSUME NEW w \in P PROVE w[1] \in paths /\ w[2] \in at(w[1]) /\ w = <<w[1], w[2]>>
    BY DEF Places, RecordAt, EvaluatedAt
<1> HIDE DEF at, P, paths
<1>4. UNION {{<<path, i>> : i \in at(path)} : path \in paths} = P
    BY <1>2, <1>3
<1> QED
    BY <1>1, <1>4 DEF P, paths

\* A document of Stage F and the journals that it names.
JournalsOf(d) == {Sources[path] : path \in ToSet(d.source_paths)}

JournalsAreWhole(d) ==
    /\ Cardinality({j.records[1].run_id : j \in JournalsOf(d)}) = RequiredSourceRuns
    /\ \A j \in JournalsOf(d) : ~ j.torn /\ Last(j.records).event_type = "run_end"
    /\ \A i, k \in DOMAIN d.source_run_ids : i < k => d.source_run_ids[i] < d.source_run_ids[k]

CandidatesAreExact(d) ==
    /\ DOMAIN d.candidates = {r.candidate_id : r \in
          UNION {ToSet(Evaluations(j)) : j \in JournalsOf(d)}}
    /\ \A id \in DOMAIN d.candidates : RowSays(d.candidates[id], Seen(d, id))

LEMMA DocumentJournals ==
    ASSUME NEW d, NEW runs, Documented(d, runs)
    PROVE  JournalsAreWhole(d)
<1> DEFINE R == RequiredSourceRuns
           id(i) == RunId(Sources[runs[i]])
           ids == {j.records[1].run_id : j \in JournalsOf(d)}
<1>1. R \in Nat \ {0} /\ runs \in [1 .. R -> DOMAIN Sources] /\ d.source_paths = runs
      /\ d.source_run_ids = [i \in 1 .. R |-> id(i)] /\ DOMAIN runs = 1 .. R
    BY SourceRunsAssumption DEF Documented
<1>2. JournalsOf(d) = {Sources[runs[i]] : i \in 1 .. R}
    <2>1. ToSet(runs) = {runs[i] : i \in 1 .. R}
        BY <1>1 DEF ToSet
    <2> QED
        BY <1>1, <2>1 DEF JournalsOf
<1>3. \A i, k \in 1 .. R : (i < k => id(i) < id(k)) /\ (id(i) = id(k) => i = k)
    BY RunsDiffer DEF Documented
<1>4. \A i, k \in DOMAIN d.source_run_ids : i < k => d.source_run_ids[i] < d.source_run_ids[k]
    <2> HIDE DEF id
    <2> QED
        BY <1>1, <1>3
<1>5. ids = {id(i) : i \in 1 .. R}
    BY <1>2 DEF RunId
<1>6. Cardinality(ids) = R
    <2> DEFINE f == [i \in 1 .. R |-> id(i)]
               P == 1 .. R
    <2> HIDE DEF R, id, ids
    <2>1. f \in [P -> ids] /\ \A i, k \in P : f[i] = f[k] => i = k
        BY <1>3, <1>5
    <2>2. \A x \in ids : \E i \in P : f[i] = x
        BY <1>5
    <2>3. 1 \in Int /\ R \in Int /\ R \in Nat
        BY <1>1
    <2>4. IsFiniteSet(P) /\ Cardinality(P) = R
        BY <2>3, FS_Interval
    <2> HIDE DEF f, P
    <2>5. f \in Bijection(P, ids)
        BY <2>1, <2>2 DEF Bijection, Injection, Surjection, IsInjective
    <2>6. ExistsBijection(P, ids)
        BY <2>5 DEF ExistsBijection
    <2> QED
        BY <2>4, <2>6, FS_Bijection
<1>7. ASSUME NEW j \in JournalsOf(d)
      PROVE  ~ j.torn /\ Last(j.records).event_type = "run_end"
    <2> DEFINE rs == j.records
    <2>1. PICK i \in 1 .. R : j = Sources[runs[i]]
        BY <1>2
    <2>2. Completed(j)
        BY <2>1 DEF Documented
    <2>3. rs \in Seq(ToSet(rs))
        BY <1>1, <2>1, SourcesAssumption
    <2>4. ~ j.torn /\ rs # << >> /\ \A k \in DOMAIN rs : rs[k].event_type = "run_end" <=> k = Len(rs)
        BY <2>2 DEF Completed, StartsAndEnds
    <2> HIDE DEF rs
    <2>5. Len(rs) \in DOMAIN rs
        BY <2>3, <2>4
    <2>6. Last(rs).event_type = "run_end"
        BY <2>4, <2>5 DEF Last
    <2> QED
        BY <2>4, <2>6 DEF rs
<1> QED
    BY <1>4, <1>6, <1>7 DEF JournalsAreWhole

LEMMA DocumentCandidates ==
    ASSUME NEW d, NEW runs, Documented(d, runs)
    PROVE  CandidatesAreExact(d)
<1> DEFINE all == Gathered(runs)
           paths == ToSet(d.source_paths)
<1>1. d.source_paths = runs /\ d.candidates = Accumulated(all) /\ paths \in SUBSET DOMAIN Sources
    BY DEF Documented, ToSet
<1>2. Observations(all)
    BY GatheredFacts
<1>3. PICK place : Listed(all, paths, place)
    BY <1>1, GatheredFacts
<1> HIDE DEF all
<1>4. TableIs(d.candidates, all, Len(all))
    BY <1>1, <1>2, AccumulatedIsExact
<1>5. DOMAIN d.candidates = Ids(all)
    <2>1. DOMAIN all = 1 .. Len(all)
        BY <1>2 DEF Observations
    <2> QED
        BY <1>4, <2>1 DEF TableIs, Ids
<1>6. Ids(all) = {r.candidate_id : r \in UNION {ToSet(Evaluations(j)) : j \in JournalsOf(d)}}
    <2> HIDE DEF paths
    <2>1. Ids(all) = {r.candidate_id : r \in
                 UNION {ToSet(Evaluations(j)) : j \in {Sources[path] : path \in paths}}}
        BY <1>1, <1>3, CandidatesAreThere
    <2> QED
        BY <2>1 DEF JournalsOf, paths
<1>7. ASSUME NEW id \in DOMAIN d.candidates
      PROVE  RowSays(d.candidates[id], Seen(d, id))
    <2> DEFINE row == d.candidates[id]
    <2>1. RowIs(row, all, Len(all), id)
        BY <1>4 DEF TableIs
    <2> HIDE DEF row, paths
    <2>2. RowSays(row, {w \in Places(paths) : RecordAt(w).candidate_id = id})
        BY <1>2, <1>3, <2>1, RowsAreExact
    <2>3. Seen(d, id) = {w \in Places(paths) : RecordAt(w).candidate_id = id}
        BY <1>1, SeenArePlaces DEF paths
    <2> QED
        BY <2>2, <2>3 DEF row
<1> QED
    BY <1>5, <1>6, <1>7 DEF CandidatesAreExact

EvidenceIsOfJournals ==
    \A e \in evidence : \E paths \in [1 .. RequiredSourceRuns -> DOMAIN Sources] :
        e.document \in Aggregate(paths, Sources)

LEMMA EvidenceInductive ==
    /\ FilesInit => EvidenceIsOfJournals
    /\ EvidenceIsOfJournals /\ [FilesNext]_filesVars => EvidenceIsOfJournals'
<1>1. FilesInit => EvidenceIsOfJournals
    BY DEF FilesInit, EvidenceIsOfJournals
<1>2. ASSUME EvidenceIsOfJournals, [FilesNext]_filesVars
      PROVE  EvidenceIsOfJournals'
    <2>1. ASSUME UNCHANGED evidence PROVE EvidenceIsOfJournals'
        BY <1>2, <2>1 DEF EvidenceIsOfJournals
    <2>2. CASE WriteEvidence
        <3>1. PICK paths \in [1 .. RequiredSourceRuns -> DOMAIN Sources] : \E cut \in BOOLEAN :
                  \E document \in Aggregate(paths, Sources) :
                      evidence' = {[document |-> document, torn |-> cut]}
            BY <2>2 DEF WriteEvidence
        <3>2. PICK cut \in BOOLEAN, document \in Aggregate(paths, Sources) :
                  evidence' = {[document |-> document, torn |-> cut]}
            BY <3>1
        <3>3. \A e \in evidence' : e.document \in Aggregate(paths, Sources)
            BY <3>2
        <3> QED
            BY <3>3 DEF EvidenceIsOfJournals
    <2>3. CASE Create \/ WriteEvent \/ Finish \/ Crash
        BY <2>1, <2>3 DEF Create, WriteEvent, Finish, Crash
    <2>4. CASE UNCHANGED filesVars
        BY <2>1, <2>4 DEF filesVars
    <2> QED
        BY <1>2, <2>2, <2>3, <2>4 DEF FilesNext
<1> QED
    BY <1>1, <1>2

LEMMA DocumentsAreExact == EvidenceIsOfJournals => TemporalEvidenceIsExact
<1> SUFFICES ASSUME EvidenceIsOfJournals, NEW e \in evidence
             PROVE  LET d == e.document
                        journals == {Sources[path] : path \in ToSet(d.source_paths)}
                    IN  /\ Cardinality({j.records[1].run_id : j \in journals}) = RequiredSourceRuns
                        /\ \A j \in journals : ~ j.torn /\ Last(j.records).event_type = "run_end"
                        /\ \A i, k \in DOMAIN d.source_run_ids :
                              i < k => d.source_run_ids[i] < d.source_run_ids[k]
                        /\ DOMAIN d.candidates = {r.candidate_id : r \in
                              UNION {ToSet(Evaluations(j)) : j \in journals}}
                        /\ \A id \in DOMAIN d.candidates : RowSays(d.candidates[id], Seen(d, id))
    BY DEF TemporalEvidenceIsExact, RowSays
<1>1. PICK paths \in [1 .. RequiredSourceRuns -> DOMAIN Sources] :
          e.document \in Aggregate(paths, Sources)
    BY DEF EvidenceIsOfJournals
<1> DEFINE d == e.document
<1>2. d \in Aggregate(paths, Sources)
    BY <1>1
<1> HIDE DEF d
<1>3. PICK runs : Documented(d, runs)
    BY <1>2, DocumentsAreDocumented
<1>4. JournalsAreWhole(d) /\ CandidatesAreExact(d)
    BY <1>3, DocumentJournals, DocumentCandidates
<1> QED
    BY <1>4 DEF JournalsAreWhole, CandidatesAreExact, JournalsOf, d

\* What Stage F says of a candidate is what the records of three different runs
\* that ended say, each counted once: the places of the records in the journals
\* are listed one after the other, so what a row counts it counts once.
THEOREM TemporalEvidenceIsExactAlways == FilesSpec => []TemporalEvidenceIsExact
<1>1. FilesInit => EvidenceIsOfJournals
    BY EvidenceInductive
<1>2. EvidenceIsOfJournals /\ [FilesNext]_filesVars => EvidenceIsOfJournals'
    BY EvidenceInductive
<1>3. EvidenceIsOfJournals => TemporalEvidenceIsExact
    BY DocumentsAreExact
<1> QED
    BY <1>1, <1>2, <1>3, PTL DEF FilesSpec

-----------------------------------------------------------------------------
USE RouteAssumption, BoundAssumption, LimitAssumption, NodeAssumption

-----------------------------------------------------------------------------
(***************************************************************************)
(* The ledger and the plan                                                 *)
(***************************************************************************)
\* Positions of a ledger and what is at them.
LEMMA LedgerFacts ==
    ASSUME NEW l \in Ledgers
    PROVE  /\ DOMAIN l \subseteq 1..MaxLedger
           /\ \A i \in DOMAIN l : /\ l[i].slot \in Slots
                                  /\ l[i].kind \in Kinds
           /\ \A i, j \in DOMAIN l : i < j => l[i].slot <= l[j].slot
<1>1. PICK n \in 0..MaxLedger : l \in [1..n -> Tx]
  BY DEF Ledgers
<1>2. DOMAIN l = 1..n /\ n <= MaxLedger /\ n \in Nat
  BY <1>1
<1>3. \A i \in DOMAIN l : l[i] \in Tx
  BY <1>1
<1>4. \A i, j \in DOMAIN l : i < j => l[i].slot <= l[j].slot
  BY DEF Ledgers
<1> QED
  BY <1>2, <1>3, <1>4 DEF Tx

\* Windows are ranges of slots.
LEMMA WindowFacts ==
    ASSUME NEW r \in Routes
    PROVE  /\ StartSlot(r) \in Slots
           /\ EndSlot(r) \in Nat
           /\ StartSlot(r) <= EndSlot(r)
           /\ LegsOf[r][1].pool \in Pools
           /\ LegsOf[r][2].pool \in Pools
<1>1. LegsOf[r][1] \in Leg /\ LegsOf[r][2] \in Leg
  OBVIOUS
<1>2. LegsOf[r][1].slot \in Slots /\ LegsOf[r][2].slot \in Slots
  BY <1>1 DEF Leg
<1>3. StartSlot(r) \in Slots
  BY <1>2 DEF StartSlot
<1> QED
  BY <1>1, <1>3 DEF EndSlot, Slots, Leg

\* What a node may answer comes from the ledger.
LEMMA PageFacts ==
    ASSUME TypeOK, NEW a, NEW tip \in 0..MaxSlot, NEW before, NEW p \in PagesOf(a, tip, before)
    PROVE  /\ p \subseteq DOMAIN ledger
           /\ \A i \in p : a \in ledger[i].kind.touches /\ ledger[i].slot <= tip /\ i < before
           /\ \A i \in Below(a, tip, before) \ p, j \in p : i < j
<1>1. p \subseteq Below(a, tip, before)
  BY DEF PagesOf
<1>2. \A i \in Below(a, tip, before) :
          /\ i \in DOMAIN ledger
          /\ a \in ledger[i].kind.touches /\ ledger[i].slot <= tip /\ i < before
  BY DEF Below
<1>3. \A i \in Below(a, tip, before) \ p, j \in p : i < j
  BY DEF PagesOf
<1> QED
  BY <1>1, <1>2, <1>3

\* The address being read is one of those not read yet.
LEMMA CurrentFacts ==
    ASSUME TypeOK, Reading
    PROVE  Current \in unread /\ Current \in Pools
  BY DEF TypeOK, Reading, Current
-----------------------------------------------------------------------------
(***************************************************************************)
(* The invariant, one conjunct at a time                                   *)
(***************************************************************************)
LEMMA InitInductive == Init => Inductive
<1> SUFFICES ASSUME Init PROVE Inductive
  OBVIOUS
<1>1. TypeOK
  <2>1. page \in [before : Positions, seen : SUBSET Positions, count : 0..(MaxPages - 1)]
    BY DEF Init, FirstPage, NoCursor, Positions
  <2>2. histories \in [Pools -> [seen : SUBSET Positions, complete : BOOLEAN]]
    BY DEF Init, Unavailable
  <2>3. polls \in 0..MaxPolls /\ newest \in 0..MaxSlot /\ confirmedTip \in 0..MaxSlot
    BY DEF Init
  <2> QED
    BY <2>1, <2>2, <2>3 DEF Init, TypeOK, Phases
<1>2. SeenIsInLedger
  BY DEF Init, SeenIsInLedger, FirstPage, Unavailable, Reading
<1>3. RunIsOrdered
  BY DEF Init, RunIsOrdered, Unavailable, FirstPage
<1>4. PagesHaveNoGap
  BY DEF Init, PagesHaveNoGap, FirstPage, Reading
<1>5. CompleteHistoryIsTotal
  BY DEF Init, CompleteHistoryIsTotal, Unavailable
<1> QED
  BY <1>1, <1>2, <1>3, <1>4, <1>5 DEF Inductive

LEMMA CloseType ==
    ASSUME TypeOK, Reading,
           NEW history \in [seen : SUBSET Positions, complete : BOOLEAN], Close(history)
    PROVE  /\ histories' \in [Pools -> [seen : SUBSET Positions, complete : BOOLEAN]]
           /\ unread' \subseteq Pools
           /\ page' \in [before : Positions, seen : SUBSET Positions, count : 0..(MaxPages - 1)]
<1>1. FirstPage \in [before : Positions, seen : SUBSET Positions, count : 0..(MaxPages - 1)]
  BY DEF FirstPage, NoCursor, Positions
<1> QED
  BY <1>1 DEF Close, TypeOK

LEMMA ReadPageType ==
    ASSUME TypeOK, SeenIsInLedger, NEW tip \in 0..MaxSlot, ReadPage(tip)
    PROVE  TypeOK'
<1> DEFINE a == Current
<1>1. Reading /\ Answers(tip)
  BY DEF ReadPage
<1>2. ledger' = ledger /\ phase' = phase /\ polls' = polls /\ confirmedTip' = confirmedTip
      /\ fetched' = fetched /\ verdict' = verdict /\ outcome' = outcome /\ faults' = faults
  BY DEF ReadPage
<1>3. newest' \in 0..MaxSlot
  BY <1>1 DEF Answers, TypeOK
<1>4. DOMAIN ledger \subseteq Positions
  BY LedgerFacts DEF TypeOK, Positions
<1>5. /\ histories' \in [Pools -> [seen : SUBSET Positions, complete : BOOLEAN]]
      /\ unread' \subseteq Pools
      /\ page' \in [before : Positions, seen : SUBSET Positions, count : 0..(MaxPages - 1)]
  <2>1. PICK p \in PagesOf(a, tip, page.before) :
            LET seen == page.seen \cup p IN
            \/ Close([seen |-> Retained(a, seen), complete |-> TRUE])
            \/ Close([seen |-> Retained(a, seen), complete |-> FALSE])
            \/ /\ ~ LastPage
               /\ \E i \in p :
                     page' = [before |-> i, seen |-> seen, count |-> page.count + 1]
               /\ UNCHANGED <<histories, unread>>
    BY DEF ReadPage
  <2> DEFINE seen == page.seen \cup p
  <2>2. p \subseteq Positions
    BY <2>1, <1>4, PageFacts
  <2>3. seen \subseteq Positions
    BY <2>2 DEF TypeOK
  <2>4. Retained(a, seen) \subseteq Positions
    BY <2>3 DEF Retained
  <2> HIDE DEF seen
  <2>5. CASE \E c \in BOOLEAN : Close([seen |-> Retained(a, seen), complete |-> c])
    <3>1. PICK c \in BOOLEAN : Close([seen |-> Retained(a, seen), complete |-> c])
      BY <2>5
    <3>2. [seen |-> Retained(a, seen), complete |-> c]
              \in [seen : SUBSET Positions, complete : BOOLEAN]
      BY <2>4, <3>1
    <3> QED
      BY <3>1, <3>2, <1>1, CloseType
  <2>6. CASE /\ ~ LastPage
             /\ \E i \in p : page' = [before |-> i, seen |-> seen, count |-> page.count + 1]
             /\ UNCHANGED <<histories, unread>>
    <3>1. page.count + 1 \in 0..(MaxPages - 1)
      <4>1. page.count \in 0..(MaxPages - 1)
        BY DEF TypeOK
      <4>2. page.count + 1 # MaxPages
        BY <2>6 DEF LastPage
      <4> QED
        BY <4>1, <4>2
    <3> QED
      BY <2>6, <3>1, <2>2, <2>3 DEF TypeOK
  <2> QED
    BY <2>1, <2>5, <2>6 DEF seen
<1> QED
  BY <1>2, <1>3, <1>5 DEF TypeOK

LEMMA TypeStep ==
    ASSUME TypeOK, SeenIsInLedger, [Next]_vars
    PROVE  TypeOK'
<1>1. CASE UNCHANGED vars
  BY <1>1 DEF TypeOK, vars
<1>2. CASE Maturity
  <2>1. ASSUME NEW tip \in 0..MaxSlot, Poll(tip) PROVE TypeOK'
    BY <2>1 DEF Poll, Answers, TypeOK, Phases
  <2>2. CASE PollFails
    BY <2>2 DEF PollFails, TypeOK
  <2>3. CASE Deadline
    BY <2>3 DEF Deadline, TypeOK, Phases
  <2> QED
    BY <1>2, <2>1, <2>2, <2>3 DEF Maturity
<1>3. CASE Acquire
  <2>1. ASSUME NEW tip \in 0..MaxSlot, GetSlot(tip) PROVE TypeOK'
    BY <2>1 DEF GetSlot, Answers, TypeOK, Phases
  <2>2. CASE GetSlotFails
    BY <2>2 DEF GetSlotFails, TypeOK, Phases
  <2>3. Unavailable \in [seen : SUBSET Positions, complete : BOOLEAN]
    BY DEF Unavailable
  <2>4. CASE TipTooLow
    <3>1. Reading /\ Close(Unavailable)
      BY <2>4 DEF TipTooLow
    <3> QED
      BY <2>4, <2>3, <3>1, CloseType DEF TipTooLow, TypeOK
  <2>5. CASE PageFails
    <3>1. Reading /\ Close(Unavailable)
      BY <2>5 DEF PageFails
    <3> QED
      BY <2>5, <2>3, <3>1, CloseType DEF PageFails, TypeOK
  <2> QED
    BY <1>3, <2>1, <2>2, <2>4, <2>5, ReadPageType DEF Acquire
<1>4. ASSUME NEW got \in SUBSET Required, Fetch(got) PROVE TypeOK'
  <2>1. Required \subseteq Positions
    BY WindowFacts DEF Required, Intersection, Observed, TypeOK
  <2>2. fetched' \subseteq Positions /\ faults' \in BOOLEAN
    BY <1>4, <2>1 DEF Fetch, TypeOK
  <2> QED
    BY <1>4, <2>2 DEF Fetch, TypeOK, Phases
<1>5. CASE Analyze
  BY <1>5 DEF Analyze, Status, TypeOK, Phases
<1>6. CASE WriteFails
  BY <1>6 DEF WriteFails, TypeOK, Phases
<1> QED
  BY <1>1, <1>2, <1>3, <1>4, <1>5, <1>6 DEF Next

LEMMA SeenStep ==
    ASSUME TypeOK, SeenIsInLedger, RunIsOrdered, [Next]_vars
    PROVE  SeenIsInLedger'
<1>1. CASE UNCHANGED vars
  BY <1>1 DEF SeenIsInLedger, Reading, Current, vars
<1>2. ASSUME UNCHANGED <<ledger, unread, page, histories>>, Reading' => Reading
      PROVE  SeenIsInLedger'
  BY <1>2 DEF SeenIsInLedger, Reading, Current
<1>3. ASSUME NEW history, history.seen \subseteq DOMAIN ledger, Close(history),
             Reading, UNCHANGED ledger
      PROVE  SeenIsInLedger'
  <2>1. page' = FirstPage
    BY <1>3 DEF Close
  <2>2. \A a \in Pools : histories'[a].seen \subseteq DOMAIN ledger
    BY <1>3 DEF Close, SeenIsInLedger, TypeOK
  <2> QED
    BY <2>1, <2>2, <1>3 DEF SeenIsInLedger, FirstPage
<1>4. CASE Maturity
  BY <1>4, <1>2 DEF Maturity, Poll, PollFails, Deadline, Reading
<1>5. CASE Acquire
  <2>1. ASSUME NEW tip \in 0..MaxSlot, GetSlot(tip) PROVE SeenIsInLedger'
    <3>1. page = FirstPage
      BY <2>1 DEF GetSlot, RunIsOrdered, Reading
    <3> QED
      BY <2>1, <3>1 DEF GetSlot, SeenIsInLedger, FirstPage
  <2>2. CASE GetSlotFails
    <3>1. page = FirstPage
      BY <2>2 DEF GetSlotFails, RunIsOrdered, Reading
    <3> QED
      BY <2>2, <3>1 DEF GetSlotFails, SeenIsInLedger, FirstPage
  <2>3. CASE TipTooLow
    BY <2>3, <1>3 DEF TipTooLow, Unavailable
  <2>4. CASE PageFails
    BY <2>4, <1>3 DEF PageFails, Unavailable
  <2>5. ASSUME NEW tip \in 0..MaxSlot, ReadPage(tip) PROVE SeenIsInLedger'
    <3> DEFINE a == Current
    <3>1. Reading /\ UNCHANGED <<ledger, phase>>
      BY <2>5 DEF ReadPage
    <3>2. PICK p \in PagesOf(a, tip, page.before) :
              LET seen == page.seen \cup p IN
              \/ Close([seen |-> Retained(a, seen), complete |-> TRUE])
              \/ Close([seen |-> Retained(a, seen), complete |-> FALSE])
              \/ /\ \E i \in p :
                       page' = [before |-> i, seen |-> seen, count |-> page.count + 1]
                 /\ UNCHANGED <<histories, unread>>
      BY <2>5 DEF ReadPage
    <3> DEFINE seen == page.seen \cup p
    <3>3. /\ p \subseteq DOMAIN ledger
          /\ \A i \in p : a \in ledger[i].kind.touches
      BY <3>2, PageFacts
    <3>4. /\ seen \subseteq DOMAIN ledger
          /\ \A i \in seen : a \in ledger[i].kind.touches
      BY <3>1, <3>3 DEF SeenIsInLedger
    <3>5. Retained(a, seen) \subseteq DOMAIN ledger
      BY <3>4 DEF Retained
    <3> HIDE DEF seen
    <3>6. CASE \E c \in BOOLEAN : Close([seen |-> Retained(a, seen), complete |-> c])
      BY <3>6, <3>5, <3>1, <1>3
    <3>7. CASE /\ \E i \in p :
                     page' = [before |-> i, seen |-> seen, count |-> page.count + 1]
               /\ UNCHANGED <<histories, unread>>
      <4>1. PICK i \in p : page' = [before |-> i, seen |-> seen, count |-> page.count + 1]
        BY <3>7
      <4>2. Current' = a
        BY <3>7 DEF Current
      <4>3. \A j \in page'.seen : Current' \in ledger'[j].kind.touches
        BY <4>1, <4>2, <3>1, <3>4
      <4> QED
        BY <4>1, <4>3, <3>1, <3>3, <3>4, <3>7 DEF SeenIsInLedger
    <3> QED
      BY <3>2, <3>6, <3>7 DEF seen
  <2> QED
    BY <1>5, <2>1, <2>2, <2>3, <2>4, <2>5 DEF Acquire
<1>6. ASSUME NEW got \in SUBSET Required, Fetch(got) PROVE SeenIsInLedger'
  BY <1>6, <1>2 DEF Fetch, Reading
<1>7. CASE Analyze
  BY <1>7, <1>2 DEF Analyze, Reading
<1>8. CASE WriteFails
  BY <1>8, <1>2 DEF WriteFails, Reading
<1> QED
  BY <1>1, <1>4, <1>5, <1>6, <1>7, <1>8 DEF Next

\* Closing a history is the only way to complete one.
LEMMA CloseOrdered ==
    ASSUME TypeOK, RunIsOrdered, Reading, NEW history, Close(history),
           history.complete => confirmedTip # 0,
           UNCHANGED <<ledger, phase, confirmedTip, fetched, verdict, outcome>>
    PROVE  RunIsOrdered'
<1>1. \A a \in Pools : histories'[a].complete => confirmedTip' # 0
  BY DEF Close, RunIsOrdered, TypeOK
<1>2. page' = FirstPage /\ phase' = "history"
  BY DEF Close, Reading
<1> QED
  BY <1>1, <1>2 DEF RunIsOrdered, Reading

LEMMA OrderedStep ==
    ASSUME TypeOK, RunIsOrdered, [Next]_vars
    PROVE  RunIsOrdered'
<1>1. CASE UNCHANGED vars
  <2>1. Required' = Required
    BY <1>1 DEF vars, Required, Intersection, HistoriesComplete, Observed
  <2> QED
    BY <1>1, <2>1 DEF RunIsOrdered, Reading, vars
<1>2. CASE Maturity
  BY <1>2 DEF Maturity, Poll, PollFails, Deadline, RunIsOrdered, Reading
<1>3. CASE Acquire
  <2>1. ASSUME NEW tip \in 0..MaxSlot, GetSlot(tip) PROVE RunIsOrdered'
    BY <2>1 DEF GetSlot, RunIsOrdered, Reading
  <2>2. CASE GetSlotFails
    BY <2>2 DEF GetSlotFails, RunIsOrdered, Reading
  <2>3. CASE TipTooLow
    BY <2>3, CloseOrdered DEF TipTooLow, Unavailable
  <2>4. CASE PageFails
    BY <2>4, CloseOrdered DEF PageFails, Unavailable
  <2>5. ASSUME NEW tip \in 0..MaxSlot, ReadPage(tip) PROVE RunIsOrdered'
    <3>1. Reading /\ UNCHANGED <<ledger, phase, confirmedTip, fetched, verdict, outcome>>
      BY <2>5 DEF ReadPage
    <3>2. confirmedTip # 0
      <4>1. UnionEnds(Current, confirmedTip)
        BY <2>5 DEF ReadPage, TooLow
      <4>2. PICK r \in Routes : Current \in LegPools(r)
        BY <3>1, CurrentFacts DEF Pools, LegPools
      <4>3. EndSlot(r) <= confirmedTip
        BY <4>1, <4>2 DEF UnionEnds, Asking
      <4> QED
        BY <4>3, WindowFacts DEF TypeOK, Slots
    <3>3. CASE \E history : Close(history)
      BY <3>1, <3>2, <3>3, CloseOrdered
    <3>4. CASE UNCHANGED <<histories, unread>>
      <4>1. phase = "history" /\ Reading'
        BY <3>1, <3>4 DEF Reading
      <4> QED
        BY <3>1, <3>4, <4>1 DEF RunIsOrdered
    <3> QED
      BY <2>5, <3>3, <3>4 DEF ReadPage
  <2> QED
    BY <1>3, <2>1, <2>2, <2>3, <2>4, <2>5 DEF Acquire
<1>4. ASSUME NEW got \in SUBSET Required, Fetch(got) PROVE RunIsOrdered'
  <2>1. Required' = Required
    BY <1>4 DEF Fetch, Required, Intersection, HistoriesComplete, Observed
  <2>2. fetched' \subseteq Required
    BY <1>4 DEF Fetch
  <2> QED
    BY <1>4, <2>1, <2>2 DEF Fetch, RunIsOrdered, Reading
<1>5. CASE Analyze
  BY <1>5 DEF Analyze, RunIsOrdered, Reading
<1>6. CASE WriteFails
  BY <1>6 DEF WriteFails, RunIsOrdered, Reading
<1> QED
  BY <1>1, <1>2, <1>3, <1>4, <1>5, <1>6 DEF Next
-----------------------------------------------------------------------------
(***************************************************************************)
(* Nodes that do not lag                                                   *)
(***************************************************************************)
\* After a page that is not the last, there is no gap down to its oldest entry.
LEMMA NextPageHasNoGap ==
    ASSUME TypeOK, SeenIsInLedger, PagesHaveNoGap, Reading, FreshNodes,
           NEW tip \in 0..MaxSlot, Answers(tip),
           NEW p \in PagesOf(Current, tip, page.before)
    PROVE  \A o \in p, i \in DOMAIN ledger :
               /\ Current \in ledger[i].kind.touches
               /\ o <= i
               /\ ledger[i].slot <= confirmedTip
               => i \in page.seen \cup p
<1> DEFINE a == Current
<1> SUFFICES ASSUME NEW o \in p, NEW i \in DOMAIN ledger,
                    a \in ledger[i].kind.touches, o <= i, ledger[i].slot <= confirmedTip,
                    ~ (page.before <= i)
             PROVE  i \in p
  BY DEF PagesHaveNoGap
<1>1. /\ i \in Int /\ ledger[i].slot \in Int /\ page.before \in Int
      /\ confirmedTip \in Int /\ newest \in Int /\ o \in Int
  <2>1. p \subseteq DOMAIN ledger
    BY PageFacts
  <2>2. o \in Int /\ i \in Int /\ ledger[i].slot \in Int
    BY <2>1, LedgerFacts DEF TypeOK, Slots
  <2> QED
    BY <2>2 DEF TypeOK, Positions
<1>2. confirmedTip <= tip /\ newest <= tip
  BY <1>1 DEF Answers, PagesHaveNoGap
<1>3. ~ (page.before # NoCursor /\ tip < ledger[page.before].slot)
  <2>1. page.before # NoCursor => ledger[page.before].slot \in Int
    BY LedgerFacts DEF TypeOK, SeenIsInLedger, Slots
  <2> QED
    BY <1>1, <1>2, <2>1 DEF PagesHaveNoGap
<1>4. i \in Below(a, tip, page.before)
  BY <1>1, <1>2, <1>3 DEF Below
<1>5. i \notin p => i < o
  BY <1>4, PageFacts
<1> QED
  BY <1>1, <1>5

LEMMA NoGapStep ==
    ASSUME TypeOK, SeenIsInLedger, RunIsOrdered, PagesHaveNoGap, FreshNodes, [Next]_vars
    PROVE  PagesHaveNoGap'
<1>0. newest \in Int /\ confirmedTip \in Int
  BY DEF TypeOK
<1>1. ASSUME page' = FirstPage, UNCHANGED <<ledger, confirmedTip>>,
             newest' \in Int, newest <= newest'
      PROVE  PagesHaveNoGap'
  <2>1. \A i \in DOMAIN ledger : ~ (NoCursor <= i)
    BY LedgerFacts DEF TypeOK, NoCursor
  <2>2. confirmedTip' <= newest'
    BY <1>0, <1>1 DEF PagesHaveNoGap
  <2> QED
    BY <1>1, <2>1, <2>2 DEF PagesHaveNoGap, FirstPage
<1>2. ASSUME UNCHANGED <<ledger, confirmedTip, unread, page>>, Reading' => Reading,
             newest' \in Int, newest <= newest'
      PROVE  PagesHaveNoGap'
  <2>1. page.before # NoCursor => ledger[page.before].slot \in Int
    BY LedgerFacts DEF TypeOK, SeenIsInLedger, Slots
  <2>2. Current' = Current
    BY <1>2 DEF Current
  <2> QED
    BY <1>0, <1>2, <2>1, <2>2 DEF PagesHaveNoGap
<1>3. ASSUME NEW tip \in 0..MaxSlot, Answers(tip)
      PROVE  newest' \in Int /\ newest <= newest' /\ newest' = tip
  BY <1>0, <1>3 DEF Answers
<1>4. CASE UNCHANGED vars
  BY <1>0, <1>2, <1>4 DEF vars, Reading
<1>5. CASE Maturity
  <2>1. ASSUME NEW tip \in 0..MaxSlot, Poll(tip) PROVE PagesHaveNoGap'
    <3>1. ~ Reading'
      BY <2>1 DEF Poll, Reading
    <3> QED
      BY <2>1, <3>1, <1>2, <1>3 DEF Poll
  <2> QED
    BY <1>0, <1>2, <1>5, <2>1 DEF Maturity, PollFails, Deadline, Reading
<1>6. CASE Acquire
  <2>1. ASSUME NEW tip \in 0..MaxSlot, GetSlot(tip) PROVE PagesHaveNoGap'
    <3>1. page' = FirstPage
      BY <2>1 DEF GetSlot, RunIsOrdered, Reading
    <3>2. \A i \in DOMAIN ledger : ~ (NoCursor <= i)
      BY LedgerFacts DEF TypeOK, NoCursor
    <3>3. confirmedTip' <= newest'
      BY <2>1, <1>3 DEF GetSlot
    <3>4. ledger' = ledger
      BY <2>1 DEF GetSlot
    <3> QED
      BY <3>1, <3>2, <3>3, <3>4 DEF PagesHaveNoGap, FirstPage
  <2>2. CASE GetSlotFails
    <3>1. page' = FirstPage
      BY <2>2 DEF GetSlotFails, RunIsOrdered, Reading
    <3> QED
      BY <2>2, <3>1, <1>0, <1>1 DEF GetSlotFails
  <2>3. CASE TipTooLow
    BY <2>3, <1>0, <1>1 DEF TipTooLow, Close
  <2>4. CASE PageFails
    BY <2>4, <1>0, <1>1 DEF PageFails, Close
  <2>5. ASSUME NEW tip \in 0..MaxSlot, ReadPage(tip) PROVE PagesHaveNoGap'
    <3>1. Reading /\ Answers(tip) /\ UNCHANGED <<ledger, phase, confirmedTip>>
      BY <2>5 DEF ReadPage
    <3>2. newest' \in Int /\ newest <= newest' /\ newest' = tip
      BY <3>1, <1>3
    <3>3. CASE page' = FirstPage
      BY <3>1, <3>2, <3>3, <1>1
    <3>4. CASE page' # FirstPage
      <4>1. PICK p \in PagesOf(Current, tip, page.before) :
                \E i \in p :
                    /\ page' = [before |-> i, seen |-> page.seen \cup p,
                                count |-> page.count + 1]
                    /\ UNCHANGED <<histories, unread>>
        BY <2>5, <3>4 DEF ReadPage, Close
      <4>2. PICK o \in p : /\ page' = [before |-> o, seen |-> page.seen \cup p,
                                       count |-> page.count + 1]
                           /\ unread' = unread
        BY <4>1
      <4>3. Current' = Current
        BY <4>2 DEF Current
      <4>4. ledger[o].slot <= tip
        BY <4>1, <4>2, PageFacts
      <4>5. confirmedTip' <= newest'
        BY <1>0, <3>1, <3>2 DEF PagesHaveNoGap
      <4>6. \A i \in DOMAIN ledger :
                /\ Current \in ledger[i].kind.touches
                /\ o <= i
                /\ ledger[i].slot <= confirmedTip
                => i \in page.seen \cup p
        BY <3>1, <4>1, <4>2, NextPageHasNoGap
      <4> QED
        BY <3>1, <3>2, <4>2, <4>3, <4>4, <4>5, <4>6 DEF PagesHaveNoGap
    <3> QED
      BY <3>3, <3>4
  <2> QED
    BY <1>6, <2>1, <2>2, <2>3, <2>4, <2>5 DEF Acquire
<1>7. ASSUME NEW got \in SUBSET Required, Fetch(got) PROVE PagesHaveNoGap'
  BY <1>0, <1>2, <1>7 DEF Fetch, Reading
<1>8. CASE Analyze
  BY <1>0, <1>2, <1>8 DEF Analyze, Reading
<1>9. CASE WriteFails
  BY <1>0, <1>2, <1>9 DEF WriteFails, Reading
<1> QED
  BY <1>4, <1>5, <1>6, <1>7, <1>8, <1>9 DEF Next

\* A page that ends the reading leaves nothing of the union window out.
LEMMA LastPageIsTotal ==
    ASSUME TypeOK, SeenIsInLedger, PagesHaveNoGap, Reading, FreshNodes,
           ~ TooLow(Current), NEW tip \in 0..MaxSlot, Answers(tip),
           NEW p \in PagesOf(Current, tip, page.before), Complete(Current, p)
    PROVE  Retained(Current, page.seen \cup p) = {i \in DOMAIN ledger : InHistory(Current, i)}
<1> DEFINE a == Current
           seen == page.seen \cup p
<1>1. seen \subseteq DOMAIN ledger /\ \A i \in seen : a \in ledger[i].kind.touches
  BY PageFacts DEF SeenIsInLedger
<1>2. ASSUME NEW i \in DOMAIN ledger, InHistory(a, i), i \notin seen
      PROVE  FALSE
  <2>1. /\ i \in Int /\ ledger[i].slot \in Int /\ page.before \in Int
        /\ confirmedTip \in Int /\ newest \in Int
    BY LedgerFacts DEF TypeOK, Positions, Slots
  <2>2. ledger[i].slot <= confirmedTip
    <3>1. PICK r \in Asking(a) : ledger[i].slot <= EndSlot(r)
      BY <1>2 DEF InHistory, AtUnionEnd
    <3>2. EndSlot(r) <= confirmedTip
      BY DEF TooLow, UnionEnds
    <3>3. EndSlot(r) \in Nat
      BY WindowFacts DEF Asking
    <3> QED
      BY <2>1, <3>1, <3>2, <3>3
  <2>3. a \in ledger[i].kind.touches
    BY <1>2 DEF InHistory
  <2>4. i < page.before
    <3>1. ~ (page.before <= i)
      BY <1>2, <2>2, <2>3 DEF PagesHaveNoGap
    <3> QED
      BY <2>1, <3>1
  <2>5. newest <= tip
    BY DEF Answers
  <2>6. ~ (page.before # NoCursor /\ tip < ledger[page.before].slot)
    <3>1. page.before # NoCursor => ledger[page.before].slot \in Int
      BY LedgerFacts DEF TypeOK, SeenIsInLedger, Slots
    <3> QED
      BY <2>1, <2>5, <3>1 DEF PagesHaveNoGap
  <2>7. ledger[i].slot <= tip
    BY <2>1, <2>2, <2>5 DEF PagesHaveNoGap
  <2>8. i \in Below(a, tip, page.before) \ p
    BY <1>2, <2>3, <2>4, <2>6, <2>7 DEF Below
  <2>9. Cardinality(p) = PageLimit
    BY <2>8 DEF PagesOf
  <2>10. p # {}
    BY <2>9, FS_EmptySet
  <2>11. PICK o \in p : ~ AtUnionStart(a, ledger[o].slot)
    BY <2>9, <2>10 DEF Complete
  <2>12. o \in DOMAIN ledger /\ i < o
    BY <2>8, <2>11, PageFacts
  <2>13. ledger[i].slot <= ledger[o].slot /\ ledger[o].slot \in Int
    BY <2>12, LedgerFacts DEF TypeOK, Slots
  <2>14. PICK r \in Asking(a) : StartSlot(r) <= ledger[i].slot
    BY <1>2 DEF InHistory, AtUnionStart
  <2>15. StartSlot(r) <= ledger[o].slot
    BY <2>1, <2>13, <2>14, WindowFacts DEF Asking, Slots
  <2> QED
    BY <2>11, <2>14, <2>15 DEF AtUnionStart
<1> HIDE DEF seen
<1>3. Retained(a, seen) = {i \in DOMAIN ledger : InHistory(a, i)}
  BY <1>1, <1>2 DEF Retained, InHistory
<1> QED
  BY <1>3 DEF seen

LEMMA TotalStep ==
    ASSUME TypeOK, SeenIsInLedger, RunIsOrdered, PagesHaveNoGap, CompleteHistoryIsTotal,
           FreshNodes, [Next]_vars
    PROVE  CompleteHistoryIsTotal'
<1>1. ASSUME UNCHANGED <<ledger, histories>> PROVE CompleteHistoryIsTotal'
  BY <1>1 DEF CompleteHistoryIsTotal, InHistory
<1>2. ASSUME NEW history, Close(history), UNCHANGED ledger, Reading,
             history.complete => history.seen = {i \in DOMAIN ledger : InHistory(Current, i)}
      PROVE  CompleteHistoryIsTotal'
  <2> SUFFICES ASSUME NEW a \in Pools, histories'[a].complete
               PROVE  histories'[a].seen = {i \in DOMAIN ledger : InHistory(a, i)}
    BY <1>2 DEF CompleteHistoryIsTotal, InHistory
  <2>1. CASE a = Current
    BY <1>2, <2>1 DEF Close, TypeOK
  <2>2. CASE a # Current
    BY <1>2, <2>2 DEF Close, TypeOK, CompleteHistoryIsTotal
  <2> QED
    BY <2>1, <2>2
<1>3. CASE UNCHANGED vars
  BY <1>1, <1>3 DEF vars
<1>4. CASE Maturity
  BY <1>1, <1>4 DEF Maturity, Poll, PollFails, Deadline
<1>5. CASE Acquire
  <2>1. ASSUME NEW tip \in 0..MaxSlot, GetSlot(tip) PROVE CompleteHistoryIsTotal'
    BY <1>1, <2>1 DEF GetSlot
  <2>2. CASE GetSlotFails
    BY <1>1, <2>2 DEF GetSlotFails
  <2>3. CASE TipTooLow
    BY <1>2, <2>3 DEF TipTooLow, Unavailable
  <2>4. CASE PageFails
    BY <1>2, <2>4 DEF PageFails, Unavailable
  <2>5. ASSUME NEW tip \in 0..MaxSlot, ReadPage(tip) PROVE CompleteHistoryIsTotal'
    <3>1. Reading /\ ~ TooLow(Current) /\ Answers(tip) /\ UNCHANGED ledger
      BY <2>5 DEF ReadPage
    <3>2. PICK p \in PagesOf(Current, tip, page.before) :
              \/ /\ Complete(Current, p)
                 /\ Close([seen |-> Retained(Current, page.seen \cup p), complete |-> TRUE])
              \/ Close([seen |-> Retained(Current, page.seen \cup p), complete |-> FALSE])
              \/ UNCHANGED histories
      BY <2>5 DEF ReadPage
    <3>3. CASE /\ Complete(Current, p)
               /\ Close([seen |-> Retained(Current, page.seen \cup p), complete |-> TRUE])
      <4>1. Retained(Current, page.seen \cup p) = {i \in DOMAIN ledger : InHistory(Current, i)}
        BY <3>1, <3>3, LastPageIsTotal
      <4> QED
        BY <1>2, <3>1, <3>3, <4>1
    <3>4. CASE Close([seen |-> Retained(Current, page.seen \cup p), complete |-> FALSE])
      BY <1>2, <3>1, <3>4
    <3>5. CASE UNCHANGED histories
      BY <1>1, <3>1, <3>5
    <3> QED
      BY <3>2, <3>3, <3>4, <3>5
  <2> QED
    BY <1>5, <2>1, <2>2, <2>3, <2>4, <2>5 DEF Acquire
<1>6. ASSUME NEW got \in SUBSET Required, Fetch(got) PROVE CompleteHistoryIsTotal'
  BY <1>1, <1>6 DEF Fetch
<1>7. CASE Analyze
  BY <1>1, <1>7 DEF Analyze
<1>8. CASE WriteFails
  BY <1>1, <1>8 DEF WriteFails
<1> QED
  BY <1>3, <1>4, <1>5, <1>6, <1>7, <1>8 DEF Next
-----------------------------------------------------------------------------
(***************************************************************************)
(* Verdicts                                                                *)
(***************************************************************************)
\* match_transaction never finds a trade that is not there.
LEMMA MatchedTrades ==
    ASSUME NEW r \in Routes, NEW kind \in Kinds, Match(r, kind) = "matched"
    PROVE  Trades(r, kind)
<1>1. kind.ok /\ Found(r, kind)
  BY DEF Match
<1>2. PICK pair \in LegPairs(r, kind) :
          /\ Proven(LegsOf[r][1], kind.swaps[pair[1]])
          /\ Proven(LegsOf[r][2], kind.swaps[pair[2]])
  BY <1>1 DEF Found
<1>3. /\ pair[1] \in DOMAIN kind.swaps /\ pair[2] \in DOMAIN kind.swaps
      /\ pair[1] < pair[2]
      /\ kind.swaps[pair[1]].pool = LegsOf[r][1].pool
      /\ kind.swaps[pair[2]].pool = LegsOf[r][2].pool
  BY <1>2 DEF LegPairs, MatchesLeg
<1> QED
  BY <1>1, <1>2, <1>3 DEF Trades, Proven

\* match_transaction finds every trade, or says it cannot tell.
LEMMA TradesAreMatched ==
    ASSUME NEW r \in Routes, NEW kind \in Kinds, Trades(r, kind)
    PROVE  /\ Match(r, kind) # "none"
           /\ LegPools(r) \subseteq kind.touches
<1>1. PICK i \in DOMAIN kind.swaps, j \in DOMAIN kind.swaps :
          /\ i < j
          /\ kind.swaps[i].pool = LegsOf[r][1].pool /\ kind.swaps[i].input = LegsOf[r][1].input
          /\ kind.swaps[j].pool = LegsOf[r][2].pool /\ kind.swaps[j].input = LegsOf[r][2].input
  BY DEF Trades
<1>2. <<i, j>> \in LegPairs(r, kind)
  BY <1>1 DEF LegPairs, MatchesLeg
<1>3. kind.swaps[i].pool \in kind.touches /\ kind.swaps[j].pool \in kind.touches
  <2> DEFINE swaps == kind.swaps
             Swap == [pool : kind.touches, input : Mints, proof : Proofs]
  <2>1. swaps \in Seq(Swap)
    BY KindAssumption
  <2>2. \A k \in DOMAIN swaps : swaps[k] \in Swap
    <3> HIDE DEF swaps, Swap
    <3> QED
      BY <2>1
  <2>3. swaps[i] \in Swap /\ swaps[j] \in Swap
    BY <1>1, <2>2
  <2> QED
    BY <2>3
<1>4. kind.ok
  BY DEF Trades
<1>5. Found(r, kind) \/ Unclear(r, kind)
  <2>1. CASE kind.swaps[i].proof = "missing"
    BY <1>2, <2>1 DEF Unclear
  <2>2. CASE kind.swaps[j].proof = "missing"
    BY <1>2, <2>2 DEF Unclear
  <2>3. CASE kind.swaps[i].proof # "missing" /\ kind.swaps[j].proof # "missing"
    BY <1>1, <1>2, <2>3 DEF Found, Proven
  <2> QED
    BY <2>1, <2>2, <2>3
<1> QED
  BY <1>1, <1>3, <1>4, <1>5 DEF Match, LegPools

LEMMA MatchCases ==
    ASSUME NEW r, NEW kind
    PROVE  Match(r, kind) \in {"none", "unresolved", "matched"}
  BY DEF Match

\* A match lies in the route's own window.
LEMMA MatchedStatusIsReal ==
    ASSUME TypeOK, SeenIsInLedger, NEW r \in Routes,
           Status(r) = "atomic_route_amounts_unresolved"
    PROVE  TradedIn(r, ledger)
<1>1. PICK i \in Intersection(r) : Match(r, ledger[i].kind) = "matched"
  BY DEF Status
<1>2. i \in Observed(r, LegsOf[r][1].pool)
  BY <1>1 DEF Intersection
<1>3. i \in DOMAIN ledger /\ InWindow(r, ledger[i].slot)
  BY <1>2, WindowFacts DEF Observed, SeenIsInLedger
<1>4. Trades(r, ledger[i].kind)
  BY <1>1, <1>3, LedgerFacts, MatchedTrades DEF TypeOK
<1> QED
  BY <1>3, <1>4 DEF TradedIn

\* With complete histories no trade is missed.
LEMMA NoMatchStatusIsReal ==
    ASSUME TypeOK, CompleteHistoryIsTotal, NEW r \in Routes,
           Status(r) = "no_atomic_match_complete"
    PROVE  ~ TradedIn(r, ledger)
<1> SUFFICES ASSUME NEW i \in DOMAIN ledger, InWindow(r, ledger[i].slot),
                    Trades(r, ledger[i].kind)
             PROVE  FALSE
  BY DEF TradedIn
<1>1. HistoriesComplete(r) /\ ~ Undecided(r)
  BY DEF Status
<1>2. \A k \in Intersection(r) : Match(r, ledger[k].kind) # "matched"
  BY DEF Status
<1>3. Match(r, ledger[i].kind) # "none" /\ LegPools(r) \subseteq ledger[i].kind.touches
  BY LedgerFacts, TradesAreMatched DEF TypeOK
<1>4. ASSUME NEW a \in LegPools(r) PROVE i \in Observed(r, a)
  <2>1. a \in Pools /\ r \in Asking(a)
    BY <1>4, WindowFacts DEF LegPools, Asking
  <2>2. InHistory(a, i)
    BY <1>3, <2>1 DEF InHistory, AtUnionStart, AtUnionEnd, InWindow
  <2>3. i \in histories[a].seen
    BY <1>1, <2>1, <2>2 DEF HistoriesComplete, CompleteHistoryIsTotal
  <2> QED
    BY <2>3 DEF Observed
<1>5. i \in Intersection(r)
  BY <1>1, <1>4 DEF Intersection, LegPools
<1> QED
  BY <1>1, <1>2, <1>3, <1>5, MatchCases DEF Undecided

\* main's checks of the two acquisitions never decide anything on their own.
LEMMA FailsIffIncomplete ==
    ASSUME TypeOK, RunIsOrdered, phase = "analysis", ~ HistoryAcquired \/ ~ TransactionsAcquired
    PROVE  \E r \in Routes : Status(r) = "search_incomplete"
<1>1. CASE \E a \in Pools : ~ histories[a].complete
  <2>1. PICK a \in Pools : ~ histories[a].complete
    BY <1>1
  <2>2. PICK r \in Routes : a \in LegPools(r)
    BY <2>1 DEF Pools, LegPools
  <2> QED
    BY <2>1, <2>2 DEF Status, HistoriesComplete
<1>2. CASE \A a \in Pools : histories[a].complete
  <2>1. PICK a \in Pools : TRUE
    BY WindowFacts
  <2>2. HistoryAcquired
    BY <1>2, <2>1 DEF HistoryAcquired, RunIsOrdered
  <2>3. PICK i \in Required : i \notin fetched
    BY <2>2 DEF TransactionsAcquired, RunIsOrdered
  <2>4. PICK r \in Routes : i \in Intersection(r)
    BY <2>3 DEF Required
  <2> QED
    BY <2>3, <2>4 DEF Status, Undecided
<1> QED
  BY <1>1, <1>2
\* The oracle means the same ledgers and the same trades.
LEMMA SamePlan ==
    /\ Oracle!Ledgers = Ledgers
    /\ \A r, l : Oracle!TradedIn(r, l) <=> TradedIn(r, l)
<1>1. Oracle!Ledgers = Ledgers
  BY DEF Oracle!Ledgers, Ledgers, Oracle!Tx, Tx, Oracle!Slots, Slots
<1>2. ASSUME NEW r, NEW l PROVE Oracle!TradedIn(r, l) <=> TradedIn(r, l)
  BY DEF Oracle!TradedIn, TradedIn, Oracle!InWindow, InWindow, Oracle!StartSlot, StartSlot,
         Oracle!EndSlot, EndSlot, Oracle!Trades, Trades
<1> QED
  BY <1>1, <1>2
-----------------------------------------------------------------------------
(***************************************************************************)
(* Theorems                                                                *)
(***************************************************************************)
\* The invariant holds throughout; its last part where nodes do not lag.
THEOREM SearchInvariant == Spec => []Inductive
<1>1. Init => Inductive
  BY InitInductive
<1>2. Inductive /\ [Next]_vars => Inductive'
  BY TypeStep, SeenStep, OrderedStep, NoGapStep, TotalStep DEF Inductive
<1> QED
  BY <1>1, <1>2, PTL DEF Spec

\* Every variable stays in its type: pages stay within their bound, and what a
\* node answers stays within the ledger.
THEOREM TypeCorrect == Spec => []TypeOK
<1>1. Inductive => TypeOK
  BY DEF Inductive
<1> QED
  BY <1>1, SearchInvariant, PTL

\* Where nodes do not lag, a history called complete is the whole history of
\* its window, for every page limit and every cut of the ledger into pages.
THEOREM CompleteHistoryIsTotalAlways ==
    ASSUME FreshNodes
    PROVE  Spec => []CompleteHistoryIsTotal
<1>1. Inductive => CompleteHistoryIsTotal
  BY DEF Inductive
<1> QED
  BY <1>1, SearchInvariant, PTL

\* With any nodes, a match that is reported is a trade of that route in its own
\* window.
THEOREM FoundIsRealAlways == Spec => []FoundIsReal
<1>1. Init => FoundIsReal
  BY DEF Init, FoundIsReal
<1>2. Inductive /\ FoundIsReal /\ [Next]_vars => FoundIsReal'
  <2> SUFFICES ASSUME Inductive, FoundIsReal, [Next]_vars, NEW r \in Routes,
                      verdict'[r] = "atomic_route_amounts_unresolved"
               PROVE  TradedIn(r, ledger')
    BY DEF FoundIsReal
  <2>1. ledger' = ledger
    BY DEF Next, vars, Maturity, Poll, PollFails, Deadline, Acquire, GetSlot, GetSlotFails,
           TipTooLow, ReadPage, PageFails, Fetch, Analyze, WriteFails
  <2>2. CASE Analyze
    BY <2>1, <2>2, MatchedStatusIsReal DEF Analyze, Inductive
  <2>3. CASE Deadline
    BY <2>3 DEF Deadline
  <2>4. CASE verdict' = verdict
    BY <2>1, <2>4 DEF FoundIsReal
  <2> QED
    BY <2>2, <2>3, <2>4 DEF Next, vars, Maturity, Poll, PollFails, Acquire, GetSlot,
       GetSlotFails, TipTooLow, ReadPage, PageFails, Fetch, WriteFails
<1> QED
  BY <1>1, <1>2, SearchInvariant, PTL DEF Spec

\* Where nodes do not lag, the search implements ForensicsOracle: the initial
\* states map to initial states, and every step to a step or a stutter.
THEOREM SearchImplementsOracle ==
    ASSUME FreshNodes
    PROVE  Spec => ImplementsOracle
<1>1. Init => Oracle!Init
  BY SamePlan DEF Init, Oracle!Init
<1>2. Inductive /\ [Next]_vars => [Oracle!Next]_(Oracle!oracleVars)
  <2> SUFFICES ASSUME Inductive, [Next]_vars
               PROVE  [Oracle!Next]_(Oracle!oracleVars)
    OBVIOUS
  <2>1. ledger' = ledger
    BY DEF Next, vars, Maturity, Poll, PollFails, Deadline, Acquire, GetSlot, GetSlotFails,
           TipTooLow, ReadPage, PageFails, Fetch, Analyze, WriteFails
  <2>2. CASE UNCHANGED <<verdict, outcome>>
    BY <2>1, <2>2 DEF Oracle!oracleVars
  <2>3. CASE Deadline
    BY <2>1, <2>3 DEF Deadline, Inductive, RunIsOrdered, Oracle!Next, Oracle!NotMature
  <2>4. CASE WriteFails
    BY <2>1, <2>4 DEF WriteFails, Inductive, RunIsOrdered, Oracle!Next, Oracle!NoArtifact
  <2>5. CASE Analyze
    <3>1. outcome = "running"
      BY <2>5 DEF Analyze, Inductive, RunIsOrdered
    <3>2. verdict' = [r \in Routes |-> Status(r)]
      BY <2>5 DEF Analyze
    <3>3. \A r \in Routes : Status(r) \in Oracle!Statuses
      BY DEF Status, Oracle!Statuses
    <3>4. ASSUME NEW r \in Routes PROVE Oracle!Truthful(r, Status(r))
      <4>1. TypeOK /\ SeenIsInLedger /\ CompleteHistoryIsTotal
        BY DEF Inductive
      <4>2. Status(r) = "no_atomic_match_complete" => ~ TradedIn(r, ledger)
        BY <4>1, NoMatchStatusIsReal
      <4>3. Status(r) = "atomic_route_amounts_unresolved" => TradedIn(r, ledger)
        BY <4>1, MatchedStatusIsReal
      <4> QED
        BY <4>2, <4>3, SamePlan DEF Oracle!Truthful
    <3>5. outcome' = IF \E r \in Routes : verdict'[r] = "search_incomplete"
                     THEN "failed" ELSE "passed"
      BY <2>5, <3>2, FailsIffIncomplete DEF Analyze, Inductive
    <3>6. verdict' \in [Routes -> Oracle!Statuses]
      BY <3>2, <3>3
    <3>7. \A r \in Routes : Oracle!Truthful(r, verdict'[r])
      BY <3>2, <3>4
    <3> QED
      BY <2>1, <3>1, <3>5, <3>6, <3>7 DEF Oracle!Next, Oracle!Conclude
  <2> QED
    BY <2>2, <2>3, <2>4, <2>5 DEF Next, vars, Maturity, Poll, PollFails, Acquire, GetSlot,
       GetSlotFails, TipTooLow, ReadPage, PageFails, Fetch
<1> QED
  BY <1>1, <1>2, SearchInvariant, PTL DEF Spec, ImplementsOracle, Oracle!Spec
-----------------------------------------------------------------------------
(***************************************************************************)
(* Why a search is incomplete, where nodes do not lag                      *)
(***************************************************************************)
\* The tip that histories are read up to is not older than the mature one, and
\* none is read before it is known.
TipIsMature ==
    /\ phase \in {"maturity", "slot"} => unread = {}
    /\ phase = "slot" => Mature(newest)
    /\ Reading => Mature(confirmedTip)

\* Every page but the last is full, and each lies below the one before.
PagesAreFull ==
    /\ Cardinality(page.seen) = PageLimit * page.count
    /\ \A i \in page.seen : page.before <= i

\* A history that was given up, and a transaction that was not fetched, have a
\* cause that outlives the step.
ClosedHaveCause ==
    phase \in {"history", "analysis"} =>
        faults \/ \A a \in Pools \ unread : histories[a].complete \/ Saturates(a)

FetchedHaveCause ==
    phase = "analysis" =>
        unread = {} /\ (faults \/ CapIsExceeded \/ fetched = Required)

CauseInductive ==
    /\ TipIsMature
    /\ PagesAreFull
    /\ ClosedHaveCause
    /\ FetchedHaveCause
    /\ IncompleteHasCause

LEMMA LedgerIndexes ==
    ASSUME TypeOK
    PROVE  DOMAIN ledger \subseteq Nat
<1>1. ledger \in Ledgers
  BY DEF TypeOK
<1>2. DOMAIN ledger \subseteq 1..MaxLedger
  BY <1>1, LedgerFacts
<1> QED
  BY <1>2

LEMMA SubsetsOfLedger ==
    ASSUME TypeOK, NEW S \in SUBSET DOMAIN ledger
    PROVE  IsFiniteSet(S) /\ Cardinality(S) \in Nat
<1>1. IsFiniteSet(1..MaxLedger)
  BY FS_Interval
<1>2. S \subseteq 1..MaxLedger
  BY LedgerFacts DEF TypeOK
<1> QED
  BY <1>1, <1>2, FS_Subset, FS_CardinalityType

\* A page that does not end the reading is full and lies above the start of the
\* window.
LEMMA FullPage ==
    ASSUME TypeOK, NEW a, NEW tip \in 0..MaxSlot, NEW before,
           NEW p \in PagesOf(a, tip, before), ~ Complete(a, p)
    PROVE  /\ Cardinality(p) = PageLimit
           /\ \A i \in p : IsOldest(p, i) => AtUnionStart(a, ledger[i].slot)
BY DEF PagesOf, Complete

\* The pages read so far and the next one have no signature twice.
LEMMA PagesAddUp ==
    ASSUME TypeOK, SeenIsInLedger, PagesAreFull, NEW a, NEW tip \in 0..MaxSlot,
           NEW p \in PagesOf(a, tip, page.before), ~ Complete(a, p)
    PROVE  Cardinality(page.seen \cup p) = PageLimit * (page.count + 1)
<1>1. p \subseteq DOMAIN ledger /\ page.seen \subseteq DOMAIN ledger
  BY PageFacts DEF SeenIsInLedger
<1>2. /\ IsFiniteSet(p) /\ IsFiniteSet(page.seen)
  BY <1>1, SubsetsOfLedger
<1>3. p \cap page.seen = {}
  <2>1. \A i \in p : i < page.before
    BY PageFacts
  <2>3. \A i \in p : i \in Int
    BY <1>1, LedgerIndexes
  <2>2. \A i \in page.seen : page.before <= i /\ page.before \in Int
    BY DEF PagesAreFull, TypeOK, Positions
  <2> QED
    BY <2>1, <2>2, <2>3
<1>4. Cardinality(page.seen \cup p) = Cardinality(page.seen) + Cardinality(p) - 0
  BY <1>2, <1>3, FS_Union, FS_EmptySet
<1>5. Cardinality(page.seen) = PageLimit * page.count /\ Cardinality(p) = PageLimit
  BY FullPage DEF PagesAreFull
<1>6. page.count \in Nat
  BY DEF TypeOK
<1>7. PageLimit * (page.count + 1) = PageLimit * page.count + PageLimit
      /\ PageLimit * page.count \in Nat
  BY <1>6, Z3
<1> QED
  BY <1>4, <1>5, <1>7

\* So a reading that was given up had as many pages as there may be.
LEMMA GivenUpIsSaturated ==
    ASSUME TypeOK, SeenIsInLedger, PagesAreFull, Reading, NEW tip \in 0..MaxSlot,
           NEW p \in PagesOf(Current, tip, page.before), ~ Complete(Current, p), LastPage
    PROVE  Saturates(Current)
<1> DEFINE a == Current
           seen == page.seen \cup p
           all == {i \in DOMAIN ledger :
                      a \in ledger[i].kind.touches /\ AtUnionStart(a, ledger[i].slot)}
<1>1. p \subseteq DOMAIN ledger /\ page.seen \subseteq DOMAIN ledger
      /\ \A i \in seen : a \in ledger[i].kind.touches
  BY PageFacts DEF SeenIsInLedger
<1>2. Cardinality(p) = PageLimit /\ Cardinality(seen) = PageLimit * MaxPages
  BY FullPage, PagesAddUp DEF LastPage
<1>3. p \in SUBSET Nat /\ p # {}
  <2>1. p # {}
    BY <1>2, FS_EmptySet
  <2> QED
    BY <1>1, <2>1, LedgerIndexes
<1>4. PICK o \in p : \A j \in p : o <= j
  BY <1>3, LeastElement
<1>5. PICK r \in Asking(a) : StartSlot(r) <= ledger[o].slot
  BY <1>4, FullPage DEF IsOldest, AtUnionStart
<1>6. ASSUME NEW i \in seen PROVE AtUnionStart(a, ledger[i].slot)
  <2>1. o <= i /\ i \in DOMAIN ledger /\ o \in DOMAIN ledger
    <3>1. i \in Int /\ o \in Int /\ page.before \in Int /\ i \in DOMAIN ledger
          /\ o \in DOMAIN ledger
      BY <1>1, LedgerFacts DEF TypeOK, Positions
    <3>2. CASE i \in p
      BY <1>4, <3>1, <3>2
    <3>3. CASE i \in page.seen
      <4>1. page.before <= i /\ o < page.before
        BY <3>3, PageFacts DEF PagesAreFull
      <4> QED
        BY <3>1, <4>1
    <3> QED
      BY <3>2, <3>3
  <2>2. ledger[o].slot \in Int /\ ledger[i].slot \in Int /\ StartSlot(r) \in Int
    BY <2>1, LedgerFacts, WindowFacts DEF TypeOK, Slots, Asking
  <2>3. ledger[o].slot <= ledger[i].slot
    <3>1. o \in Int /\ i \in Int
      BY <2>1, LedgerFacts DEF TypeOK
    <3>2. CASE o = i
      BY <2>2, <3>2
    <3>3. CASE o # i
      <4>1. o < i
        BY <2>1, <3>1, <3>3
      <4>2. ledger \in Ledgers
        BY DEF TypeOK
      <4> QED
        BY <2>1, <4>1, <4>2, LedgerFacts
    <3> QED
      BY <3>2, <3>3
  <2> QED
    BY <1>5, <2>2, <2>3 DEF AtUnionStart
<1>7. seen \in SUBSET all /\ all \in SUBSET DOMAIN ledger
  BY <1>1, <1>6
<1> HIDE DEF seen, all
<1>8. Cardinality(seen) <= Cardinality(all) /\ Cardinality(all) \in Nat
  BY <1>7, SubsetsOfLedger, FS_Subset
<1>9. PageLimit * MaxPages \in Nat
  BY Z3
<1>10. Cardinality(all) >= PageLimit * MaxPages
  BY <1>2, <1>8, <1>9
<1> QED
  BY <1>10 DEF Saturates, all

LEMMA TipIsMatureStep ==
    ASSUME TypeOK, FreshNodes, TipIsMature, [Next]_vars
    PROVE  TipIsMature'
<1>1. ASSUME NEW low \in 0..MaxSlot, NEW high \in 0..MaxSlot, low <= high, Mature(low)
      PROVE  Mature(high)
  <2> SUFFICES ASSUME NEW r \in Routes PROVE EndSlot(r) <= high
    BY DEF Mature
  <2>1. EndSlot(r) <= low /\ EndSlot(r) \in Nat
    BY <1>1, WindowFacts DEF Mature
  <2> QED
    BY <1>1, <2>1
<1>2. CASE UNCHANGED vars
  BY <1>2 DEF vars, TipIsMature, Reading
<1>3. ASSUME NEW tip \in 0..MaxSlot, Poll(tip) PROVE TipIsMature'
  <2>1. newest' = tip
    BY <1>3 DEF Poll, Answers, TypeOK
  <2> QED
    BY <1>3, <2>1 DEF Poll, TipIsMature, Reading
<1>4. ASSUME NEW tip \in 0..MaxSlot, GetSlot(tip) PROVE TipIsMature'
  <2>1. newest \in 0..MaxSlot /\ newest <= tip /\ Mature(newest)
    BY <1>4 DEF GetSlot, Answers, TypeOK, TipIsMature
  <2>2. Mature(tip)
    BY <1>1, <2>1
  <2> QED
    BY <1>4, <2>2 DEF GetSlot, TipIsMature, Reading
<1>5. ASSUME UNCHANGED <<phase, confirmedTip>>, phase = "history",
             unread' \subseteq unread
      PROVE  TipIsMature'
  BY <1>5 DEF TipIsMature, Reading
<1>6. ASSUME NEW tip \in 0..MaxSlot, ReadPage(tip) PROVE TipIsMature'
  <2>1. unread' \subseteq unread
    BY <1>6 DEF ReadPage, Close
  <2> QED
    BY <1>5, <1>6, <2>1 DEF ReadPage, Reading
<1>7. CASE TipTooLow \/ PageFails
  BY <1>5, <1>7 DEF TipTooLow, PageFails, Close, Reading
<1>8. CASE GetSlotFails
  BY <1>8 DEF GetSlotFails, TipIsMature, Reading
<1>9. ASSUME phase' \notin {"maturity", "slot", "history"} PROVE TipIsMature'
  BY <1>9 DEF TipIsMature, Reading
<1>10. CASE PollFails
  BY <1>10 DEF PollFails, TipIsMature, Reading
<1> QED
  BY <1>2, <1>3, <1>4, <1>6, <1>7, <1>8, <1>9, <1>10
     DEF Next, Maturity, Deadline, Acquire, Fetch, Analyze, WriteFails

LEMMA PagesAreFullStep ==
    ASSUME TypeOK, SeenIsInLedger, PagesAreFull, [Next]_vars
    PROVE  PagesAreFull'
<1>1. CASE page' = page
  BY <1>1 DEF PagesAreFull
<1>2. CASE page' = FirstPage
  BY <1>2, FS_EmptySet, Z3 DEF PagesAreFull, FirstPage
<1>3. ASSUME NEW tip \in 0..MaxSlot, ReadPage(tip), page' # FirstPage
      PROVE  PagesAreFull'
  <2>1. PICK p \in PagesOf(Current, tip, page.before) :
            /\ ~ Complete(Current, p)
            /\ \E i \in p :
                  /\ IsOldest(p, i)
                  /\ page' = [before |-> i, seen |-> page.seen \cup p, count |-> page.count + 1]
    BY <1>3 DEF ReadPage, Close
  <2>2. PICK o \in p : /\ IsOldest(p, o)
                       /\ page' = [before |-> o, seen |-> page.seen \cup p,
                                   count |-> page.count + 1]
    BY <2>1
  <2>3. Cardinality(page.seen \cup p) = PageLimit * (page.count + 1)
    BY <2>1, PagesAddUp
  <2>4. ASSUME NEW i \in page.seen \cup p PROVE o <= i
    <3>1. CASE i \in p
      BY <2>2, <3>1 DEF IsOldest
    <3>2. CASE i \in page.seen
      <4>1. page.before <= i /\ o < page.before
        BY <2>2, <3>2, PageFacts DEF PagesAreFull
      <4>2. o \in Nat /\ i \in Nat /\ page.before \in Int
        <5>1. p \subseteq DOMAIN ledger /\ page.seen \subseteq DOMAIN ledger
          BY PageFacts DEF SeenIsInLedger
        <5>2. page.before \in Int
          BY DEF TypeOK, Positions
        <5> QED
          BY <2>2, <3>2, <5>1, <5>2, LedgerIndexes
      <4> QED
        BY <4>1, <4>2
    <3> QED
      BY <2>4, <3>1, <3>2
  <2> QED
    BY <2>2, <2>3, <2>4 DEF PagesAreFull
<1> QED
  BY <1>1, <1>2, <1>3 DEF Next, vars, Maturity, Poll, PollFails, Deadline, Acquire, GetSlot,
     GetSlotFails, TipTooLow, PageFails, Close, Fetch, Analyze, WriteFails

\* Where the tip is mature a history is given up only by a fault or the bound.
LEMMA ClosedStep ==
    ASSUME TypeOK, SeenIsInLedger, RunIsOrdered, TipIsMature, PagesAreFull, ClosedHaveCause,
           [Next]_vars
    PROVE  ClosedHaveCause'
<1>0. ledger' = ledger
  BY DEF Next, vars, Maturity, Poll, PollFails, Deadline, Acquire, GetSlot, GetSlotFails,
         TipTooLow, ReadPage, PageFails, Fetch, Analyze, WriteFails
<1>1. \A a \in Pools : Saturates(a) => Saturates(a)'
  BY <1>0 DEF Saturates
<1>2. ASSUME UNCHANGED <<unread, histories>>, faults => faults',
             phase' \in {"history", "analysis"} => phase \in {"history", "analysis"}
      PROVE  ClosedHaveCause'
  BY <1>1, <1>2 DEF ClosedHaveCause
<1>3. ASSUME phase' \notin {"history", "analysis"} \/ faults' PROVE ClosedHaveCause'
  BY <1>3 DEF ClosedHaveCause
<1>4. ASSUME NEW tip \in 0..MaxSlot, GetSlot(tip) PROVE ClosedHaveCause'
  BY <1>4 DEF GetSlot, ClosedHaveCause
<1>5. CASE TipTooLow
  <2>1. Mature(confirmedTip) /\ TooLow(Current)
    BY <1>5 DEF TipTooLow, TipIsMature
  <2> QED
    BY <2>1 DEF TooLow, UnionEnds, Asking, Mature
<1>6. ASSUME NEW tip \in 0..MaxSlot, ReadPage(tip) PROVE ClosedHaveCause'
  <2>1. Reading /\ faults' = faults /\ phase' = phase /\ phase = "history"
    BY <1>6 DEF ReadPage, Reading
  <2>2. PICK p \in PagesOf(Current, tip, page.before) :
            \/ Close([seen |-> Retained(Current, page.seen \cup p), complete |-> TRUE])
            \/ /\ ~ Complete(Current, p)
               /\ LastPage
               /\ Close([seen |-> Retained(Current, page.seen \cup p), complete |-> FALSE])
            \/ UNCHANGED <<histories, unread>>
    BY <1>6 DEF ReadPage
  <2>3. ASSUME NEW history, Close(history), history.complete \/ Saturates(Current)
        PROVE  ClosedHaveCause'
    <3> SUFFICES ASSUME ~ faults, NEW a \in Pools \ unread'
                 PROVE  histories'[a].complete \/ Saturates(a)'
      BY <2>1 DEF ClosedHaveCause
    <3>1. CASE a = Current
      <4>1. histories'[a] = history
        BY <2>3, <3>1 DEF Close, TypeOK
      <4> QED
        BY <1>1, <2>3, <3>1, <4>1
    <3>2. CASE a # Current
      <4>1. a \in Pools \ unread /\ histories'[a] = histories[a]
        BY <2>3, <3>2 DEF Close, TypeOK
      <4> QED
        BY <1>1, <2>1, <4>1 DEF ClosedHaveCause
    <3> QED
      BY <3>1, <3>2
  <2>4. CASE UNCHANGED <<histories, unread>>
    BY <1>2, <2>1, <2>4
  <2>5. CASE Close([seen |-> Retained(Current, page.seen \cup p), complete |-> TRUE])
    BY <2>3, <2>5
  <2>6. CASE /\ ~ Complete(Current, p)
             /\ LastPage
             /\ Close([seen |-> Retained(Current, page.seen \cup p), complete |-> FALSE])
    <3>1. Saturates(Current)
      BY <2>1, <2>6, GivenUpIsSaturated
    <3> QED
      BY <2>3, <2>6, <3>1
  <2> QED
    BY <2>2, <2>4, <2>5, <2>6
<1>7. ASSUME NEW got \in SUBSET Required, Fetch(got) PROVE ClosedHaveCause'
  BY <1>2, <1>7 DEF Fetch
<1>8. CASE UNCHANGED vars
  BY <1>2, <1>8 DEF vars
<1> QED
  BY <1>3, <1>4, <1>5, <1>6, <1>7, <1>8 DEF Next, Maturity, Poll, PollFails, Deadline, Acquire,
     GetSlotFails, PageFails, Analyze, WriteFails

\* More than the cap is required only if the ledger holds more.
LEMMA RequiredExceedsCap ==
    ASSUME TypeOK, SeenIsInLedger, CompleteHistoryIsTotal, Cardinality(Required) > MaxFetches
    PROVE  CapIsExceeded
<1> DEFINE all == {i \in DOMAIN ledger :
                      \E r \in Routes : /\ LegPools(r) \subseteq ledger[i].kind.touches
                                        /\ InWindow(r, ledger[i].slot)}
<1>1. ASSUME NEW r \in Routes, NEW i \in Intersection(r) PROVE i \in all
  <2>1. HistoriesComplete(r) /\ \A a \in LegPools(r) : i \in Observed(r, a)
    BY <1>1 DEF Intersection, LegPools
  <2>2. ASSUME NEW a \in LegPools(r) PROVE a \in ledger[i].kind.touches /\ i \in DOMAIN ledger
    <3>1. a \in Pools /\ histories[a].complete /\ i \in histories[a].seen
      BY <2>1, <2>2, WindowFacts DEF HistoriesComplete, Observed, LegPools
    <3> QED
      BY <3>1 DEF CompleteHistoryIsTotal, InHistory
  <2>3. InWindow(r, ledger[i].slot) /\ i \in DOMAIN ledger
    BY <2>1, <2>2 DEF Observed, LegPools
  <2> QED
    BY <2>2, <2>3
<1>2. Required \in SUBSET all /\ all \in SUBSET DOMAIN ledger
  BY <1>1 DEF Required
<1> HIDE DEF all
<1>3. Cardinality(Required) <= Cardinality(all) /\ Cardinality(all) \in Nat
      /\ Cardinality(Required) \in Nat
  BY <1>2, SubsetsOfLedger, FS_Subset
<1>4. Cardinality(all) > MaxFetches
  BY <1>3
<1> QED
  BY <1>4 DEF CapIsExceeded, all

LEMMA FetchedStep ==
    ASSUME TypeOK, SeenIsInLedger, CompleteHistoryIsTotal, FetchedHaveCause, [Next]_vars
    PROVE  FetchedHaveCause'
<1>1. CASE UNCHANGED vars
  BY <1>1 DEF vars, FetchedHaveCause, CapIsExceeded, Required, Intersection, HistoriesComplete,
              Observed
<1>2. ASSUME NEW got \in SUBSET Required, Fetch(got) PROVE FetchedHaveCause'
  <2>1. UNCHANGED <<ledger, histories, unread>> /\ unread = {}
    BY <1>2 DEF Fetch
  <2>2. Required' = Required /\ (CapIsExceeded => CapIsExceeded')
    BY <2>1 DEF CapIsExceeded, Required, Intersection, HistoriesComplete, Observed
  <2>3. CASE Cardinality(Required) > MaxFetches
    <3>1. Cardinality(Required) \in Nat
      <4>1. Required \in SUBSET DOMAIN ledger
        BY WindowFacts DEF Required, Intersection, Observed, SeenIsInLedger
      <4> QED
        BY <4>1, SubsetsOfLedger
    <3>2. CapIsExceeded
      BY <2>3, <3>1, RequiredExceedsCap
    <3> QED
      BY <2>1, <2>2, <3>2 DEF FetchedHaveCause
  <2>4. CASE ~ (Cardinality(Required) > MaxFetches)
    <3>1. fetched' = got /\ faults' = (faults \/ got # Required)
      BY <1>2, <2>4 DEF Fetch
    <3> QED
      BY <2>1, <2>2, <3>1 DEF FetchedHaveCause
  <2> QED
    BY <2>3, <2>4
<1>3. ASSUME phase' # "analysis" PROVE FetchedHaveCause'
  BY <1>3 DEF FetchedHaveCause
<1> QED
  BY <1>1, <1>2, <1>3 DEF Next, Maturity, Poll, PollFails, Deadline, Acquire, GetSlot, GetSlotFails,
     TipTooLow, ReadPage, PageFails, Reading, Analyze, WriteFails

CauseFor(r) ==
    \/ faults
    \/ \E a \in LegPools(r) : Saturates(a)
    \/ CapIsExceeded
    \/ \E i \in DOMAIN ledger :
          InWindow(r, ledger[i].slot) /\ Match(r, ledger[i].kind) = "unresolved"

\* What is undecided when the verdicts are given has one of the causes.
LEMMA UndecidedHasCause ==
    ASSUME TypeOK, SeenIsInLedger, ClosedHaveCause, FetchedHaveCause, phase = "analysis",
           NEW r \in Routes, Status(r) = "search_incomplete"
    PROVE  CauseFor(r)
<1>1. ~ HistoriesComplete(r) \/ Undecided(r)
  BY DEF Status
<1>2. unread = {} /\ (faults \/ CapIsExceeded \/ fetched = Required)
  BY DEF FetchedHaveCause
<1>3. CASE ~ HistoriesComplete(r)
  <2>1. PICK a \in LegPools(r) : ~ histories[a].complete
    BY <1>3 DEF HistoriesComplete
  <2>2. a \in Pools \ unread
    BY <1>2, WindowFacts DEF LegPools
  <2> QED
    BY <2>1, <2>2 DEF ClosedHaveCause, CauseFor
<1>4. CASE Undecided(r)
  <2>1. PICK i \in Intersection(r) : i \notin fetched \/ Match(r, ledger[i].kind) = "unresolved"
    BY <1>4 DEF Undecided
  <2>2. CASE i \notin fetched
    BY <1>2, <2>2 DEF Required, CauseFor
  <2>3. CASE Match(r, ledger[i].kind) = "unresolved"
    <3>1. i \in DOMAIN ledger /\ InWindow(r, ledger[i].slot)
      BY WindowFacts DEF Intersection, Observed, SeenIsInLedger
    <3> QED
      BY <2>3, <3>1 DEF CauseFor
  <2> QED
    BY <2>1, <2>2, <2>3
<1> QED
  BY <1>1, <1>3, <1>4

LEMMA CauseStep ==
    ASSUME TypeOK, SeenIsInLedger, ClosedHaveCause, FetchedHaveCause, IncompleteHasCause,
           [Next]_vars
    PROVE  IncompleteHasCause'
<1>0. ledger' = ledger
  BY DEF Next, vars, Maturity, Poll, PollFails, Deadline, Acquire, GetSlot, GetSlotFails,
         TipTooLow, ReadPage, PageFails, Fetch, Analyze, WriteFails
<1>1. ledger' = ledger /\ (faults => faults')
  <2>1. ASSUME NEW got, Fetch(got), faults PROVE faults'
    BY <2>1 DEF Fetch
  <2>2. CASE UNCHANGED faults
    BY <1>0, <2>2
  <2>3. CASE faults'
    BY <1>0, <2>3
  <2> QED
    BY <1>0, <2>1, <2>2, <2>3 DEF Next, vars, Maturity, Poll, PollFails, Deadline, Acquire,
       GetSlot, GetSlotFails, TipTooLow, ReadPage, PageFails, Analyze, WriteFails
<1>2. \A r \in Routes : CauseFor(r) => CauseFor(r)'
  BY <1>1 DEF CauseFor, Saturates, CapIsExceeded
<1>3. (\A r \in Routes : verdict'[r] = "search_incomplete" => CauseFor(r)') => IncompleteHasCause'
  BY DEF IncompleteHasCause, CauseFor
<1>4. CASE Analyze
  <2>1. ASSUME NEW r \in Routes, verdict'[r] = "search_incomplete" PROVE CauseFor(r)
    BY <1>4, <2>1, UndecidedHasCause DEF Analyze
  <2> QED
    BY <1>2, <1>3, <2>1
<1>5. CASE Deadline
  BY <1>3, <1>5 DEF Deadline
<1>6. CASE verdict' = verdict
  BY <1>2, <1>3, <1>6 DEF IncompleteHasCause, CauseFor
<1> QED
  BY <1>4, <1>5, <1>6 DEF Next, vars, Maturity, Poll, PollFails, Acquire, GetSlot, GetSlotFails,
     TipTooLow, ReadPage, PageFails, Fetch, WriteFails

\* Where nodes do not lag, a route is left undecided only if a request failed, a
\* bound was reached, or a transaction in its window cannot be decided.
THEOREM IncompleteHasCauseAlways ==
    ASSUME FreshNodes
    PROVE  Spec => []IncompleteHasCause
<1>1. Init => CauseInductive
  <2> SUFFICES ASSUME Init PROVE CauseInductive
    OBVIOUS
  <2>1. PagesAreFull
    BY FS_EmptySet, Z3 DEF Init, PagesAreFull, FirstPage
  <2> QED
    BY <2>1 DEF Init, CauseInductive, TipIsMature, Reading, ClosedHaveCause, FetchedHaveCause,
                IncompleteHasCause
<1>2. Inductive /\ CauseInductive /\ [Next]_vars => CauseInductive'
  <2> SUFFICES ASSUME Inductive, CauseInductive, [Next]_vars PROVE CauseInductive'
    OBVIOUS
  <2>1. /\ TypeOK /\ SeenIsInLedger /\ RunIsOrdered /\ CompleteHistoryIsTotal
        /\ TipIsMature /\ PagesAreFull /\ ClosedHaveCause /\ FetchedHaveCause
        /\ IncompleteHasCause
    BY DEF Inductive, CauseInductive
  <2> QED
    BY <2>1, TipIsMatureStep, PagesAreFullStep, ClosedStep, FetchedStep, CauseStep
       DEF CauseInductive
<1>3. CauseInductive => IncompleteHasCause
  BY DEF CauseInductive
<1> QED
  BY <1>1, <1>2, <1>3, SearchInvariant, PTL DEF Spec
=============================================================================
