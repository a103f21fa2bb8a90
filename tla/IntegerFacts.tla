---------------------------- MODULE IntegerFacts ----------------------------
(***************************************************************************)
(* Facts about numbers that the proofs cite by name: products, quotients,  *)
(* induction, powers of ten, joined sequences, and what PowersOfTen and    *)
(* Orderings define.                                                       *)
(***************************************************************************)
EXTENDS PowersOfTen, Orderings, FiniteSetTheorems, WellFoundedInduction, TLAPS

\* Division rounds down: the quotient is the last multiple not above.
LEMMA DivBounds ==
    ASSUME NEW n \in Nat, NEW d \in Nat \ {0}
    PROVE  n \div d \in Nat /\ d * (n \div d) <= n /\ n < d * (n \div d) + d
BY Z3

LEMMA ProductIsNat == \A a, b \in Nat : a * b \in Nat
BY Z3

LEMMA Commutes == \A a, b \in Int : a * b = b * a
BY Z3

LEMMA Distributes == \A a, b, c \in Int : (a + b) * c = a * c + b * c
BY Z3

LEMMA ProductIsMonotone == \A a, b, c \in Nat : a <= b => a * c <= b * c
BY Z3

LEMMA ProductIsStrict == \A a, b, c, d \in Nat \ {0} : a <= b /\ c < d => a * c < b * d
BY Z3

LEMMA Cancels == \A a, b \in Int, d \in Nat \ {0} : a * d < b * d => a < b
BY Z3

\* ... also of a negative dividend.
LEMMA FloorBounds ==
    ASSUME NEW n \in Int, NEW d \in Nat \ {0}
    PROVE  n \div d \in Int /\ d * (n \div d) <= n /\ n < d * (n \div d) + d
BY Z3

LessThan == {pair \in Nat \X Nat : pair[1] < pair[2]}

\* Every set of natural numbers has a least element, if it has any.
LEMMA LeastElement ==
    ASSUME NEW T \in SUBSET Nat, T # {}
    PROVE  \E x \in T : \A y \in T : x <= y
<1>1. IsWellFoundedOn(LessThan, Nat)
    BY NatLessThanWellFounded DEF LessThan, OpToRel
<1>2. PICK x \in T : \A y \in T : <<y, x>> \notin LessThan
    BY <1>1, WFMin
<1>3. ASSUME NEW y \in T PROVE x <= y
    <2>1. x \in Nat /\ y \in Nat /\ <<y, x>> \in Nat \X Nat
        OBVIOUS
    <2>2. ~ (y < x)
        BY <1>2, <2>1 DEF LessThan
    <2> QED
        BY <2>1, <2>2
<1> QED
    BY <1>3

LEMMA Induction ==
    ASSUME NEW T \in SUBSET Nat, 0 \in T, \A n \in T : n + 1 \in T
    PROVE  T = Nat
<1> SUFFICES ASSUME T # Nat PROVE FALSE
    OBVIOUS
<1>1. Nat \ T \in SUBSET Nat /\ Nat \ T # {}
    OBVIOUS
<1>2. PICK x \in Nat \ T : \A y \in Nat \ T : x <= y
    BY <1>1, LeastElement
<1>3. x # 0 /\ x - 1 \in Nat
    BY <1>2
<1>4. x - 1 \in T
    BY <1>2, <1>3
<1> QED
    BY <1>2, <1>3, <1>4

\* What makes the next value of the number of the one before and that one.
Rules(S) == [Nat \X S -> S]

\* The first n values of the function that a value and a rule for the next define.
Follows(S, base, step, n, g) ==
    /\ g \in [0 .. n -> S] /\ g[0] = base
    /\ \A k \in 0 .. n - 1 : g[k + 1] = step[<<k, g[k]>>]

FirstValues(S, base, step, n) == CHOOSE g : Follows(S, base, step, n, g)

LEMMA FollowingExtends ==
    ASSUME NEW S, NEW base \in S, NEW step \in Rules(S), NEW n \in Nat, NEW g,
           Follows(S, base, step, n, g)
    PROVE  \E h : Follows(S, base, step, n + 1, h)
<1> DEFINE h == [k \in 0 .. n + 1 |-> IF k = n + 1 THEN step[<<n, g[n]>>] ELSE g[k]]
<1>1. /\ g \in [0 .. n -> S] /\ g[0] = base /\ g[n] \in S
      /\ \A k \in 0 .. n - 1 : g[k + 1] = step[<<k, g[k]>>]
    BY DEF Follows
<1>2. <<n, g[n]>> \in Nat \X S
    BY <1>1
<1>3. step[<<n, g[n]>>] \in S
    BY <1>2 DEF Rules
<1>4. h \in [0 .. n + 1 -> S]
    BY <1>1, <1>3
<1>5. h[n + 1] = step[<<n, g[n]>>] /\ \A k \in 0 .. n : h[k] = g[k]
    OBVIOUS
<1> HIDE DEF h
<1>6. ASSUME NEW k \in 0 .. n PROVE h[k + 1] = step[<<k, h[k]>>]
    <2>1. CASE k = n
        BY <1>5, <2>1
    <2>2. CASE k # n
        <3>1. k \in 0 .. n - 1 /\ k + 1 \in 0 .. n
            BY <2>2
        <3> QED
            BY <1>1, <1>5, <3>1
    <2> QED
        BY <2>1, <2>2
<1>7. h[0] = base /\ (n + 1) - 1 = n
    BY <1>1, <1>5
<1> QED
    BY <1>4, <1>6, <1>7 DEF Follows

LEMMA FollowingAgrees ==
    ASSUME NEW S, NEW base \in S, NEW step \in Rules(S),
           NEW m \in Nat, NEW n \in Nat, m <= n, NEW g, NEW h,
           Follows(S, base, step, m, g), Follows(S, base, step, n, h)
    PROVE  g[m] = h[m]
<1> DEFINE Same == {k \in Nat : k <= m => g[k] = h[k]}
<1>1. 0 \in Same
    BY DEF Follows
<1>2. ASSUME NEW k \in Same PROVE k + 1 \in Same
    <2> SUFFICES ASSUME k + 1 <= m PROVE g[k + 1] = h[k + 1]
        OBVIOUS
    <2>1. k \in 0 .. m - 1 /\ k \in 0 .. n - 1 /\ g[k] = h[k]
        OBVIOUS
    <2> QED
        BY <2>1 DEF Follows
<1>3. Same = Nat
    BY <1>1, <1>2, Induction
<1> QED
    BY <1>3

Recurs(S, base, step, G) ==
    G \in [Nat -> S] /\ G[0] = base /\ \A n \in Nat : G[n + 1] = step[<<n, G[n]>>]

\* A value and a rule for the next one define a function on the numbers.
LEMMA Recursion ==
    ASSUME NEW S, NEW base \in S, NEW step \in Rules(S)
    PROVE  \E G : Recurs(S, base, step, G)
<1> DEFINE Known == {n \in Nat : \E g : Follows(S, base, step, n, g)}
           G == [n \in Nat |-> FirstValues(S, base, step, n)[n]]
<1>1. Known = Nat
    <2>1. 0 \in Known
        <3>1. Follows(S, base, step, 0, [k \in 0 .. 0 |-> base])
            BY DEF Follows
        <3> QED
            BY <3>1
    <2>2. ASSUME NEW n \in Known PROVE n + 1 \in Known
        BY FollowingExtends
    <2> QED
        BY <2>1, <2>2, Induction
<1>2. ASSUME NEW n \in Nat PROVE Follows(S, base, step, n, FirstValues(S, base, step, n))
    BY <1>1 DEF FirstValues
<1>3. ASSUME NEW n \in Nat, NEW h, Follows(S, base, step, n + 1, h)
      PROVE  G[n] = h[n]
    <2>1. n <= n + 1 /\ n + 1 \in Nat
        OBVIOUS
    <2> DEFINE g == FirstValues(S, base, step, n)
    <2>2. Follows(S, base, step, n, g)
        BY <1>2
    <2> HIDE DEF g
    <2>3. g[n] = h[n]
        BY <1>3, <2>1, <2>2, FollowingAgrees
    <2> QED
        BY <2>3 DEF g
<1>4. G \in [Nat -> S]
    <2>1. ASSUME NEW n \in Nat PROVE FirstValues(S, base, step, n)[n] \in S
        BY <1>2 DEF Follows
    <2> QED
        BY <2>1
<1>5. G[0] = base
    BY <1>2 DEF Follows
<1>6. ASSUME NEW n \in Nat PROVE G[n + 1] = step[<<n, G[n]>>]
    <2> DEFINE h == FirstValues(S, base, step, n + 1)
    <2>1. n + 1 \in Nat /\ n \in 0 .. (n + 1) - 1
        OBVIOUS
    <2>2. Follows(S, base, step, n + 1, h) /\ G[n + 1] = h[n + 1]
        BY <1>2, <2>1
    <2>3. G[n] = h[n]
        BY <1>3, <2>2
    <2>4. h[n + 1] = step[<<n, h[n]>>]
        BY <2>1, <2>2 DEF Follows
    <2> QED
        BY <2>2, <2>3, <2>4
<1> QED
    BY <1>4, <1>5, <1>6 DEF Recurs

(***************************************************************************)
(* Powers of ten                                                           *)
(***************************************************************************)
LEMMA PowerUnfolds ==
    /\ PowerOfTen \in [Nat -> Nat] /\ PowerOfTen[0] = 1
    /\ \A n \in Nat : PowerOfTen[n + 1] = 10 * PowerOfTen[n]
<1> DEFINE base == 1
           step == [x \in Nat \X Nat |-> 10 * x[2]]
<1>1. step \in Rules(Nat) /\ base \in Nat
    BY DEF Rules
<1> HIDE DEF base, step
<1>2. PICK G : Recurs(Nat, base, step, G)
    BY <1>1, Recursion
<1>3. /\ G \in [Nat -> Nat] /\ G[0] = 1
      /\ \A n \in Nat : G[n + 1] = 10 * G[n]
    BY <1>2 DEF Recurs, base, step
<1>4. ASSUME NEW n \in Nat PROVE G[n] = IF n = 0 THEN 1 ELSE 10 * G[n - 1]
    <2>1. CASE n = 0
        BY <1>3, <2>1
    <2>2. CASE n # 0
        <3>1. n - 1 \in Nat /\ (n - 1) + 1 = n
            BY <2>2
        <3> QED
            BY <1>3, <2>2, <3>1
    <2> QED
        BY <2>1, <2>2
<1>5. G = [n \in Nat |-> IF n = 0 THEN 1 ELSE 10 * G[n - 1]]
    BY <1>3, <1>4
<1>6. PowerOfTen = [n \in Nat |-> IF n = 0 THEN 1 ELSE 10 * PowerOfTen[n - 1]]
    BY <1>5 DEF PowerOfTen
<1>7. PowerOfTen[0] = 1 /\ \A n \in Nat : PowerOfTen[n + 1] = 10 * PowerOfTen[n]
    <2>1. \A n \in Nat : PowerOfTen[n] = IF n = 0 THEN 1 ELSE 10 * PowerOfTen[n - 1]
        BY <1>6, Zenon
    <2>2. ASSUME NEW n \in Nat PROVE PowerOfTen[n + 1] = 10 * PowerOfTen[n]
        <3>1. n + 1 \in Nat /\ n + 1 # 0 /\ (n + 1) - 1 = n
            OBVIOUS
        <3> QED
            BY <2>1, <3>1
    <2> QED
        BY <2>1, <2>2
<1> DEFINE T == {n \in Nat : PowerOfTen[n] \in Nat}
<1>8. T = Nat
    <2>1. 0 \in T /\ \A n \in T : n + 1 \in T
        BY <1>7
    <2> QED
        BY <2>1, Induction
<1>9. PowerOfTen \in [Nat -> Nat]
    BY <1>6, <1>8
<1> QED
    BY <1>7, <1>9

LEMMA PowerIsPositive == \A n \in Nat : PowerOfTen[n] \in Nat \ {0}
<1> DEFINE T == {n \in Nat : PowerOfTen[n] \in Nat \ {0}}
<1>1. 0 \in T /\ \A n \in T : n + 1 \in T
    BY PowerUnfolds
<1>2. T = Nat
    BY <1>1, Induction
<1> QED
    BY <1>2

LEMMA PowerAdds ==
    ASSUME NEW m \in Nat
    PROVE  \A n \in Nat : PowerOfTen[m + n] = PowerOfTen[m] * PowerOfTen[n]
<1> DEFINE T == {n \in Nat : PowerOfTen[m + n] = PowerOfTen[m] * PowerOfTen[n]}
<1>1. 0 \in T
    <2>1. PowerOfTen[m] \in Nat
        BY PowerIsPositive
    <2> QED
        BY <2>1, PowerUnfolds
<1>2. ASSUME NEW n \in T PROVE n + 1 \in T
    <2>1. /\ n \in Nat /\ PowerOfTen[m] \in Nat /\ PowerOfTen[n] \in Nat
          /\ m + (n + 1) = (m + n) + 1 /\ m + n \in Nat
        BY PowerIsPositive
    <2>2. PowerOfTen[m + (n + 1)] = 10 * (PowerOfTen[m] * PowerOfTen[n])
        BY <2>1, PowerUnfolds
    <2>3. PowerOfTen[n + 1] = 10 * PowerOfTen[n]
        BY <2>1, PowerUnfolds
    <2>4. \A a, b \in Nat : 10 * (a * b) = a * (10 * b)
        BY Z3
    <2> QED
        BY <2>1, <2>2, <2>3, <2>4
<1>3. T = Nat
    BY <1>1, <1>2, Induction
<1> QED
    BY <1>3

(***************************************************************************)
(* Orderings                                                               *)
(***************************************************************************)
\* Numbers with their weights in numbers.
Weighed(P, weight) ==
    P \subseteq Int /\ IsFiniteSet(P) /\ \A i \in P : weight[i] \in Int

LEMMA BeforeIsAnOrder ==
    ASSUME NEW P, NEW weight, Weighed(P, weight)
    PROVE  /\ \A i \in P : ~ Before(weight, i, i)
           /\ \A i, j \in P : i # j => Before(weight, i, j) \/ Before(weight, j, i)
           /\ \A i, j, k \in P : Before(weight, i, j) /\ Before(weight, j, k)
                                    => Before(weight, i, k)
<1>1. \A i \in P : i \in Int /\ weight[i] \in Int
    BY DEF Weighed
<1> QED
    BY <1>1 DEF Before

\* The rank is between one and the number of elements, and grows along the order.
LEMMA RankGrows ==
    ASSUME NEW P, NEW weight, Weighed(P, weight)
    PROVE  /\ Cardinality(P) \in Nat
           /\ \A i \in P : Rank(P, weight, i) \in 1 .. Cardinality(P)
           /\ \A i, j \in P : Before(weight, i, j) => Rank(P, weight, i) < Rank(P, weight, j)
<1> DEFINE Upto(i) == {j \in P : ~ Before(weight, i, j)}
<1>1. Cardinality(P) \in Nat /\ IsFiniteSet(P)
    BY FS_CardinalityType DEF Weighed
<1>2. ASSUME NEW i \in P
      PROVE  /\ Cardinality(Upto(i)) \in 1 .. Cardinality(P)
             /\ IsFiniteSet(Upto(i))
    <2> DEFINE U == Upto(i)
    <2>1. U \in SUBSET P /\ i \in U
        BY BeforeIsAnOrder
    <2> HIDE DEF U
    <2>2. IsFiniteSet(U) /\ Cardinality(U) <= Cardinality(P)
        BY <1>1, <2>1, FS_Subset
    <2>3. Cardinality(U) \in Nat /\ Cardinality(U) # 0
        BY <2>1, <2>2, FS_CardinalityType, FS_EmptySet
    <2>4. Cardinality(U) \in 1 .. Cardinality(P)
        BY <1>1, <2>2, <2>3
    <2> QED
        BY <2>2, <2>4 DEF U
<1>3. ASSUME NEW i \in P, NEW j \in P, Before(weight, i, j)
      PROVE  Cardinality(Upto(i)) < Cardinality(Upto(j))
    <2> DEFINE U == Upto(i)
               V == Upto(j)
    <2>1. U \in SUBSET V /\ j \in V /\ j \notin U
        <3>1. \A k \in P : ~ Before(weight, i, k) => ~ Before(weight, j, k)
            BY <1>3, BeforeIsAnOrder
        <3> QED
            BY <1>3, <3>1, BeforeIsAnOrder
    <2>2. /\ IsFiniteSet(U) /\ Cardinality(U) \in Nat
          /\ IsFiniteSet(V) /\ Cardinality(V) \in Nat
        BY <1>2
    <2> HIDE DEF U, V
    <2>3. Cardinality(U) <= Cardinality(V) /\ (Cardinality(V) = Cardinality(U) => V = U)
        BY <2>1, <2>2, FS_Subset
    <2>4. Cardinality(U) < Cardinality(V)
        BY <2>1, <2>2, <2>3
    <2> QED
        BY <2>4 DEF U, V
<1> QED
    BY <1>1, <1>2, <1>3 DEF Rank

\* Every rank is taken by exactly one number, ...
LEMMA RankIsTaken ==
    ASSUME NEW P, NEW weight, Weighed(P, weight)
    PROVE  \A k \in 1 .. Cardinality(P) : \E i \in P : Rank(P, weight, i) = k
<1> DEFINE f == [i \in P |-> Rank(P, weight, i)]
           n == Cardinality(P)
<1>1. n \in Nat /\ \A i \in P : f[i] \in 1 .. n
    BY RankGrows
<1>2. \A i, j \in P : i # j => f[i] # f[j]
    <2> SUFFICES ASSUME NEW i \in P, NEW j \in P, i # j PROVE f[i] # f[j]
        OBVIOUS
    <2>1. f[i] \in Int /\ f[j] \in Int
        BY <1>1
    <2>2. f[i] < f[j] \/ f[j] < f[i]
        BY RankGrows, BeforeIsAnOrder
    <2> QED
        BY <2>1, <2>2
<1>3. f \in [P -> 1 .. n]
    BY <1>1
<1>4. f \in Injection(P, 1 .. n)
    <2> HIDE DEF f
    <2> QED
        BY <1>2, <1>3 DEF Injection, IsInjective
<1>5. IsFiniteSet(1 .. n) /\ Cardinality(1 .. n) = n
    BY <1>1, FS_Interval
<1>6. f \in Surjection(P, 1 .. n)
    <2> HIDE DEF f
    <2>1. Cardinality(P) = Cardinality(1 .. n)
        BY <1>5
    <2> QED
        BY <1>4, <1>5, <2>1, FS_Injection
<1>7. \A k \in 1 .. n : \E i \in P : f[i] = k
    <2> HIDE DEF f, n
    <2> QED
        BY <1>6 DEF Surjection
<1> QED
    BY <1>7

\* ... so Ranked lists every number once, in order.
LEMMA RankedIsOrdered ==
    ASSUME NEW P, NEW weight, Weighed(P, weight)
    PROVE  LET s == Ranked(P, weight)
               n == Cardinality(P)
           IN  /\ n \in Nat /\ s \in [1 .. n -> P] /\ s \in Seq(P) /\ Len(s) = n
               /\ \A k \in 1 .. n : Rank(P, weight, s[k]) = k
               /\ \A i \in P : \E k \in 1 .. n : s[k] = i
               /\ \A j, k \in 1 .. n : j < k => Before(weight, s[j], s[k])
<1> DEFINE s == Ranked(P, weight)
           n == Cardinality(P)
<1>1. n \in Nat
    BY RankGrows
<1>2. \A k \in 1 .. n : s[k] \in P /\ Rank(P, weight, s[k]) = k
    BY RankIsTaken DEF Ranked
<1>3. s \in [1 .. n -> P]
    BY <1>2 DEF Ranked
<1>4. s \in Seq(P) /\ Len(s) = n
    <2> HIDE DEF s, n
    <2> QED
        BY <1>1, <1>3
<1> HIDE DEF s
<1>5. ASSUME NEW i \in P PROVE \E k \in 1 .. n : s[k] = i
    <2> DEFINE k == Rank(P, weight, i)
    <2>1. k \in 1 .. n
        BY RankGrows
    <2>2. s[k] \in P /\ Rank(P, weight, s[k]) = k
        BY <1>2, <2>1
    <2>3. s[k] = i
        <3> SUFFICES ASSUME s[k] # i PROVE FALSE
            OBVIOUS
        <3>1. Rank(P, weight, s[k]) < k \/ k < Rank(P, weight, s[k])
            BY <2>2, RankGrows, BeforeIsAnOrder
        <3> QED
            BY <1>1, <2>1, <2>2, <3>1
    <2> QED
        BY <2>1, <2>3
<1>6. ASSUME NEW j \in 1 .. n, NEW k \in 1 .. n, j < k
      PROVE  Before(weight, s[j], s[k])
    <2>1. /\ s[j] \in P /\ Rank(P, weight, s[j]) = j
          /\ s[k] \in P /\ Rank(P, weight, s[k]) = k
        BY <1>2
    <2>2. s[j] # s[k] /\ ~ (k < j)
        BY <1>1, <1>6, <2>1
    <2> QED
        BY <2>1, <2>2, RankGrows, BeforeIsAnOrder
<1> QED
    BY <1>1, <1>2, <1>3, <1>4, <1>5, <1>6 DEF s

LEMMA RankedIsTheOnly ==
    ASSUME NEW P, NEW weight, Weighed(P, weight), NEW s \in [1 .. Cardinality(P) -> P],
           \A k \in 1 .. Cardinality(P) : Rank(P, weight, s[k]) = k
    PROVE  s = Ranked(P, weight)
<1> DEFINE r == Ranked(P, weight)
           n == Cardinality(P)
<1>1. n \in Nat /\ r \in [1 .. n -> P] /\ \A k \in 1 .. n : Rank(P, weight, r[k]) = k
    BY RankedIsOrdered
<1> HIDE DEF r
<1>2. ASSUME NEW k \in 1 .. n PROVE s[k] = r[k]
    <2>1. s[k] \in P /\ r[k] \in P /\ Rank(P, weight, s[k]) = k /\ Rank(P, weight, r[k]) = k
        BY <1>1
    <2>2. ~ (k < k)
        BY <1>1
    <2> QED
        BY <2>1, <2>2, RankGrows, BeforeIsAnOrder
<1>3. s = r
    BY <1>1, <1>2
<1> QED
    BY <1>3 DEF r

LEMMA RankedNothing == \A weight : Ranked({}, weight) = << >>
<1>1. Cardinality({}) = 0
    BY FS_EmptySet
<1> QED
    BY <1>1 DEF Ranked

\* Who comes after all of them comes last.
LEMMA RankedAppends ==
    ASSUME NEW P, NEW x, NEW v, NEW w, Weighed(P \cup {x}, w),
           \A i \in P : v[i] = w[i] /\ Before(w, i, x)
    PROVE  Ranked(P \cup {x}, w) = Append(Ranked(P, v), x)
<1> DEFINE Q == P \cup {x}
           n == Cardinality(P)
           s == Ranked(P, v)
           t == Append(s, x)
<1>1. x \notin P /\ IsFiniteSet(P) /\ Weighed(P, v)
    <2>1. x \notin P
        BY BeforeIsAnOrder
    <2>2. IsFiniteSet(P)
        BY FS_Subset DEF Weighed
    <2> QED
        BY <2>1, <2>2 DEF Weighed
<1>2. n \in Nat /\ Cardinality(Q) = n + 1
    BY <1>1, FS_CardinalityType, FS_AddElement
<1>3. s \in [1 .. n -> P] /\ s \in Seq(P) /\ Len(s) = n /\ \A k \in 1 .. n : Rank(P, v, s[k]) = k
    BY <1>1, RankedIsOrdered
<1>4. ASSUME NEW i \in P PROVE Rank(Q, w, i) = Rank(P, v, i)
    <2>1. {j \in Q : ~Before(w, i, j)} = {j \in P : ~Before(v, i, j)}
        BY DEF Before
    <2> QED
        BY <2>1 DEF Rank
<1>5. Rank(Q, w, x) = n + 1
    <2>1. \A j \in Q : ~ Before(w, x, j)
        <3>1. \A j \in Q : Before(w, j, x) \/ j = x
            OBVIOUS
        <3> QED
            BY <3>1, BeforeIsAnOrder
    <2>2. {j \in Q : ~Before(w, x, j)} = Q
        BY <2>1
    <2> QED
        BY <1>2, <2>2 DEF Rank
<1> HIDE DEF s, n, Q
<1>6. /\ t \in [1 .. n + 1 -> Q] /\ t[n + 1] = x
      /\ \A k \in 1 .. n : t[k] = s[k]
    <2>1. s \in [1 .. n -> Q] /\ x \in Q
        BY <1>3 DEF Q
    <2>2. s \in Seq(Q) /\ Len(s) = n
        BY <1>2, <1>3, <2>1
    <2>3. /\ t \in Seq(Q) /\ Len(t) = n + 1 /\ t[n + 1] = x
          /\ \A k \in 1 .. n : t[k] = s[k]
        BY <1>2, <2>1, <2>2
    <2> HIDE DEF t
    <2> QED
        BY <1>2, <2>3
<1> HIDE DEF t
<1>7. ASSUME NEW k \in 1 .. n + 1 PROVE Rank(Q, w, t[k]) = k
    <2>1. CASE k = n + 1
        BY <1>5, <1>6, <2>1
    <2>2. CASE k # n + 1
        <3>1. k \in 1 .. n
            BY <1>2, <2>2
        <3>2. t[k] = s[k] /\ s[k] \in P /\ Rank(P, v, s[k]) = k
            BY <1>3, <1>6, <3>1
        <3> QED
            BY <1>4, <3>2
    <2> QED
        BY <2>1, <2>2
<1>8. Weighed(Q, w)
    BY DEF Q
<1>9. t = Ranked(Q, w)
    BY <1>2, <1>6, <1>7, <1>8, RankedIsTheOnly
<1> QED
    BY <1>9 DEF t, s, Q

\* No number of a higher weight has a lower rank.
LEMMA HeavierIsLater ==
    ASSUME NEW P, NEW weight, Weighed(P, weight), NEW i \in P
    PROVE  LET heavier == {j \in P : weight[j] > weight[i]}
           IN  /\ IsFiniteSet(heavier) /\ Cardinality(heavier) \in Nat
               /\ Cardinality(heavier) <= Cardinality(P) - Rank(P, weight, i)
<1> DEFINE heavier == {j \in P : weight[j] > weight[i]}
           upto == {j \in P : ~ Before(weight, i, j)}
<1>1. heavier \in SUBSET (P \ upto) /\ upto \in SUBSET P
    <2>1. \A j \in P : weight[j] \in Int
        BY DEF Weighed
    <2> QED
        BY <2>1 DEF Before
<1>2. IsFiniteSet(P) /\ Rank(P, weight, i) = Cardinality(upto)
    BY DEF Weighed, Rank
<1> HIDE DEF heavier, upto
<1>3. /\ IsFiniteSet(P \ upto)
      /\ Cardinality(P \ upto) = Cardinality(P) - Cardinality(P \cap upto)
    BY <1>2, FS_Difference
<1>4. P \cap upto = upto
    BY <1>1
<1>5. IsFiniteSet(heavier) /\ Cardinality(heavier) <= Cardinality(P \ upto)
    BY <1>1, <1>3, FS_Subset
<1>6. Cardinality(heavier) \in Nat
    BY <1>5, FS_CardinalityType
<1> QED
    BY <1>2, <1>3, <1>4, <1>5, <1>6 DEF heavier

\* The positions P of s one after the other.
InTurn(s, P, q, n) ==
    /\ n \in Nat /\ n <= Len(s) /\ n = Cardinality(P)
    /\ q \in [1 .. n -> P]
    /\ \A i \in P : \E k \in 1 .. n : q[k] = i
    /\ \A j, k \in 1 .. n : j < k => q[j] < q[k]
    /\ Picked(s, P) = [k \in 1 .. n |-> s[q[k]]]
    /\ Len(Picked(s, P)) = n

\* Filtering keeps the elements at the chosen positions, in their order.
LEMMA PickedInOrder ==
    ASSUME NEW S, NEW s \in Seq(S), NEW P \in SUBSET DOMAIN s
    PROVE  Picked(s, P) \in Seq(S) /\ \E q, n : InTurn(s, P, q, n)
<1> DEFINE id == [i \in P |-> i]
           q == Ranked(P, id)
           n == Cardinality(P)
<1>1. DOMAIN s = 1 .. Len(s) /\ Len(s) \in Nat /\ P \in SUBSET (1 .. Len(s))
    OBVIOUS
<1>2. IsFiniteSet(1 .. Len(s)) /\ Cardinality(1 .. Len(s)) = Len(s)
    <2> DEFINE N == Len(s)
    <2>1. N \in Nat
        BY <1>1
    <2> HIDE DEF N
    <2>2. IsFiniteSet(1 .. N) /\ Cardinality(1 .. N) = N
        BY <2>1, FS_Interval
    <2> QED
        BY <2>2 DEF N
<1>3. IsFiniteSet(P) /\ n <= Len(s)
    BY <1>1, <1>2, FS_Subset
<1>4. Weighed(P, id)
    BY <1>1, <1>3 DEF Weighed
<1>5. /\ n \in Nat /\ q \in [1 .. n -> P]
      /\ \A i \in P : \E k \in 1 .. n : q[k] = i
      /\ \A j, k \in 1 .. n : j < k => Before(id, q[j], q[k])
    <2> HIDE DEF id
    <2> QED
        BY <1>4, RankedIsOrdered
<1>6. \A i, j \in P : Before(id, i, j) => i < j
    BY <1>1 DEF Before
<1>7. Picked(s, P) = [k \in 1 .. n |-> s[q[k]]]
    BY DEF Picked
<1> HIDE DEF q, n
<1>8. \A j, k \in 1 .. n : j < k => q[j] < q[k]
    <2> HIDE DEF id
    <2> QED
        BY <1>5, <1>6
<1>9. Picked(s, P) \in Seq(S) /\ Len(Picked(s, P)) = n
    <2>1. \A k \in 1 .. n : s[q[k]] \in S
        BY <1>1, <1>5
    <2>2. Picked(s, P) \in [1 .. n -> S]
        BY <1>7, <2>1
    <2> QED
        BY <1>5, <2>2
<1>10. n = Cardinality(P)
    BY DEF n
<1>11. InTurn(s, P, q, n)
    BY <1>3, <1>5, <1>7, <1>8, <1>9, <1>10 DEF InTurn
<1> QED
    BY <1>9, <1>11

\* The sums of the first numbers of s.
Totals(s, total) ==
    /\ total \in [0 .. Len(s) -> Nat]
    /\ total[0] = 0 /\ SumOf(s) = total[Len(s)]
    /\ \A n \in 1 .. Len(s) : total[n] = total[n - 1] + s[n]

LEMMA SumUnfolds ==
    ASSUME NEW s \in Seq(Nat)
    PROVE  \E total : Totals(s, total)
<1> DEFINE base == 0
           step == [x \in Nat \X Nat |-> IF x[1] + 1 \in 1 .. Len(s) THEN x[2] + s[x[1] + 1] ELSE 0]
           N == Len(s)
<1>0. N \in Nat /\ \A n \in 1 .. N : s[n] \in Nat
    OBVIOUS
<1>1. step \in Rules(Nat) /\ base \in Nat
    BY <1>0 DEF Rules
<1>2. \A n, v \in Nat : n + 1 \in 1 .. N => step[<<n, v>>] = v + s[n + 1]
    BY <1>0
<1> HIDE DEF step, base
<1>3. PICK G : Recurs(Nat, base, step, G)
    BY <1>1, Recursion
<1> DEFINE T == [n \in 0 .. N |-> G[n]]
<1>4. G \in [Nat -> Nat] /\ G[0] = 0 /\ \A n \in Nat : G[n + 1] = step[<<n, G[n]>>]
    BY <1>3 DEF Recurs, base
<1>5. T \in [0 .. N -> Nat] /\ T[0] = 0
    BY <1>0, <1>4
<1>6. ASSUME NEW n \in 1 .. N PROVE T[n] = T[n - 1] + s[n]
    <2>1. n - 1 \in Nat /\ (n - 1) + 1 = n /\ n - 1 \in 0 .. N /\ n \in 0 .. N
        BY <1>0
    <2>2. G[n] = G[n - 1] + s[n]
        BY <1>2, <1>4, <2>1
    <2> QED
        BY <2>1, <2>2
<1> HIDE DEF T
<1>7. T = [n \in 0 .. N |-> IF n = 0 THEN 0 ELSE T[n - 1] + s[n]]
    <2>1. \A n \in 0 .. N : T[n] = IF n = 0 THEN 0 ELSE T[n - 1] + s[n]
        BY <1>5, <1>6
    <2> QED
        BY <1>5, <2>1
<1> DEFINE total == CHOOSE f : f = [n \in 0 .. N |-> IF n = 0 THEN 0 ELSE f[n - 1] + s[n]]
<1>8. total = [n \in 0 .. N |-> IF n = 0 THEN 0 ELSE total[n - 1] + s[n]]
    BY <1>7
<1>9. SumOf(s) = total[N]
    BY DEF SumOf
<1> HIDE DEF total
<1>10. /\ total[0] = 0
       /\ \A n \in 1 .. N : total[n] = total[n - 1] + s[n]
       /\ DOMAIN total = 0 .. N
    BY <1>0, <1>8
<1> DEFINE Fine == {n \in Nat : n <= N => total[n] \in Nat}
<1>11. Fine = Nat
    <2>1. 0 \in Fine /\ \A n \in Fine : n + 1 \in Fine
        BY <1>0, <1>10
    <2> QED
        BY <2>1, Induction
<1>12. total \in [0 .. N -> Nat]
    <2>1. \A n \in 0 .. N : total[n] \in Nat
        BY <1>0, <1>11
    <2>2. total = [n \in 0 .. N |-> total[n]]
        BY <1>8
    <2> QED
        BY <2>1, <2>2
<1> QED
    BY <1>9, <1>10, <1>12 DEF Totals

LEMMA SumIsNat == ASSUME NEW s \in Seq(Nat) PROVE SumOf(s) \in Nat
BY SumUnfolds DEF Totals

LEMMA SumOfNothing == SumOf(<< >>) = 0
<1>1. << >> \in Seq(Nat) /\ Len(<< >>) = 0
    OBVIOUS
<1> QED
    BY <1>1, SumUnfolds DEF Totals

LEMMA SumAppends ==
    ASSUME NEW s \in Seq(Nat), NEW x \in Nat
    PROVE  SumOf(Append(s, x)) = SumOf(s) + x
<1> DEFINE t == Append(s, x)
           N == Len(s)
<1>1. /\ t \in Seq(Nat) /\ Len(t) = N + 1 /\ t[N + 1] = x /\ N \in Nat
      /\ \A n \in 1 .. N : t[n] = s[n]
    OBVIOUS
<1> HIDE DEF t
<1>2. PICK T : Totals(t, T)
    BY <1>1, SumUnfolds
<1>3. PICK S : Totals(s, S)
    BY SumUnfolds
<1> DEFINE Same == {n \in Nat : n <= N => T[n] = S[n]}
<1>4. Same = Nat
    <2>1. 0 \in Same
        BY <1>2, <1>3 DEF Totals
    <2>2. ASSUME NEW n \in Same PROVE n + 1 \in Same
        <3> SUFFICES ASSUME n + 1 <= N PROVE T[n + 1] = S[n + 1]
            OBVIOUS
        <3>1. n \in Nat /\ n + 1 \in 1 .. N /\ n + 1 \in 1 .. N + 1 /\ (n + 1) - 1 = n /\ T[n] = S[n]
            BY <1>1
        <3> QED
            BY <1>1, <1>2, <1>3, <3>1 DEF Totals
    <2> QED
        BY <2>1, <2>2, Induction
<1>5. T[N] = S[N]
    BY <1>1, <1>4
<1>6. T[N + 1] = T[N] + x
    <2>1. N + 1 \in 1 .. N + 1 /\ (N + 1) - 1 = N
        BY <1>1
    <2> QED
        BY <1>1, <1>2, <2>1 DEF Totals
<1> QED
    BY <1>1, <1>2, <1>3, <1>5, <1>6 DEF Totals, t

\* A joined sequence, position by position.
Joins(r, s, t) ==
    /\ Len(s) \in Nat /\ Len(t) \in Nat /\ Len(r) = Len(s) + Len(t)
    /\ DOMAIN r = 1 .. Len(s) + Len(t)
    /\ \A i \in 1 .. Len(s) : r[i] = s[i]
    /\ \A i \in 1 .. Len(t) : r[Len(s) + i] = t[i]
    /\ \A i \in DOMAIN r :
          i \in 1 .. Len(s) \/ (i - Len(s) \in 1 .. Len(t) /\ r[i] = t[i - Len(s)])

LEMMA Joined ==
    ASSUME NEW S, NEW s \in Seq(S), NEW t \in Seq(S)
    PROVE  s \o t \in Seq(S) /\ Joins(s \o t, s, t)
<1> DEFINE r == s \o t
           m == Len(s)
           n == Len(t)
<1>1. /\ r \in Seq(S) /\ Len(r) = m + n /\ n \in Nat /\ m \in Nat
      /\ DOMAIN r = 1 .. m + n
      /\ \A i \in 1 .. m : r[i] = s[i]
      /\ \A i \in 1 .. n : r[m + i] = t[i]
    OBVIOUS
<1> HIDE DEF r, m, n
<1>2. ASSUME NEW i \in 1 .. m + n
      PROVE  i \in 1 .. m \/ (i - m \in 1 .. n /\ r[i] = t[i - m])
    <2>1. CASE i <= m
        BY <1>1, <2>1
    <2>2. CASE ~(i <= m)
        <3>1. i - m \in 1 .. n /\ m + (i - m) = i
            BY <1>1, <2>2
        <3> QED
            BY <1>1, <3>1
    <2> QED
        BY <2>1, <2>2
<1>3. \A i \in DOMAIN r : i \in 1 .. m \/ (i - m \in 1 .. n /\ r[i] = t[i - m])
    BY <1>1, <1>2
<1> QED
    BY <1>1, <1>3 DEF Joins, r, m, n
=============================================================================
