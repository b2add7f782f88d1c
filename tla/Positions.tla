----------------------------- MODULE Positions -----------------------------
(***************************************************************************)
(* Recursion and induction over the positions of a sequence, lists that are *)
(* in order, and arithmetic, for the proofs about the pages and the charts. *)
(* The provers do not instantiate theorems about predicates, so these are   *)
(* about sets and functions.                                                *)
(***************************************************************************)
EXTENDS Integers, Sequences, FiniteSetsExt, FiniteSetTheorems, TLAPS

(* A set of natural numbers has a least element. *)
LEMMA LeastNat ==
  ASSUME NEW T \in SUBSET Nat, T # {}
  PROVE  \E m \in T : \A k \in T : m <= k
<1> DEFINE R == StrictSubsetOrdering(Nat)
           F == FiniteSubsetsOf(Nat)
           I == {0 .. k : k \in T}
<1>1. IsWellFoundedOn(R, F)
  BY FS_StrictSubsetOrderingWellFounded
<1>2. \A k \in T : 0 .. k \in F
  BY FS_Interval DEF FiniteSubsetsOf
<1>3. \A k, m \in T : k < m => <<0 .. k, 0 .. m>> \in R
  <2> SUFFICES ASSUME NEW k \in T, NEW m \in T, k < m PROVE <<0 .. k, 0 .. m>> \in R
    OBVIOUS
  <2>1. 0 .. k \subseteq 0 .. m /\ m \in 0 .. m /\ m \notin 0 .. k
    OBVIOUS
  <2>2. QED
    BY <2>1 DEF StrictSubsetOrdering
<1> HIDE DEF R, F
<1>4. I \subseteq F /\ I # {}
  BY <1>2
<1>5. \E x \in I : \A y \in I : <<y, x>> \notin R
  BY <1>1, <1>4, WFMin
<1>6. PICK m \in T : \A k \in T : <<0 .. k, 0 .. m>> \notin R
  BY <1>5
<1>7. \A k \in T : ~(k < m)
  BY <1>3, <1>6
<1>8. QED
  BY <1>7

(* What holds at the start and from one position to the next holds at all. *)
LEMMA EveryPosition ==
  ASSUME NEW n \in Nat, NEW f, NEW S, f[0] \in S[0],
         \A i \in 1 .. n : f[i - 1] \in S[i - 1] => f[i] \in S[i]
  PROVE  \A i \in 0 .. n : f[i] \in S[i]
<1> DEFINE T == {i \in 0 .. n : f[i] \notin S[i]}
<1> SUFFICES ASSUME T # {} PROVE FALSE
  OBVIOUS
<1>1. T \in SUBSET Nat
  OBVIOUS
<1>2. PICK m \in T : \A k \in T : m <= k
  BY <1>1, LeastNat
<1>3. m \in 1 .. n /\ m - 1 \in 0 .. n
  BY <1>2
<1>4. m - 1 \notin T
  BY <1>2, <1>3
<1>5. QED
  BY <1>2, <1>3, <1>4

(* A recursion from one position to the next defines a function. *)
Steps(n, S) == [1 .. n -> [S -> S]]
Runs(n, S, base, G) ==
  {f \in [0 .. n -> S] : f[0] = base /\ \A i \in 1 .. n : f[i] = G[i][f[i - 1]]}

LEMMA Recursion ==
  ASSUME NEW S, NEW n \in Nat, NEW base \in S, NEW G \in Steps(n, S)
  PROVE  Runs(n, S, base, G) # {}
<1> DEFINE Defines(k, f) == f[0] = base /\ \A i \in 1 .. k : f[i] = G[i][f[i - 1]]
           T == {k \in 0 .. n : ~\E f \in [0 .. k -> S] : Defines(k, f)}
<1> USE DEF Steps
<1> SUFFICES ASSUME T # {} PROVE FALSE
  <2>1. n \in T \/ \E f \in [0 .. n -> S] : Defines(n, f)
    OBVIOUS
  <2>2. QED
    BY <2>1 DEF Runs
<1>1. T \in SUBSET Nat
  OBVIOUS
<1>2. PICK m \in T : \A k \in T : m <= k
  BY <1>1, LeastNat
<1>3. m # 0
  <2>1. [i \in 0 .. 0 |-> base] \in [0 .. 0 -> S] /\ Defines(0, [i \in 0 .. 0 |-> base])
    OBVIOUS
  <2>2. QED
    BY <2>1
<1>4. m \in 1 .. n /\ m - 1 \in 0 .. n /\ m - 1 \notin T
  <2>1. m \in 0 .. n
    BY <1>2
  <2>2. m \in 1 .. n /\ m - 1 \in 0 .. n
    BY <1>3, <2>1
  <2> HIDE DEF T
  <2>3. QED
    BY <1>2, <2>2
<1>5. PICK f \in [0 .. m - 1 -> S] : Defines(m - 1, f)
  BY <1>4
<1> DEFINE g == [i \in 0 .. m |-> IF i = m THEN G[m][f[m - 1]] ELSE f[i]]
<1>6. g \in [0 .. m -> S]
  BY <1>4
<1>7. Defines(m, g)
  <2>1. g[0] = base
    BY <1>4, <1>5
  <2>2. ASSUME NEW i \in 1 .. m PROVE g[i] = G[i][g[i - 1]]
    <3>1. CASE i = m
      BY <1>4, <3>1
    <3>2. CASE i # m
      BY <1>4, <1>5, <3>2
    <3>3. QED
      BY <3>1, <3>2
  <2>3. QED
    BY <2>1, <2>2
<1>8. QED
  BY <1>2, <1>6, <1>7

(* A set of natural numbers with a bound has a greatest element. *)
LEMMA GreatestNat ==
  ASSUME NEW k \in Nat, NEW T \in SUBSET (0 .. k), T # {}
  PROVE  \E m \in T : \A y \in T : m >= y
<1> DEFINE U == {k - t : t \in T}
<1>1. U \in SUBSET Nat /\ U # {}
  <2>1. \A t \in T : t \in 0 .. k
    OBVIOUS
  <2>2. \A t \in T : k - t \in Nat
    BY <2>1
  <2>3. U \subseteq Nat
    BY <2>2
  <2>4. PICK t \in T : TRUE
    OBVIOUS
  <2>5. k - t \in U
    OBVIOUS
  <2>6. QED
    BY <2>3, <2>5
<1>2. PICK u \in U : \A y \in U : u <= y
  BY <1>1, LeastNat
<1>3. PICK m \in T : u = k - m
  BY <1>2
<1>4. ASSUME NEW y \in T PROVE m >= y
  <2>1. k - y \in U
    OBVIOUS
  <2> HIDE DEF U
  <2>2. u <= k - y
    BY <1>2, <2>1
  <2>3. m \in 0 .. k /\ y \in 0 .. k
    OBVIOUS
  <2>4. QED
    BY <1>3, <2>2, <2>3
<1>5. QED
  BY <1>4

(* A function that starts and goes on like another is the other. *)
Alike(n, f, g) == f[0] = g[0] /\ \A i \in 1 .. n : f[i - 1] = g[i - 1] => f[i] = g[i]

(* There is only one function that a loop over positions computes. *)
LEMMA SamePositions ==
  ASSUME NEW n \in Nat, NEW f, NEW g, Alike(n, f, g)
  PROVE  \A i \in 0 .. n : f[i] = g[i]
<1> USE DEF Alike
<1> DEFINE S == [i \in 0 .. n |-> {g[i]}]
<1>1. f[0] \in S[0]
  OBVIOUS
<1>2. \A i \in 1 .. n : f[i - 1] \in S[i - 1] => f[i] \in S[i]
  <2> SUFFICES ASSUME NEW i \in 1 .. n, f[i - 1] \in S[i - 1] PROVE f[i] \in S[i]
    OBVIOUS
  <2>1. i - 1 \in 0 .. n /\ i \in 0 .. n
    OBVIOUS
  <2>2. f[i - 1] = g[i - 1]
    BY <2>1
  <2>3. QED
    BY <2>1, <2>2
<1> HIDE DEF S
<1>3. \A i \in 0 .. n : f[i] \in S[i]
  BY <1>1, <1>2, EveryPosition
<1>4. QED
  BY <1>3 DEF S

(* Append, on a function over positions. *)
LEMMA AppendIs ==
  ASSUME NEW n \in Nat, NEW s, s = [k \in 1 .. n |-> s[k]], NEW x
  PROVE  Append(s, x) = [k \in 1 .. n + 1 |-> IF k = n + 1 THEN x ELSE s[k]]
<1> DEFINE V == {s[k] : k \in 1 .. n} \union {x}
<1>1. s \in Seq(V) /\ Len(s) = n /\ x \in V
  <2>1. [k \in 1 .. n |-> s[k]] \in [1 .. n -> V]
    OBVIOUS
  <2> HIDE DEF V
  <2>2. s \in [1 .. n -> V]
    BY <2>1
  <2>3. s \in Seq(V)
    BY <2>2
  <2>4. QED
    BY <2>2, <2>3 DEF V
<1> HIDE DEF V
<1>2. DOMAIN Append(s, x) = 1 .. n + 1 /\ \A k \in 1 .. n + 1 : Append(s, x)[k] = IF k = n + 1 THEN x ELSE s[k]
  BY <1>1
<1>3. Append(s, x) = [k \in DOMAIN Append(s, x) |-> Append(s, x)[k]]
  BY <1>1
<1>4. QED
  BY <1>2, <1>3

(* The place of an annotation in the order of the datasets and data. *)
Rank(ch, e) == (e[2] - 1) * ch.labels + e[3]

(* It is a number. *)
LEMMA RankInt ==
  ASSUME NEW ch, ch.labels \in Nat, NEW kind, NEW e \in {kind} \X Nat \X Nat
  PROVE  Rank(ch, e) \in Int /\ e[1] = kind
<1> DEFINE i == e[2]
           j == e[3]
           d == ch.labels
<1>1. i \in Nat /\ j \in Nat /\ d \in Nat
  OBVIOUS
<1>2. Rank(ch, e) = (i - 1) * d + j
  BY DEF Rank
<1> HIDE DEF i, j, d
<1>3. QED
  BY <1>1, <1>2

(* A list of annotations of data in S, in order, up to place m. *)
Ordered(ch, kind, S, m, s) ==
  /\ s \in Seq({kind} \X Nat \X Nat)
  /\ \A k \in 1 .. Len(s) : <<s[k][2], s[k][3]>> \in S /\ Rank(ch, s[k]) <= m
  /\ \A k \in 1 .. Len(s) : \A l \in 1 .. Len(s) : k < l => Rank(ch, s[k]) < Rank(ch, s[l])

(* One more annotation. *)
LEMMA OrderedStep ==
  ASSUME NEW ch, NEW kind, NEW S, NEW i \in Nat \ {0}, NEW s, Ordered(ch, kind, S, i - 1, s),
         NEW e \in {kind} \X Nat \X Nat, Rank(ch, e) = i, <<e[2], e[3]>> \in S,
         ch.labels \in Nat
  PROVE  Ordered(ch, kind, S, i, Append(s, e)) /\ Ordered(ch, kind, S, i, s)
<1> DEFINE T == {kind} \X Nat \X Nat
           t == Append(s, e)
           n == Len(s)
<1>1. s \in Seq(T) /\ n \in Nat
  BY DEF Ordered
<1>2. t \in Seq(T) /\ Len(t) = n + 1 /\ t[n + 1] = e /\ \A k \in 1 .. n : t[k] = s[k]
  BY <1>1
<1>3. ASSUME NEW k \in 1 .. n
      PROVE  <<s[k][2], s[k][3]>> \in S /\ Rank(ch, s[k]) <= i - 1 /\ Rank(ch, s[k]) \in Int
  <2>1. s[k] \in T
    BY <1>1
  <2>2. Rank(ch, s[k]) \in Int
    BY <2>1, RankInt
  <2>3. QED
    BY <2>2 DEF Ordered
<1>4. \A k \in 1 .. n : \A l \in 1 .. n : k < l => Rank(ch, s[k]) < Rank(ch, s[l])
  BY DEF Ordered
<1> HIDE DEF t, n, T
<1>5. Ordered(ch, kind, S, i, s)
  <2>1. \A k \in 1 .. n : <<s[k][2], s[k][3]>> \in S /\ Rank(ch, s[k]) <= i
    BY <1>3
  <2>2. QED
    BY <1>1, <1>4, <2>1 DEF Ordered, n, T
<1>6. \A k \in 1 .. n + 1 : <<t[k][2], t[k][3]>> \in S /\ Rank(ch, t[k]) <= i
  <2> SUFFICES ASSUME NEW k \in 1 .. n + 1 PROVE <<t[k][2], t[k][3]>> \in S /\ Rank(ch, t[k]) <= i
    OBVIOUS
  <2>1. CASE k = n + 1
    BY <1>2, <2>1
  <2>2. CASE k # n + 1
    <3>1. k \in 1 .. n
      BY <1>1, <2>2
    <3>2. QED
      BY <1>2, <1>3, <3>1
  <2>3. QED
    BY <2>1, <2>2
<1>7. \A k \in 1 .. n + 1 : \A l \in 1 .. n + 1 : k < l => Rank(ch, t[k]) < Rank(ch, t[l])
  <2> SUFFICES ASSUME NEW k \in 1 .. n + 1, NEW l \in 1 .. n + 1, k < l
               PROVE  Rank(ch, t[k]) < Rank(ch, t[l])
    OBVIOUS
  <2>1. k \in 1 .. n
    BY <1>1
  <2>2. CASE l = n + 1
    <3>1. Rank(ch, t[l]) = i /\ Rank(ch, t[k]) <= i - 1 /\ Rank(ch, t[k]) \in Int
      BY <1>2, <1>3, <2>1, <2>2
    <3>2. QED
      BY <3>1
  <2>3. CASE l # n + 1
    <3>1. l \in 1 .. n
      BY <1>1, <2>3
    <3>2. QED
      BY <1>2, <1>4, <2>1, <3>1
  <2>4. QED
    BY <2>2, <2>3
<1>8. QED
  BY <1>2, <1>5, <1>6, <1>7 DEF Ordered, t, T

-----------------------------------------------------------------------------
(* Quotients, products, and the greater of two numbers. *)

(* A quotient from its bounds. *)
LEMMA DivIs ==
  ASSUME NEW x \in Int, NEW d \in Nat \ {0}, NEW q \in Int, d * q <= x, x < d * q + d
  PROVE  x \div d = q
  OBVIOUS

(* A lower bound of a quotient. *)
LEMMA DivAtLeast ==
  ASSUME NEW x \in Int, NEW d \in Nat \ {0}, NEW q \in Int, d * q <= x
  PROVE  q <= x \div d
  OBVIOUS

(* A quotient and its remainder. *)
LEMMA DivParts ==
  ASSUME NEW x \in Int, NEW d \in Nat \ {0}
  PROVE  x \div d \in Int /\ d * (x \div d) <= x /\ x < d * (x \div d) + d
  OBVIOUS

(* A multiple has no remainder. *)
LEMMA ModZero ==
  ASSUME NEW z \in Int, NEW d \in Nat \ {0}
  PROVE  (d * z) % d = 0
  OBVIOUS

(* What has no remainder is a multiple. *)
LEMMA FactorOf ==
  ASSUME NEW x \in Int, NEW d \in Nat \ {0}, x % d = 0
  PROVE  x = d * (x \div d)
  OBVIOUS

(* The difference of two multiples is one. *)
LEMMA ModDifference ==
  ASSUME NEW x \in Int, NEW y \in Int, NEW d \in Nat \ {0}, x % d = 0, y % d = 0
  PROVE  (x - y) % d = 0
<1>1. x = d * (x \div d) /\ y = d * (y \div d) /\ x \div d \in Int /\ y \div d \in Int
  BY FactorOf
<1>2. x - y = d * (x \div d - y \div d) /\ x \div d - y \div d \in Int
  BY <1>1
<1>3. QED
  BY <1>2, ModZero

(* A product grows with its first factor. *)
LEMMA TimesGrows ==
  ASSUME NEW a \in Int, NEW b \in Int, NEW c \in Nat, a <= b
  PROVE  a * c <= b * c
<1>1. (b - a) * c >= 0 /\ (b - a) * c = b * c - a * c
  OBVIOUS
<1>2. a * c \in Int /\ b * c \in Int
  OBVIOUS
<1>3. QED
  BY <1>1, <1>2

(* A product of numbers from the lesser factors. *)
LEMMA ProductGrows ==
  ASSUME NEW h \in Nat, NEW c \in Nat, NEW n \in Nat, NEW v \in Nat, c <= n * v
  PROVE  h * c <= v * (h * n)
<1>1. n * v \in Nat /\ h * c <= h * (n * v)
  BY DEF Nat
<1>2. h * (n * v) = v * (h * n)
  OBVIOUS
<1>3. QED
  BY <1>1, <1>2

(* The greatest element of a set that has one. *)
LEMMA MaxOf ==
  ASSUME NEW S \in SUBSET Int, NEW m \in S, \A y \in S : m >= y
  PROVE  Max(S) \in S /\ \A y \in S : Max(S) >= y
  BY DEF Max

(* The greater and the less of two numbers. *)
LEMMA MaxMinTwo ==
  ASSUME NEW a \in Int, NEW b \in Int
  PROVE  /\ Max({a, b}) = IF a >= b THEN a ELSE b
         /\ Min({a, b}) = IF a >= b THEN b ELSE a
<1> DEFINE x == IF a >= b THEN a ELSE b
           n == IF a >= b THEN b ELSE a
<1>1. x \in {a, b} /\ n \in {a, b} /\ x \in Int /\ n \in Int /\ \A y \in {a, b} : y \in Int /\ x >= y /\ n <= y
  OBVIOUS
<1>2. Max({a, b}) \in {a, b} /\ \A y \in {a, b} : Max({a, b}) >= y
  BY <1>1 DEF Max
<1>3. Min({a, b}) \in {a, b} /\ \A y \in {a, b} : Min({a, b}) <= y
  BY <1>1 DEF Min
<1> HIDE DEF x, n
<1>4. Max({a, b}) = x
  BY <1>1, <1>2
<1>5. Min({a, b}) = n
  BY <1>1, <1>3
<1>6. QED
  BY <1>4, <1>5 DEF x, n

(* How far a way of labels - 1 steps of n each, of which s are behind already, *)
(* has been gone after the v-th of n parts of the rest.                        *)
LEMMA FrontMoves ==
  ASSUME NEW n \in Nat \ {0}, NEW labels \in Nat, NEW j \in 1 .. labels, NEW s \in Nat, NEW v \in 0 .. n,
         NEW f, f = s * n + v * (labels - 1 - s)
  PROVE  /\ f \in Int /\ f - (j - 1) * n = v * (labels - s - 1) - (j - 1 - s) * n
         /\ j <= s => (j - 1) * n <= f /\ (j < labels => j * n <= f)
         /\ v = n => f = (labels - 1) * n
<1> DEFINE d == labels - 1 - s
<1>1. f \in Int /\ d \in Int /\ v \in Int /\ v * d \in Int
  OBVIOUS
<1>2. f - (j - 1) * n = v * (labels - s - 1) - (j - 1 - s) * n
  OBVIOUS
<1>3. v = n => f = (labels - 1) * n
  OBVIOUS
<1>4. ASSUME j <= s PROVE (j - 1) * n <= f /\ (j < labels => j * n <= f)
  <2>0. j \in Int /\ j >= 1
    OBVIOUS
  <2>1. CASE d >= 0
    <3>1. v * d >= 0
      BY <1>1, <2>1
    <3>2. j * n <= s * n /\ (j - 1) * n <= s * n
      BY <1>4, <2>0, TimesGrows
    <3> HIDE DEF d
    <3>3. f = s * n + v * d
      BY DEF d
    <3>4. j * n \in Int /\ (j - 1) * n \in Int /\ s * n \in Int
      OBVIOUS
    <3>5. QED
      BY <1>1, <3>1, <3>2, <3>3, <3>4
  <2>2. CASE d < 0
    <3>1. (n - v) * (-d) >= 0
      BY <1>1, <2>2
    <3>2. v * d >= n * d
      BY <1>1, <3>1
    <3>3. f >= (labels - 1) * n
      <4>1. s * n + n * d = (labels - 1) * n
        OBVIOUS
      <4>2. n * d \in Int /\ s * n \in Int
        OBVIOUS
      <4>3. f = s * n + v * d
        OBVIOUS
      <4> HIDE DEF d
      <4>4. QED
        BY <1>1, <3>2, <4>1, <4>2, <4>3
    <3>4. (j - 1) * n <= (labels - 1) * n /\ (j < labels => j * n <= (labels - 1) * n)
      BY <2>0, TimesGrows
    <3>5. QED
      BY <1>1, <2>0, <3>3, <3>4
  <2>3. QED
    BY <1>1, <2>1, <2>2
<1>5. QED
  BY <1>1, <1>2, <1>3, <1>4
=============================================================================
