------------------------- MODULE ChartDrawingProofs -------------------------
EXTENDS ChartDrawing, Positions
(***************************************************************************)
(* What a redraw computes, for every chart: the scale of an axis covers    *)
(* its data, every datum knows its neighbours, no bar covers another, the  *)
(* mouse finds every part of the drawing, and the lines follow the data.   *)
(*                                                                         *)
(* The scale.  The loop of calculateScale halves or doubles the step and   *)
(* rounds the number of steps each time, so what makes the scale reach the *)
(* greatest value is what the rounding cannot lose: the number is exact as *)
(* long as the step is halved (it starts as a power of ten times sixteen   *)
(* units and cannot be halved more often than the least number of steps    *)
(* asks for), it is rounded up when an exact step is doubled, and a step   *)
(* that is not a multiple of the interval is rounded up to one after the   *)
(* loop.  ScaleIInv says which of these an axis is in; the first part of   *)
(* the module is the arithmetic of one turn of the loop, the second the    *)
(* steps of a pass.                                                        *)
(*                                                                         *)
(* The neighbours.  The loops of initPassVariableData_part1 look back only *)
(* (and write into the entries behind them), so what they have computed    *)
(* after a number of turns is stated outright (Linked for the entries of a *)
(* dataset, PieCell for the segments of a pie) and shown to be what one    *)
(* more turn makes of it.  A function that does so exists, so the one the  *)
(* model chooses does so too, and there is only one (SamePositions).       *)
(*                                                                         *)
(* The bars.  Across a column it is a matter of room: what r bars and the  *)
(* gaps between them take (Taken) against the width barWidth leaves them.  *)
(* Along it, a stack grows with its sums, and so does the position of a    *)
(* sum (HeightGrows), unless the scale has lost its step on the way:       *)
(* PlaceIInv says that halving, doubling, the interval and the trimming    *)
(* leave at least one step of a positive size.                             *)
(*                                                                         *)
(* The mouse.  An annotation of the last frame is one datum's, and no two  *)
(* are the same datum's (ListedIs).  Its middle is inside it, and inside   *)
(* no other bar or segment (Alone): two bars are in columns that do not    *)
(* overlap, next to each other in a column, or on each other in a stack;   *)
(* two segments are disjoint arcs of one turn, and stay the same arcs      *)
(* however often the mouse handler has normalised their angles (Touched).  *)
(* FindIInv says where the list of annotations comes from.                 *)
(*                                                                         *)
(* The lines.  After each position of a dataset the path drawn so far is   *)
(* in one of four states: at the last datum (Here), at the front of the    *)
(* animation (There), at a gap that no line bridges (Gap), or beyond the   *)
(* front with nothing left to draw (Gone).  PathAt says which, and that    *)
(* the segments drawn are those of the pairs of data behind the position;  *)
(* one turn of the loop leads from one such state to the next              *)
(* (PathGoesOn), so the last turn leaves the line the data ask for         *)
(* (LineDrawn).  LineIInv says that the lines on the canvas are those of   *)
(* the last frame.                                                         *)
(***************************************************************************)

(* The power of ten at or below a number within the powers. *)
LEMMA Order ==
  ASSUME NEW v \in Int, 16 <= v, v < 16000000
  PROVE  LET p == calculateOrderOfMagnitude(v)
         IN  p \in Powers /\ p <= v /\ v < 10 * p
<1> DEFINE S == {p \in Powers : p <= v}
<1>1. S \in SUBSET Int
  BY DEF Powers
<1>2. PICK m \in S : \A y \in S : m >= y
  <2>1. CASE v < 160
    BY <2>1 DEF Powers
  <2>2. CASE 160 <= v /\ v < 1600
    BY <2>2 DEF Powers
  <2>3. CASE 1600 <= v /\ v < 16000
    BY <2>3 DEF Powers
  <2>4. CASE 16000 <= v /\ v < 160000
    BY <2>4 DEF Powers
  <2>5. CASE 160000 <= v /\ v < 1600000
    BY <2>5 DEF Powers
  <2>6. CASE 1600000 <= v
    BY <2>6 DEF Powers
  <2> QED
    BY <2>1, <2>2, <2>3, <2>4, <2>5, <2>6
<1>3. Max(S) \in S /\ \A y \in S : Max(S) >= y
  <2> HIDE DEF S
  <2> QED
    BY <1>1, <1>2, MaxOf
<1>4. calculateOrderOfMagnitude(v) = Max(S)
  BY DEF calculateOrderOfMagnitude
<1>5. Max(S) \in Powers /\ Max(S) <= v
  BY <1>3
<1>6. v < 10 * Max(S)
  BY <1>3, <1>5 DEF Powers
<1>7. QED
  BY <1>4, <1>5, <1>6

(* A power of ten is a positive number of units and can be halved four times. *)
LEMMA PowerIs ==
  ASSUME NEW p \in Powers
  PROVE  p \in Nat \ {0} /\ p % 16 = 0
  BY DEF Powers

(* Rounding a quotient without remainder changes nothing. *)
LEMMA RoundExact ==
  ASSUME NEW n \in Int, NEW d \in Nat \ {0}
  PROVE  RoundDiv(n * d, d) = n
<1>1. (2 * d) * n <= 2 * (n * d) + d /\ 2 * (n * d) + d < (2 * d) * n + 2 * d
  OBVIOUS
<1>2. QED
  BY <1>1, DivIs DEF RoundDiv

(* The least number of steps is at most half of the greatest. *)
LEMMA RoomForSteps ==
  ASSUME Sized(chart)
  PROVE  minSteps \in Nat /\ maxSteps \in Nat /\ 2 * minSteps <= maxSteps /\ minSteps <= 16
<1> DEFINE h == chart.height
           l == chart.labelHeight
           m == h \div (2 * l)
<1>1. h \in Nat /\ l \in Nat \ {0} /\ m <= 16
  BY DEF Sized
<1> HIDE DEF h, l
<1>2. 2 * l \in Nat \ {0} /\ 66 * l \in Nat \ {0} /\ 100 * h \in Int
  BY <1>1
<1>3. m \in Int /\ (2 * l) * m <= h
  BY <1>1, <1>2, DivParts
<1>4. m >= 0
  BY <1>1, <1>2, DivAtLeast
<1>5. (66 * l) * (2 * m) <= 100 * h
  BY <1>1, <1>3
<1>6. 2 * m <= (100 * h) \div (66 * l) /\ (100 * h) \div (66 * l) \in Int
  <2> HIDE DEF m
  <2>1. 2 * m \in Int
    BY <1>3
  <2>2. QED
    BY <1>2, <1>5, <2>1, DivAtLeast, DivParts
<1>7. QED
  BY <1>1, <1>3, <1>4, <1>6 DEF minSteps, maxSteps, h, l

(* Rounding up covers the whole distance. *)
LEMMA CeilCovers ==
  ASSUME NEW x \in Int, NEW d \in Nat \ {0}
  PROVE  CeilDiv(x, d) \in Int /\ x <= d * CeilDiv(x, d) /\ d * CeilDiv(x, d) < x + d
<1>1. -x \in Int
  OBVIOUS
<1>2. (-x) \div d \in Int /\ d * ((-x) \div d) <= -x /\ -x < d * ((-x) \div d) + d
  BY <1>1, DivParts
<1>3. QED
  BY <1>2 DEF CeilDiv

(* A scale with another step keeps its ends. *)
LEMMA WithStepIs ==
  ASSUME NEW s \in Scale, NEW d \in Nat \ {0}, RoundDiv(s.max - s.graphMin, d) \in Nat
  PROVE  LET r == WithStep(s, d)
         IN  /\ r \in Scale /\ r.graphMin = s.graphMin /\ r.max = s.max
             /\ r.stepValue = d /\ r.steps = RoundDiv(s.max - s.graphMin, d)
  BY DEF WithStep, Scale

(* So does one whose number of steps is rounded up, and it spans them. *)
LEMMA WithStepUpIs ==
  ASSUME NEW s \in Scale, NEW d \in Nat \ {0}, s.graphMin <= s.max
  PROVE  LET r == WithStepUp(s, d)
         IN  /\ r \in Scale /\ r.graphMin = s.graphMin /\ r.max = s.max
             /\ r.stepValue = d /\ s.max - s.graphMin <= r.steps * r.stepValue
<1> DEFINE x == s.max - s.graphMin
<1>1. x \in Int /\ x >= 0
  BY DEF Scale
<1> HIDE DEF x
<1>2. CeilDiv(x, d) \in Int /\ x <= d * CeilDiv(x, d)
  BY <1>1, CeilCovers
<1>3. CeilDiv(x, d) \in Nat
  BY <1>1, <1>2
<1> DEFINE c == CeilDiv(x, d)
           r == WithStepUp(s, d)
<1>4. r = [s EXCEPT !.stepValue = d, !.steps = c]
  BY DEF WithStepUp, x
<1>5. c \in Nat /\ x <= d * c /\ c * d = d * c
  BY <1>2, <1>3
<1> HIDE DEF c, r
<1>6. r \in Scale /\ r.graphMin = s.graphMin /\ r.max = s.max /\ r.stepValue = d /\ r.steps = c
  BY <1>4, <1>5 DEF Scale
<1>7. QED
  BY <1>5, <1>6 DEF r, x

(* The fields of a scale in the loop. *)
LEMMA ScaleFields ==
  ASSUME NEW s \in Scale
  PROVE  /\ s.graphMin \in Int /\ s.max \in Int /\ s.stepValue \in Nat \ {0} /\ s.steps \in Nat
         /\ s.max - s.graphMin \in Int /\ ~s.logarithmic
<1>1. s.graphMin \in Int /\ s.max \in Int /\ s.stepValue \in Nat \ {0} /\ s.steps \in Nat
  BY DEF Scale
<1>2. s.logarithmic \in {FALSE}
  BY DEF Scale
<1>3. ~s.logarithmic
  BY <1>2, Zenon
<1>4. s.max - s.graphMin \in Int
  BY <1>1
<1>5. QED
  BY <1>1, <1>3, <1>4

(* Halving an exact step keeps it exact: it is even, as long as there are   *)
(* fewer steps than sixteen.                                                *)
LEMMA HalveExact ==
  ASSUME Sized(chart), NEW s \in Scale, Exact(s), s.steps < minSteps
  PROVE  LET r == WithStep(s, s.stepValue \div 2)
         IN  r \in Scale /\ r.graphMin = s.graphMin /\ r.max = s.max /\ Exact(r)
<1> DEFINE n == s.steps
           v == s.stepValue
           h == v \div 2
           x == s.max - s.graphMin
           r == WithStep(s, h)
<1>1. n \in Nat /\ v \in Nat \ {0} /\ x \in Int
  BY ScaleFields
<1>2. minSteps \in Nat /\ minSteps <= 16 /\ n < minSteps
  BY RoomForSteps
<1>3. /\ x = n * v /\ n >= 1
      /\ \/ v % 16 = 0 
         \/ v % 8 = 0 /\ n >= 2
         \/ v % 4 = 0 /\ n >= 4
         \/ v % 2 = 0 /\ n >= 8
  BY <1>1, <1>2 DEF Exact
<1> HIDE DEF n, v, x
<1>4. /\ v = 2 * h /\ h \in Nat \ {0}
      /\ \/ h % 8 = 0 /\ 2 * n >= 2
         \/ h % 4 = 0 /\ 2 * n >= 4
         \/ h % 2 = 0 /\ 2 * n >= 8
         \/ 2 * n >= 16
  BY <1>1, <1>3
<1> HIDE DEF h
<1>5. x = (2 * n) * h /\ 2 * n \in Int
  BY <1>1, <1>3, <1>4
<1>6. RoundDiv(x, h) = 2 * n
  BY <1>4, <1>5, RoundExact
<1>7. /\ r \in Scale /\ r.graphMin = s.graphMin /\ r.max = s.max
      /\ r.stepValue = h /\ r.steps = 2 * n
  <2>1. RoundDiv(s.max - s.graphMin, h) \in Nat
    BY <1>1, <1>6 DEF x
  <2>2. QED
    BY <1>4, <1>6, <2>1, WithStepIs DEF x
<1> HIDE DEF r
<1>8. Exact(r)
  BY <1>1, <1>2, <1>3, <1>4, <1>5, <1>7 DEF Exact, x
<1>9. QED
  BY <1>7, <1>8 DEF r, h, v

(* Doubling an exact step rounds half a step up, and leaves six steps at    *)
(* most.                                                                    *)
LEMMA DoubleExact ==
  ASSUME Sized(chart), maxSteps >= 6, NEW s \in Scale, Exact(s), s.steps > maxSteps
  PROVE  LET r == WithStep(s, s.stepValue * 2)
         IN  r \in Scale /\ r.graphMin = s.graphMin /\ r.max = s.max /\ Doubled(r)
<1> DEFINE n == s.steps
           v == s.stepValue
           m == (n + 1) \div 2
           x == s.max - s.graphMin
           r == WithStep(s, v * 2)
<1>1. n \in Nat /\ v \in Nat \ {0} /\ x \in Int
  BY ScaleFields
<1>2. minSteps \in Nat /\ maxSteps \in Nat /\ 2 * minSteps <= maxSteps
  BY RoomForSteps
<1>3. x = n * v /\ n > maxSteps /\ n <= 11
  BY <1>1, <1>2 DEF Exact
<1> HIDE DEF n, v, x
<1>4. m \in Nat /\ m <= 6 /\ minSteps <= m /\ n <= 2 * m /\ 2 * m <= n + 1
  BY <1>1, <1>2, <1>3
<1> HIDE DEF m
<1>5. RoundDiv(x, v * 2) = m
  <2>1. /\ (2 * (v * 2)) * m <= 2 * x + v * 2
        /\ 2 * x + v * 2 < (2 * (v * 2)) * m + 2 * (v * 2)
    <3>1. CASE n = 2 * m
      BY <1>1, <1>3, <1>4, <3>1
    <3>2. CASE n + 1 = 2 * m
      BY <1>1, <1>3, <1>4, <3>2
    <3>3. QED
      BY <1>1, <1>4, <3>1, <3>2
  <2>2. 2 * x + v * 2 \in Int /\ 2 * (v * 2) \in Nat \ {0} /\ m \in Int
    BY <1>1, <1>4
  <2>3. QED
    BY <2>1, <2>2, DivIs DEF RoundDiv
<1>6. /\ r \in Scale /\ r.graphMin = s.graphMin /\ r.max = s.max
      /\ r.stepValue = v * 2 /\ r.steps = m
  <2>1. RoundDiv(s.max - s.graphMin, v * 2) \in Nat /\ v * 2 \in Nat \ {0}
    BY <1>1, <1>4, <1>5 DEF x
  <2>2. QED
    BY <1>5, <2>1, WithStepIs DEF x
<1> HIDE DEF r
<1>7. x <= m * (v * 2)
  BY <1>1, <1>3, <1>4
<1>8. QED
  BY <1>4, <1>6, <1>7 DEF Doubled, x, r, v

(* What rounding gives and loses. *)
LEMMA RoundParts ==
  ASSUME NEW x \in Int, NEW d \in Nat \ {0}
  PROVE  LET n == RoundDiv(x, d)
         IN  n \in Int /\ (2 * d) * n <= 2 * x + d /\ 2 * x + d < (2 * d) * n + 2 * d
<1>1. 2 * x + d \in Int /\ 2 * d \in Nat \ {0}
  OBVIOUS
<1>2. QED
  BY <1>1, DivParts DEF RoundDiv

(* Doubling a step below or at twice the interval. *)
LEMMA DoubleBetween ==
  ASSUME Sized(chart), maxSteps >= 6, NEW s \in Scale, NEW i \in Nat \ {0}, Between(s, i),
         s.steps > maxSteps
  PROVE  LET r == WithStep(s, s.stepValue * 2)
         IN  r \in Scale /\ r.graphMin = s.graphMin /\ r.max = s.max /\ Between(r, i)
<1> DEFINE n == s.steps
           v == s.stepValue
           x == s.max - s.graphMin
           r == WithStep(s, v * 2)
           k == RoundDiv(x, v * 2)
<1>1. n \in Nat /\ v \in Nat \ {0} /\ x \in Int
  BY ScaleFields
<1>2. minSteps \in Nat /\ maxSteps \in Nat /\ 2 * minSteps <= maxSteps
  BY RoomForSteps
<1>3. n = RoundDiv(x, v) /\ n > maxSteps
  BY DEF Between
<1>4. PICK p \in Powers : \/ i % (5 * p) = 0 /\ v % p = 0 /\ (v \div p) % 5 # 0
                          \/ i = 2 * p /\ v \in {p, 2 * p, 4 * p} /\ x % i = 0 /\ x <= 15 * p
  BY DEF Between
<1> HIDE DEF n, v, x
<1>5. (2 * v) * n <= 2 * x + v
  BY <1>1, <1>3, RoundParts
<1>6. k \in Nat /\ minSteps <= k
  <2>1. n >= 2 * minSteps + 1
    BY <1>1, <1>2, <1>3
  <2>2. (2 * v) * (2 * minSteps + 1) <= (2 * v) * n
    BY <1>1, <1>2, <2>1
  <2>3. (2 * (v * 2)) * minSteps <= 2 * x + v * 2
    BY <1>1, <1>2, <1>5, <2>2
  <2>4. 2 * x + v * 2 \in Int /\ 2 * (v * 2) \in Nat \ {0} /\ minSteps \in Int
    BY <1>1, <1>2
  <2> HIDE DEF minSteps
  <2>5. minSteps <= (2 * x + v * 2) \div (2 * (v * 2)) /\ (2 * x + v * 2) \div (2 * (v * 2)) \in Int
    BY <2>3, <2>4, DivAtLeast, DivParts
  <2>6. QED
    BY <1>2, <2>5 DEF RoundDiv
<1> HIDE DEF k
<1>7. /\ r \in Scale /\ r.graphMin = s.graphMin /\ r.max = s.max
      /\ r.stepValue = v * 2 /\ r.steps = k
  <2>1. RoundDiv(s.max - s.graphMin, v * 2) \in Nat /\ v * 2 \in Nat \ {0}
    BY <1>1, <1>6 DEF x, k
  <2>2. QED
    BY <2>1, WithStepIs DEF x, k
<1> HIDE DEF r
<1>8. \/ i % (5 * p) = 0 /\ (v * 2) % p = 0 /\ ((v * 2) \div p) % 5 # 0
      \/ i = 2 * p /\ v * 2 \in {p, 2 * p, 4 * p} /\ x % i = 0 /\ x <= 15 * p
  <2>1. CASE i % (5 * p) = 0 /\ v % p = 0 /\ (v \div p) % 5 # 0
    <3> DEFINE y == v \div p
    <3>1. p \in Nat \ {0}
      BY DEF Powers
    <3>2. y \in Int /\ v = p * y
      BY <1>1, <2>1, <3>1, FactorOf
    <3> HIDE DEF y
    <3>3. v * 2 = p * (2 * y) /\ 2 * y \in Int
      BY <3>1, <3>2
    <3>4. (v * 2) % p = 0 /\ (v * 2) \div p = 2 * y
      <4>1. (p * (2 * y)) % p = 0
        BY <3>1, <3>3, ModZero
      <4>2. p * (2 * y) <= v * 2 /\ v * 2 < p * (2 * y) + p /\ v * 2 \in Int
        BY <1>1, <3>1, <3>3
      <4>3. QED
        BY <3>1, <3>3, <4>1, <4>2, DivIs
    <3>5. y % 5 # 0
      BY <2>1 DEF y
    <3>6. QED
      BY <2>1, <3>2, <3>4, <3>5
  <2>2. CASE i = 2 * p /\ v \in {p, 2 * p, 4 * p} /\ x % i = 0 /\ x <= 15 * p
    <3>1. v # 4 * p
      <4> SUFFICES ASSUME v = 4 * p PROVE FALSE
        OBVIOUS
      <4>1. n >= 7
        BY <1>1, <1>2, <1>3
      <4>2. (8 * p) * n <= 34 * p /\ p \in Nat \ {0}
        BY <1>1, <1>5, <2>2 DEF Powers
      <4>3. QED
        BY <1>1, <4>1, <4>2
    <3>2. p \in Int
      BY DEF Powers
    <3>3. QED
      BY <2>2, <3>1, <3>2
  <2>3. QED
    BY <1>4, <2>1, <2>2
<1>9. r.steps = RoundDiv(r.max - r.graphMin, r.stepValue) /\ r.steps >= minSteps
  BY <1>2, <1>6, <1>7 DEF k, x
<1>10. Between(r, i)
  BY <1>7, <1>8, <1>9 DEF Between, x
<1>11. QED
  BY <1>7, <1>10 DEF r, v

(* Intervals of 1, 2 or 5 times a power of ten divide the first step, are   *)
(* twice as great, or a multiple of five times it.                          *)
Intervals == {m * p : m \in {1, 2, 5}, p \in Powers}

(* An interval is a positive number, and set. *)
LEMMA IntervalIs ==
  ASSUME NEW i \in Intervals
  PROVE  i \in Nat \ {0} /\ i # NotSet
<1>1. PICK m \in {1, 2, 5}, p \in Powers : i = m * p
  BY DEF Intervals
<1>2. m \in Nat \ {0} /\ p \in Nat \ {0}
  BY DEF Powers
<1>3. m * p \in Nat \ {0}
  BY <1>2
<1>4. QED
  BY <1>1, <1>3 DEF NotSet, Missing

(* The three ways an interval and the first step can be related. *)
LEMMA IntervalAndPower ==
  ASSUME NEW p \in Powers, NEW i \in Intervals
  PROVE  p % i = 0 \/ i = 2 * p \/ i % (5 * p) = 0
<1>1. PICK m \in {1, 2, 5}, q \in Powers : i = m * q
  BY DEF Intervals
<1>2. CASE m = 1
  BY <1>1, <1>2 DEF Powers
<1>3. CASE m = 2
  BY <1>1, <1>3 DEF Powers
<1>4. CASE m = 5
  BY <1>1, <1>4 DEF Powers
<1>5. QED
  BY <1>2, <1>3, <1>4

(* roundScale keeps every multiple of an interval that it keeps. *)
KeptBy(j, i) == roundScale(j, i) = i

(* Rounding is to multiples, so it keeps theirs. *)
LEMMA RoundScaleKeeps ==
  ASSUME NEW j, NEW i \in Nat \ {0}, KeptBy(j, i), NEW z \in Int
  PROVE  roundScale(j, z * i) = z * i
<1> DEFINE q == IF j = NotSet \/ j % Unit = 0 THEN Unit ELSE Unit \div 100
           w == RoundDiv(i, q)
<1>1. q \in Nat \ {0}
  BY DEF Unit
<1>2. \A v : roundScale(j, v) = RoundDiv(v, q) * q
  BY DEF roundScale
<1> HIDE DEF q
<1>3. w \in Int /\ i = w * q
  BY <1>1, <1>2, RoundParts DEF KeptBy
<1> HIDE DEF w
<1>4. z * w \in Int /\ z * i = (z * w) * q
  BY <1>1, <1>3
<1>5. RoundDiv((z * w) * q, q) = z * w
  BY <1>1, <1>4, RoundExact
<1>6. QED
  BY <1>2, <1>4, <1>5

(* The lower end is a whole number of intervals, not above the least value. *)
LEMMA LowEndIs ==
  ASSUME NEW lo \in Int, NEW g \in Int, g <= lo, NEW i \in Nat \ {0}
  PROVE  LET r == LowEnd(lo, g, i)
         IN  /\ r \in Int /\ r <= lo /\ g - i < r
             /\ r % i = 0 /\ (g % i = 0 => r = g)
<1> DEFINE t == Truncate(g, i)
           r == LowEnd(lo, g, i)
<1>1. /\ t \in Int /\ g - i < t /\ t < g + i
      /\ \E z \in Int : t = i * z
      /\ g % i = 0 => t = g
      /\ g >= 0 => t <= g
  <2>1. CASE g >= 0
    <3>1. g \div i \in Int /\ g % i = g - i * (g \div i) /\ g % i \in 0 .. (i - 1)
      OBVIOUS
    <3>2. t = i * (g \div i)
      BY <2>1, <3>1 DEF Truncate
    <3>3. QED
      BY <2>1, <3>1, <3>2
  <2>2. CASE g < 0
    <3> DEFINE e == -g
               z == e \div i
    <3>1. e \in Int /\ z \in Int /\ e % i = e - i * z /\ e % i \in 0 .. (i - 1)
      OBVIOUS
    <3>2. t = -(i * z) /\ -(i * z) = i * (-z) /\ -z \in Int
      BY <2>2, <3>1 DEF Truncate
    <3>3. g % i = 0 => e % i = 0
      <4>1. g % i = 0 => g = i * (g \div i) /\ g \div i \in Int
        BY FactorOf
      <4>2. g % i = 0 => e = i * (-(g \div i)) /\ -(g \div i) \in Int
        BY <4>1
      <4>3. QED
        BY <4>2, ModZero
    <3> HIDE DEF z
    <3>4. QED
      BY <2>2, <3>1, <3>2, <3>3
  <2>3. QED
    BY <2>1, <2>2
<1> HIDE DEF t
<1>2. CASE t > lo
  <2> DEFINE c == CeilDiv(t - lo, i)
  <2>1. t - lo \in Int
    BY <1>1
  <2>2. c \in Int /\ t - lo <= i * c /\ i * c < t - lo + i
    BY <2>1, CeilCovers
  <2>3. r = t - c * i
    BY <1>2 DEF LowEnd, t
  <2> HIDE DEF c, r
  <2>4. PICK z \in Int : t = i * z
    BY <1>1
  <2>5. r = i * (z - c) /\ z - c \in Int /\ r % i = 0
    <3>1. r = i * (z - c) /\ z - c \in Int
      BY <2>2, <2>3, <2>4
    <3>2. QED
      BY <3>1, ModZero
  <2>6. r \in Int /\ r <= lo /\ g - i < r
    BY <1>1, <2>2, <2>3
  <2>7. g % i # 0
    BY <1>1, <1>2
  <2>8. QED
    BY <2>5, <2>6, <2>7 DEF r
<1>3. CASE ~(t > lo)
  <2>1. r = t /\ t % i = 0
    BY <1>1, <1>3, ModZero DEF LowEnd, t
  <2>2. QED
    BY <1>1, <1>3, <2>1
<1>4. QED
  BY <1>2, <1>3

(* The upper end, not below the greatest value. *)
LEMMA HighEndIs ==
  ASSUME NEW hi \in Int, NEW g \in Int, hi <= g, NEW i \in Nat \ {0}, NEW j, KeptBy(j, i)
  PROVE  LET r == HighEnd(hi, g, i, j)
         IN  /\ r \in Int /\ hi <= r /\ r <= g + i
             /\ r % i = 0 /\ (g % i = 0 => r = g)
<1> DEFINE y == g \div i
           r == HighEnd(hi, g, i, j)
<1>1. y \in Int /\ i * y <= g /\ g < i * y + i
  BY DivParts
<1>2. CASE g % i = 0
  <2>1. r = g
    BY <1>2 DEF HighEnd
  <2>2. g = i * y
    BY <1>2, FactorOf
  <2> HIDE DEF y, r
  <2>3. r \in Int /\ hi <= r /\ r <= g + i /\ r % i = 0
    BY <1>2, <2>1
  <2>4. QED
    BY <2>1, <2>3 DEF r
<1>3. CASE g % i # 0
  <2>1. 1 + y \in Int /\ (1 + y) * i \in Int /\ (1 + y) * i = i * (1 + y)
    BY <1>1
  <2>2. roundScale(j, (1 + y) * i) = (1 + y) * i
    BY <2>1, RoundScaleKeeps
  <2>3. hi <= (1 + y) * i /\ (1 + y) * i <= g + i
    BY <1>1
  <2>4. r = (1 + y) * i
    <3>1. r = IF roundScale(j, (1 + y) * i) < hi
              THEN roundScale(j, (1 + y) * i) + CeilDiv(hi - roundScale(j, (1 + y) * i), i) * i
              ELSE roundScale(j, (1 + y) * i)
      BY <1>3 DEF HighEnd
    <3> HIDE DEF y, r
    <3>2. ~((1 + y) * i < hi)
      BY <1>1, <2>1, <2>3
    <3>3. QED
      BY <2>2, <3>1, <3>2
  <2> HIDE DEF y, r
  <2>5. (i * (1 + y)) % i = 0
    BY <2>1, ModZero
  <2>6. QED
    BY <1>3, <2>1, <2>3, <2>4, <2>5 DEF r
<1>4. QED
  BY <1>2, <1>3

(* An interval that divides the first step leaves the ends where they are. *)
LEMMA AlignedExact ==
  ASSUME NEW lo \in Int, NEW hi \in Int, NEW p \in Powers, NEW a \in Int, NEW c \in Int,
         p * a <= lo, hi <= p * c, NEW i \in Nat \ {0}, NEW j, KeptBy(j, i), p % i = 0
  PROVE  LowEnd(lo, p * a, i) = p * a /\ HighEnd(hi, p * c, i, j) = p * c
<1> DEFINE w == p \div i
<1>1. p \in Int
  BY DEF Powers
<1>2. w \in Int /\ p = i * w
  BY <1>1, FactorOf
<1> HIDE DEF w
<1>3. w * a \in Int /\ w * c \in Int /\ p * a = i * (w * a) /\ p * c = i * (w * c)
  BY <1>2
<1>4. (p * a) % i = 0 /\ (p * c) % i = 0
  BY <1>3, ModZero
<1>5. p * a \in Int /\ p * c \in Int
  BY <1>1
<1>6. LowEnd(lo, p * a, i) = p * a
  BY <1>4, <1>5, LowEndIs
<1>7. HighEnd(hi, p * c, i, j) = p * c
  BY <1>4, <1>5, HighEndIs
<1>8. QED
  BY <1>6, <1>7

(* Another interval moves the ends outwards, by less than an interval each. *)
LEMMA AlignedBetween ==
  ASSUME NEW lo \in Int, NEW hi \in Int, lo < hi, NEW p \in Nat \ {0}, p \in Powers,
         NEW gmin \in Int, NEW gmax \in Int, gmin <= lo, hi <= gmax, gmax - gmin <= 11 * p,
         NEW i \in Nat \ {0}, NEW j, KeptBy(j, i), i = 2 * p \/ i % (5 * p) = 0
  PROVE  LET low == LowEnd(lo, gmin, i)
             high == HighEnd(hi, gmax, i, j)
             s == [graphMin |-> low, stepValue |-> p, steps |-> RoundDiv(high - low, p),
                   max |-> high, logarithmic |-> FALSE]
         IN  s \in Scale /\ s.graphMin <= lo /\ hi <= s.max /\ Between(s, i)
<1> DEFINE low == LowEnd(lo, gmin, i)
           high == HighEnd(hi, gmax, i, j)
           x == high - low
           n == RoundDiv(x, p)
           s == [graphMin |-> low, stepValue |-> p, steps |-> n, max |-> high, logarithmic |-> FALSE]
<1>1. low \in Int /\ low <= lo /\ gmin - i < low /\ low % i = 0
  BY LowEndIs
<1>2. high \in Int /\ hi <= high /\ high <= gmax + i /\ high % i = 0
  BY HighEndIs, SMTT(30)
<1>3. p \in Nat \ {0}
  BY DEF Powers
<1> HIDE DEF low, high
<1>4. x \in Int /\ x > 0 /\ x < 11 * p + 2 * i
  BY <1>1, <1>2, <1>3
<1>5. x % i = 0
  BY <1>1, <1>2, ModDifference
<1> HIDE DEF x
<1>6. n \in Nat
  <2>1. n \in Int /\ 2 * x + p < (2 * p) * n + 2 * p
    BY <1>3, <1>4, RoundParts
  <2> HIDE DEF n
  <2>2. (2 * p) * n > -(2 * p)
    BY <1>3, <1>4, <2>1
  <2>3. QED
    BY <1>3, <2>1, <2>2
<1> HIDE DEF n
<1>7. s \in Scale /\ s.graphMin = low /\ s.max = high /\ s.stepValue = p /\ s.steps = n
  BY <1>1, <1>2, <1>3, <1>6 DEF Scale
<1>8. CASE i = 2 * p
  <2>1. p < 2 * i /\ x <= 15 * p
    BY <1>3, <1>4, <1>8
  <2>2. s.stepValue \in {p, 2 * p, 4 * p}
    BY <1>7
  <2> HIDE DEF s
  <2>3. Between(s, i)
    BY <1>5, <1>7, <1>8, <2>1, <2>2 DEF Between, n, x
  <2>4. QED
    BY <1>1, <1>2, <1>7, <2>3 DEF s, low, high, n, x
<1>9. CASE i % (5 * p) = 0
  <2>1. i = (5 * p) * (i \div (5 * p)) /\ i \div (5 * p) \in Int
    <3>1. 5 * p \in Nat \ {0} /\ i \in Int
      BY <1>3
    <3>2. QED
      BY <1>9, <3>1, FactorOf
  <2>2. ASSUME NEW w \in Int, i = (5 * p) * w PROVE p < 2 * i
    <3>1. w >= 1
      BY <1>3, <2>2
    <3>2. (5 * p) * w >= 5 * p
      BY <1>3, <3>1
    <3>3. QED
      BY <1>3, <2>2, <3>2
  <2>3. p < 2 * i
    BY <2>1, <2>2
  <2>4. p % p = 0 /\ (p \div p) % 5 # 0
    BY <1>3
  <2> HIDE DEF s
  <2>5. Between(s, i)
    BY <1>7, <1>9, <2>3, <2>4 DEF Between, n, x
  <2>6. QED
    BY <1>1, <1>2, <1>7, <2>5 DEF s, low, high, n, x
<1>10. QED
  BY <1>8, <1>9

(* The first guess of calculateScale: exact, unless an interval does not    *)
(* divide its step.                                                         *)
LEMMA FirstScaleFits ==
  ASSUME NEW lo \in Int, NEW hi \in Int, NEW p \in Powers, p = calculateOrderOfMagnitude(hi - lo),
         p <= hi - lo, hi - lo < 10 * p, NEW i, NEW j,
         i = NotSet \/ (i \in Intervals /\ KeptBy(j, i))
  PROVE  LET s == FirstScale(lo, hi, i, j)
         IN  s \in Scale /\ s.graphMin <= lo /\ hi <= s.max /\ (Exact(s) \/ (i # NotSet /\ Between(s, i)))
<1> DEFINE a == FloorDiv(lo, p)
           c == CeilDiv(hi, p)
           gmin == a * p
           gmax == c * p
           aligned == i # NotSet /\ gmax >= 0
           low == IF aligned THEN LowEnd(lo, gmin, i) ELSE gmin
           high == IF aligned THEN HighEnd(hi, gmax, i, j) ELSE gmax
           s == FirstScale(lo, hi, i, j)
<1>1. s = [graphMin |-> low, stepValue |-> p, steps |-> RoundDiv(high - low, p),
           max |-> high, logarithmic |-> FALSE]
  BY DEF FirstScale
<1>2. p \in Powers /\ p <= hi - lo /\ hi - lo < 10 * p
  OBVIOUS
<1> HIDE DEF s
<1>3. p \in Nat \ {0} /\ p % 16 = 0
  BY <1>2, PowerIs
<1>4. a \in Int /\ p * a <= lo /\ lo < p * a + p
  BY <1>3, DivParts DEF FloorDiv
<1>5. c \in Int /\ hi <= p * c /\ p * c < hi + p
  BY <1>3, CeilCovers
<1> HIDE DEF a, c
<1>6. c - a \in 1 .. 11
  <2>1. p * (c - a) = p * c - p * a /\ c - a \in Int
    BY <1>3, <1>4, <1>5
  <2>2. 0 < p * (c - a) /\ p * (c - a) < p * 12
    BY <1>2, <1>3, <1>4, <1>5, <2>1
  <2>3. QED
    BY <1>3, <2>1, <2>2
<1>7. /\ gmin \in Int /\ gmax \in Int /\ gmin <= lo /\ hi <= gmax
      /\ gmax - gmin = (c - a) * p /\ gmax - gmin <= 11 * p
  <2>1. gmin = p * a /\ gmax = p * c
    BY <1>3, <1>4, <1>5
  <2>2. gmin \in Int /\ gmax \in Int /\ gmin <= lo /\ hi <= gmax /\ gmax - gmin = (c - a) * p
    BY <1>3, <1>4, <1>5, <2>1
  <2>3. (c - a) * p <= 11 * p
    BY <1>3, <1>6
  <2>4. QED
    BY <2>2, <2>3
<1> HIDE DEF gmin, gmax
<1>8. ASSUME low = gmin, high = gmax
      PROVE  s \in Scale /\ s.graphMin <= lo /\ hi <= s.max /\ Exact(s)
  <2> HIDE DEF low, high
  <2>1. RoundDiv(high - low, p) = c - a
    <3>1. c - a \in Int /\ high - low = (c - a) * p
      BY <1>6, <1>7, <1>8
    <3>2. RoundDiv((c - a) * p, p) = c - a
      BY <1>3, <3>1, RoundExact
    <3>3. QED
      BY <3>1, <3>2
  <2>2. s \in Scale /\ s.graphMin = gmin /\ s.max = gmax /\ s.stepValue = p /\ s.steps = c - a
    BY <1>1, <1>3, <1>6, <1>7, <1>8, <2>1 DEF Scale
  <2>3. QED
    BY <1>3, <1>6, <1>7, <2>2 DEF Exact
<1>9. CASE ~aligned
  <2>1. low = gmin /\ high = gmax
    BY <1>9
  <2> HIDE DEF low, high
  <2>2. QED
    BY <1>8, <2>1 DEF s
<1>10. CASE aligned
  <2>1. i \in Intervals /\ KeptBy(j, i) /\ i \in Nat \ {0} /\ i # NotSet
    BY <1>10, IntervalIs
  <2>2. low = LowEnd(lo, gmin, i) /\ high = HighEnd(hi, gmax, i, j)
    BY <1>10
  <2>3. gmin = p * a /\ gmax = p * c /\ lo < hi
    BY <1>3, <1>4, <1>5 DEF gmin, gmax
  <2> HIDE DEF low, high
  <2>4. CASE p % i = 0
    <3>1. LowEnd(lo, p * a, i) = p * a /\ HighEnd(hi, p * c, i, j) = p * c
      BY <1>4, <1>5, <2>1, <2>4, AlignedExact
    <3>2. low = gmin /\ high = gmax
      BY <2>2, <2>3, <3>1
    <3>3. QED
      BY <1>8, <3>2 DEF s
  <2>5. CASE i = 2 * p \/ i % (5 * p) = 0
    <3> DEFINE f == [graphMin |-> LowEnd(lo, gmin, i), stepValue |-> p,
                     steps |-> RoundDiv(HighEnd(hi, gmax, i, j) - LowEnd(lo, gmin, i), p),
                     max |-> HighEnd(hi, gmax, i, j), logarithmic |-> FALSE]
    <3>1. /\ p \in Nat \ {0} /\ gmin \in Int /\ gmax \in Int /\ gmin <= lo /\ hi <= gmax
          /\ gmax - gmin <= 11 * p
      BY <1>3, <1>7
    <3>2. f \in Scale /\ f.graphMin <= lo /\ hi <= f.max /\ Between(f, i)
      <4>1. KeptBy(j, i) /\ i \in Nat \ {0} /\ lo < hi
        BY <2>1, <2>3
      <4>2. QED
        BY <2>5, <3>1, <4>1, AlignedBetween
    <3>3. s = f
      BY <1>1, <2>2
    <3> HIDE DEF f
    <3>4. QED
      BY <2>1, <3>2, <3>3 DEF s
  <2>6. QED
    BY <1>2, <2>1, <2>4, <2>5, IntervalAndPower
<1>11. QED
  BY <1>9, <1>10 DEF s

(* A scale that reaches from its lowest value to the end it was made for. *)
Spanning(s) == s \in Scale /\ s.graphMin <= s.max /\ s.max - s.graphMin <= s.steps * s.stepValue

(* A step that is not below the interval and is a multiple of it has been   *)
(* rounded up.                                                              *)
LEMMA BetweenSpans ==
  ASSUME NEW s \in Scale, NEW i \in Nat \ {0}, Between(s, i), s.stepValue >= i, s.stepValue % i = 0
  PROVE  s.max - s.graphMin <= s.steps * s.stepValue
<1> DEFINE n == s.steps
           v == s.stepValue
           x == s.max - s.graphMin
<1>1. n \in Nat /\ v \in Nat \ {0} /\ x \in Int
  BY ScaleFields
<1>2. n = RoundDiv(x, v) /\ v >= i /\ v % i = 0
  BY DEF Between
<1>3. PICK p \in Powers : \/ i % (5 * p) = 0 /\ v % p = 0 /\ (v \div p) % 5 # 0
                          \/ i = 2 * p /\ v \in {p, 2 * p, 4 * p} /\ x % i = 0 /\ x <= 15 * p
  BY DEF Between
<1> HIDE DEF n, v, x
<1>4. p \in Nat \ {0}
  BY DEF Powers
<1>5. (2 * v) * n <= 2 * x + v /\ 2 * x + v < (2 * v) * n + 2 * v
  BY <1>1, <1>2, RoundParts
<1>6. CASE i % (5 * p) = 0 /\ v % p = 0 /\ (v \div p) % 5 # 0
  <2> DEFINE y == v \div p
             w == i \div (5 * p)
             z == v \div i
  <2>1. y \in Int /\ v = p * y /\ y % 5 # 0
    BY <1>1, <1>4, <1>6, FactorOf
  <2>2. w \in Int /\ i = (5 * p) * w
    <3>1. 5 * p \in Nat \ {0} /\ i \in Int /\ i % (5 * p) = 0
      BY <1>4, <1>6
    <3>2. QED
      BY <3>1, FactorOf
  <2>3. z \in Int /\ v = i * z
    BY <1>1, <1>2, FactorOf
  <2> HIDE DEF y, w, z
  <2>4. p * y = p * (5 * (w * z)) /\ w * z \in Int
    BY <1>4, <2>1, <2>2, <2>3
  <2>5. y = 5 * (w * z)
    BY <1>4, <2>1, <2>4
  <2>6. FALSE
    BY <2>1, <2>4, <2>5, ModZero
  <2>7. QED
    BY <2>6
<1>7. CASE i = 2 * p /\ v \in {p, 2 * p, 4 * p} /\ x % i = 0 /\ x <= 15 * p
  <2> DEFINE z == x \div i
  <2>1. z \in Int /\ x = i * z
    <3>1. i \in Nat \ {0} /\ x % i = 0
      BY <1>7
    <3>2. QED
      BY <1>1, <3>1, FactorOf
  <2> HIDE DEF z
  <2>2. CASE v = 2 * p
    <3>1. x = z * v
      BY <1>1, <1>4, <1>7, <2>1, <2>2
    <3>2. n = z
      BY <1>1, <1>2, <2>1, <3>1, RoundExact
    <3>3. QED
      BY <1>1, <3>1, <3>2 DEF n, v, x
  <2>3. CASE v = 4 * p
    <3>1. 2 * x + v = p * (4 * z + 4) /\ (2 * v) * n + 2 * v = p * (8 * n + 8)
      BY <1>1, <1>4, <1>7, <2>1, <2>3
    <3>2. p * (4 * z + 4) < p * (8 * n + 8)
      BY <1>5, <3>1
    <3>3. 4 * z + 4 < 8 * n + 8
      BY <1>1, <1>4, <2>1, <3>2
    <3>4. z <= 2 * n
      BY <1>1, <2>1, <3>3
    <3>5. p * z <= p * (2 * n)
      BY <1>1, <1>4, <2>1, <3>4
    <3>6. x <= n * v
      BY <1>1, <1>4, <1>7, <2>1, <2>3, <3>5
    <3>7. QED
      BY <3>6 DEF n, v, x
  <2>4. v # p
    BY <1>2, <1>4, <1>7
  <2>5. QED
    BY <1>7, <2>2, <2>3, <2>4
<1>8. QED
  BY <1>3, <1>6, <1>7

(* The interval: the step becomes a multiple of it, and the number of steps *)
(* is rounded up.                                                           *)
LEMMA OnIntervalSpans ==
  ASSUME NEW s \in Scale, s.graphMin <= s.max, NEW i, NEW j,
         i = NotSet \/ (i \in Intervals /\ KeptBy(j, i)),
         Exact(s) \/ Doubled(s) \/ (i # NotSet /\ Between(s, i))
  PROVE  LET r == OnInterval(s, i, j)
         IN  Spanning(r) /\ r.graphMin = s.graphMin /\ r.max = s.max
<1> DEFINE r == OnInterval(s, i, j)
<1>1. Exact(s) \/ Doubled(s) => Spanning(s)
  <2>1. s.steps * s.stepValue \in Int
    BY ScaleFields
  <2>2. QED
    BY <2>1 DEF Exact, Doubled, Spanning
<1>2. CASE i = NotSet
  <2>1. r = s
    BY <1>2 DEF OnInterval
  <2>2. QED
    BY <1>1, <1>2, <2>1
<1>3. CASE i # NotSet
  <2> DEFINE v == s.stepValue
  <2>1. i \in Nat \ {0} /\ i \in Intervals /\ KeptBy(j, i)
    BY <1>3, IntervalIs
  <2>2. v \in Nat \ {0}
    BY ScaleFields
  <2>3. CASE v < i
    <3> DEFINE t == WithStepUp(s, i)
    <3>1. /\ t \in Scale /\ t.graphMin = s.graphMin /\ t.max = s.max
          /\ t.stepValue = i /\ s.max - s.graphMin <= t.steps * t.stepValue
      BY <2>1, WithStepUpIs
    <3> HIDE DEF t
    <3>2. i % i = 0
      BY <2>1
    <3>3. r = t
      BY <1>3, <2>3, <3>1, <3>2 DEF OnInterval, t
    <3>4. QED
      BY <3>1, <3>3 DEF Spanning
  <2>4. CASE ~(v < i) /\ v % i = 0
    <3>1. r = s
      BY <1>3, <2>4 DEF OnInterval
    <3>2. Between(s, i) => Spanning(s)
      BY <2>1, <2>2, <2>4, BetweenSpans DEF Spanning
    <3>3. QED
      BY <1>1, <3>1, <3>2
  <2>5. CASE ~(v < i) /\ v % i # 0
    <3> DEFINE y == v \div i
               d == IF (2 * v) % i = 0 THEN 2 * v ELSE roundScale(j, (1 + y) * i)
               t == WithStepUp(s, d)
    <3>1. r = t
      BY <1>3, <2>5 DEF OnInterval
    <3>2. y \in Int /\ 0 <= y
      <4>1. i * 0 <= v
        BY <2>1, <2>2
      <4>2. QED
        BY <2>1, <2>2, <4>1, DivAtLeast, DivParts
    <3>3. roundScale(j, (1 + y) * i) = (1 + y) * i
      BY <2>1, <3>2, RoundScaleKeeps
    <3>4. (1 + y) * i \in Nat \ {0} /\ 2 * v \in Nat \ {0}
      <4> HIDE DEF y
      <4>1. (1 + y) * i >= i /\ (1 + y) * i \in Int
        BY <2>1, <3>2
      <4>2. QED
        BY <2>1, <2>2, <4>1
    <3>5. d \in Nat \ {0}
      BY <3>3, <3>4
    <3> HIDE DEF d
    <3>6. /\ t \in Scale /\ t.graphMin = s.graphMin /\ t.max = s.max
          /\ s.max - s.graphMin <= t.steps * t.stepValue
      BY <3>5, WithStepUpIs
    <3>7. QED
      BY <3>1, <3>6 DEF Spanning
  <2>6. QED
    BY <2>3, <2>4, <2>5
<1>4. QED
  BY <1>2, <1>3

(* Cutting off steps at the bottom keeps the least value above the bottom,  *)
(* and the top where it is.                                                 *)
LEMMA TrimBottomKeeps ==
  ASSUME NEW s \in Scale, NEW lo \in Int, s.graphMin <= lo
  PROVE  LET r == TrimBottom(s, lo)
         IN  /\ r \in Scale /\ r.graphMin <= lo
             /\ r.graphMin + r.steps * r.stepValue = s.graphMin + s.steps * s.stepValue
<1> DEFINE g == s.graphMin
           v == s.stepValue
           n == s.steps
           T == {0} \union {m \in 1 .. (n - 2) : g + m * v < lo}
           k == Max(T)
           r == TrimBottom(s, lo)
<1>1. g \in Int /\ v \in Nat \ {0} /\ n \in Nat /\ g <= lo
  BY ScaleFields
<1>2. r = [s EXCEPT !.graphMin = g + k * v, !.steps = n - k]
  BY DEF TrimBottom
<1> HIDE DEF g, v, n
<1>3. k \in T
  <2>1. T \in SUBSET (0 .. n) /\ T \in SUBSET Int /\ 0 \in T
    BY <1>1
  <2> HIDE DEF T
  <2>2. PICK m \in T : \A y \in T : m >= y
    BY <1>1, <2>1, GreatestNat
  <2>3. QED
    BY <2>1, <2>2, MaxOf
<1>4. k \in 0 .. n /\ g + k * v <= lo
  <2>1. CASE k = 0
    BY <1>1, <2>1
  <2>2. CASE k \in 1 .. (n - 2) /\ g + k * v < lo
    BY <1>1, <2>2
  <2>3. QED
    BY <1>3, <2>1, <2>2
<1> HIDE DEF k, r
<1>5. k \in Int /\ g + k * v \in Int /\ n - k \in Nat
  BY <1>1, <1>4
<1>6. r \in Scale /\ r.graphMin = g + k * v /\ r.steps = n - k /\ r.stepValue = v
  BY <1>2, <1>5 DEF Scale, v
<1>7. g + k * v + (n - k) * v = g + n * v
  BY <1>1, <1>5
<1>8. QED
  BY <1>4, <1>6, <1>7 DEF r, g, n, v

(* Cutting off steps at the top keeps the greatest value below the top. *)
LEMMA TrimTopKeeps ==
  ASSUME NEW s \in Scale, NEW hi \in Int, hi <= s.graphMin + s.steps * s.stepValue
  PROVE  LET r == TrimTop(s, hi)
         IN  r \in Scale /\ r.graphMin = s.graphMin /\ hi <= r.graphMin + r.steps * r.stepValue
<1> DEFINE g == s.graphMin
           v == s.stepValue
           n == s.steps
           T == {0} \union {m \in 1 .. (n - 2) : g + (n - m) * v >= hi}
           k == Max(T)
           r == TrimTop(s, hi)
<1>1. g \in Int /\ v \in Nat \ {0} /\ n \in Nat /\ hi <= g + n * v
  BY ScaleFields
<1>2. r = [s EXCEPT !.steps = n - k]
  BY DEF TrimTop
<1> HIDE DEF g, v, n
<1>3. k \in T
  <2>1. T \in SUBSET (0 .. n) /\ T \in SUBSET Int /\ 0 \in T
    BY <1>1
  <2> HIDE DEF T
  <2>2. PICK m \in T : \A y \in T : m >= y
    BY <1>1, <2>1, GreatestNat
  <2>3. QED
    BY <2>1, <2>2, MaxOf
<1>4. k \in 0 .. n /\ hi <= g + (n - k) * v
  <2>1. CASE k = 0
    BY <1>1, <2>1
  <2>2. CASE k \in 1 .. (n - 2) /\ g + (n - k) * v >= hi
    BY <1>1, <2>2
  <2>3. QED
    BY <1>3, <2>1, <2>2
<1> HIDE DEF k, r
<1>5. n - k \in Nat
  BY <1>1, <1>4
<1>6. r \in Scale /\ r.graphMin = g /\ r.steps = n - k /\ r.stepValue = v
  BY <1>2, <1>5 DEF Scale, v, g
<1>7. QED
  BY <1>4, <1>6 DEF r, g

(* The rest of calculateScale after the loop. *)
LEMMA FinishCovers ==
  ASSUME NEW ch, NEW a \in {1, 2}, NEW b, b.lo \in Int, b.hi \in Int, NEW s \in Scale,
         s.graphMin <= b.lo, b.hi <= s.max, b.lo <= b.hi,
         LET i == ch.opts.yAxisMinimumInterval[a]
         IN  /\ i = NotSet \/ (i \in Intervals /\ KeptBy(ch.opts.yAxisMinimumInterval[1], i))
             /\ Exact(s) \/ Doubled(s) \/ (i # NotSet /\ Between(s, i))
  PROVE  Covers(FinishedScale(ch, s, a, b), b)
<1> DEFINE i == ch.opts.yAxisMinimumInterval[a]
           j == ch.opts.yAxisMinimumInterval[1]
           low == ch.opts.graphMaximized \in {"yes", "bottom"} \/ ch.opts.graphMin[1] # NotSet
           high == ch.opts.graphMaximized \in {"yes", "top"} \/ ch.opts.graphMax[1] # NotSet
           t == OnInterval(s, i, j)
           u == IF low THEN TrimBottom(t, b.lo) ELSE t
           w == IF high THEN TrimTop(u, b.hi) ELSE u
<1>1. FinishedScale(ch, s, a, b) = w
  BY DEF FinishedScale
<1>2. s.graphMin \in Int /\ s.max \in Int /\ s.graphMin <= s.max
  BY ScaleFields
<1>3. i = NotSet \/ (i \in Intervals /\ KeptBy(j, i))
  OBVIOUS
<1>4. Exact(s) \/ Doubled(s) \/ (i # NotSet /\ Between(s, i))
  OBVIOUS
<1> HIDE DEF i, j, low, high
<1>5. Spanning(t) /\ t.graphMin = s.graphMin /\ t.max = s.max
  BY <1>2, <1>3, <1>4, OnIntervalSpans
<1> HIDE DEF t
<1>6. t \in Scale /\ t.graphMin <= b.lo /\ b.hi <= t.graphMin + t.steps * t.stepValue
  <2>1. t \in Scale /\ t.max - t.graphMin <= t.steps * t.stepValue /\ t.steps * t.stepValue \in Int
    BY <1>5, ScaleFields DEF Spanning
  <2>2. QED
    BY <1>2, <1>5, <2>1
<1>7. u \in Scale /\ u.graphMin <= b.lo /\ b.hi <= u.graphMin + u.steps * u.stepValue
  <2>1. CASE low
    BY <1>6, <2>1, TrimBottomKeeps
  <2>2. CASE ~low
    BY <1>6, <2>2
  <2>3. QED
    BY <2>1, <2>2
<1> HIDE DEF u
<1>8. w \in Scale /\ w.graphMin <= b.lo /\ b.hi <= w.graphMin + w.steps * w.stepValue
  <2>1. CASE high
    BY <1>7, <2>1, TrimTopKeeps
  <2>2. CASE ~high
    BY <1>7, <2>2
  <2>3. QED
    BY <2>1, <2>2
<1> HIDE DEF w
<1>9. ~w.logarithmic
  BY <1>8, ScaleFields
<1>10. QED
  BY <1>1, <1>8, <1>9 DEF Covers

(* A logarithmic scale starts at the power of ten below the least value and *)
(* ends at the one above the greatest.                                      *)
LEMMA LogScaleCovers ==
  ASSUME NEW b, InReach(b), b.lo > 0
  PROVE  Covers(LogScale(b.lo, b.hi), b)
<1> DEFINE lo == b.lo
           hi == b.hi
           s == LogScale(lo, hi)
<1>1. lo \in Int /\ hi \in Int /\ 16 <= lo /\ 16 <= hi /\ lo < 16000000 /\ hi < 16000000 /\ lo # hi /\ lo # 0
  BY DEF InReach
<1> HIDE DEF lo, hi
<1>2. calculateOrderOfMagnitude(lo) <= lo
  BY <1>1, Order
<1>3. hi < 10 * calculateOrderOfMagnitude(hi) /\ calculateOrderOfMagnitude(hi) \in Int
  BY <1>1, Order DEF Powers
<1>4. s.graphMin = calculateOrderOfMagnitude(lo) /\ s.max = 10 * calculateOrderOfMagnitude(hi)
  BY <1>1 DEF LogScale
<1>5. s.logarithmic = TRUE
  BY DEF LogScale
<1> HIDE DEF s
<1>6. hi <= s.max
  BY <1>1, <1>3, <1>4
<1>7. QED
  BY <1>2, <1>4, <1>5, <1>6 DEF Covers, s, lo, hi

-----------------------------------------------------------------------------
(* The steps of a pass. *)

(* The interval of an axis the theorem is about. *)
LEMMA OrdinaryInterval ==
  ASSUME NEW a \in {1, 2}, Ordinary(a)
  PROVE  interval[a] = NotSet \/ (interval[a] \in Intervals /\ KeptBy(interval[1], interval[a]))
  BY DEF Ordinary, Regular, Intervals, KeptBy

(* Between the computation of the bounds and the mouse, chart and bounds    *)
(* stay as they are, and so do the charts the theorem is about.             *)
LEMMA OrdinaryKept ==
  ASSUME UNCHANGED <<chart, bounds>>, NEW a
  PROVE  /\ Ordinary(a)' <=> Ordinary(a)
         /\ minSteps' = minSteps /\ maxSteps' = maxSteps
         /\ interval' = interval
<1>1. minSteps' = minSteps /\ maxSteps' = maxSteps /\ interval' = interval
  BY DEF minSteps, maxSteps, interval
<1>2. Regular(a)' <=> Regular(a)
  BY <1>1 DEF Regular
<1>3. QED
  BY <1>1, <1>2 DEF Ordinary

(* Adapting depends on the chart alone. *)
LEMMA AdaptingKept ==
  ASSUME UNCHANGED chart, NEW s, NEW b, NEW i
  PROVE  Adapting(s, b, i) => Adapting(s, b, i)'
<1>1. minSteps' = minSteps
  BY DEF minSteps
<1>2. QED
  BY <1>1 DEF Adapting, Exact, Doubled, Between

(* Too few steps: the step is halved. *)
LEMMA AdaptingHalve ==
  ASSUME NEW a \in {1, 2}, Ordinary(a), NEW s, Adapting(s, bounds[a], interval[a]),
         TooFew(s, minSteps, interval[a])
  PROVE  Adapting(WithStep(s, s.stepValue \div 2), bounds[a], interval[a])
<1> DEFINE i == interval[a]
<1>1. s \in Scale /\ s.steps < minSteps /\ (i = NotSet \/ s.stepValue >= 2 * i)
  BY DEF Adapting, TooFew
<1>2. Sized(chart)
  BY DEF Ordinary
<1>3. minSteps \in Nat /\ s.steps \in Nat /\ s.stepValue \in Nat
  BY <1>1, <1>2, RoomForSteps, ScaleFields
<1>4. ~Doubled(s)
  BY <1>1, <1>3 DEF Doubled
<1>5. i # NotSet => i \in Nat
  BY OrdinaryInterval, IntervalIs
<1>6. ~(i # NotSet /\ Between(s, i))
  <2> SUFFICES ASSUME i # NotSet, Between(s, i) PROVE FALSE
    OBVIOUS
  <2>1. s.stepValue < 2 * i \/ s.steps >= minSteps
    BY DEF Between
  <2> HIDE DEF i, minSteps
  <2>2. QED
    BY <1>1, <1>3, <1>5, <2>1
<1>7. Exact(s)
  BY <1>4, <1>6 DEF Adapting
<1>8. QED
  BY <1>1, <1>2, <1>7, HalveExact DEF Adapting

(* Too many steps: the step is doubled. *)
LEMMA AdaptingDouble ==
  ASSUME NEW a \in {1, 2}, Ordinary(a), NEW s, Adapting(s, bounds[a], interval[a]),
         TooMany(s, minSteps, maxSteps)
  PROVE  Adapting(WithStep(s, s.stepValue * 2), bounds[a], interval[a])
<1> DEFINE i == interval[a]
<1>1. s \in Scale /\ s.steps > maxSteps
  BY DEF Adapting, TooMany
<1>2. Sized(chart) /\ maxSteps >= 6
  BY DEF Ordinary
<1>3. maxSteps \in Nat /\ s.steps \in Nat
  BY <1>1, <1>2, RoomForSteps, ScaleFields
<1>4. ~Doubled(s)
  <2> HIDE DEF maxSteps
  <2>1. s.steps > 6
    BY <1>1, <1>2, <1>3
  <2>2. QED
    BY <1>3, <2>1 DEF Doubled
<1>5. CASE Exact(s)
  BY <1>1, <1>2, <1>5, DoubleExact DEF Adapting
<1>6. CASE i # NotSet /\ Between(s, i)
  <2>1. i \in Nat \ {0}
    BY <1>6, OrdinaryInterval, IntervalIs
  <2>2. QED
    BY <1>1, <1>2, <1>6, <2>1, DoubleBetween DEF Adapting
<1>7. QED
  BY <1>4, <1>5, <1>6 DEF Adapting

(* A number of steps in range: the scale is settled. *)
LEMMA AdaptingFinish ==
  ASSUME NEW a \in {1, 2}, Ordinary(a), NEW s, Adapting(s, bounds[a], interval[a])
  PROVE  Covers(FinishedScale(chart, s, a, bounds[a]), bounds[a])
<1>1. s \in Scale /\ s.graphMin <= bounds[a].lo /\ bounds[a].hi <= s.max
  BY DEF Adapting
<1>2. bounds[a].lo \in Int /\ bounds[a].hi \in Int /\ bounds[a].lo <= bounds[a].hi
  BY DEF Ordinary, InReach
<1>3. interval = chart.opts.yAxisMinimumInterval
  BY DEF interval
<1>4. interval[a] = NotSet \/ (interval[a] \in Intervals /\ KeptBy(interval[1], interval[a]))
  BY OrdinaryInterval
<1>5. Exact(s) \/ Doubled(s) \/ (interval[a] # NotSet /\ Between(s, interval[a]))
  BY DEF Adapting
<1>6. QED
  BY <1>1, <1>2, <1>3, <1>4, <1>5, FinishCovers

(* The first guess enters the loop. *)
LEMMA AdaptingStart ==
  ASSUME NEW a \in {1, 2}, Ordinary(a)
  PROVE  Adapting(FirstScale(bounds[a].lo, bounds[a].hi, interval[a], interval[1]), bounds[a], interval[a])
<1>1. /\ bounds[a].lo \in Int /\ bounds[a].hi \in Int /\ bounds[a].hi - bounds[a].lo >= 16
      /\ bounds[a].hi - bounds[a].lo < 16000000
  BY DEF Ordinary, InReach
<1>2. interval[a] = NotSet \/ (interval[a] \in Intervals /\ KeptBy(interval[1], interval[a]))
  BY OrdinaryInterval
<1>3. PICK p \in Powers : /\ p = calculateOrderOfMagnitude(bounds[a].hi - bounds[a].lo)
                           /\ p <= bounds[a].hi - bounds[a].lo /\ bounds[a].hi - bounds[a].lo < 10 * p
  BY <1>1, Order
<1>4. QED
  BY <1>1, <1>2, <1>3, FirstScaleFits DEF Adapting

(* The invariant holds before the first pass. *)
LEMMA ScaleStart == Init => ScaleIInv
  BY DEF Init, ScaleIInv

(* The scale of the current axis is settled. *)
LEMMA SettledStep ==
  ASSUME ScaleIInv, pc \in {"scale", "adapt"}, NEW s, ScaleIs(s),
         NEW A \in {1, 2}, axis = A, Ordinary(A) => Covers(s, bounds[A])
  PROVE  ScaleIInv'
<1> USE DEF ScaleIs
<1>1. UNCHANGED <<chart, bounds>> /\ \A a \in {1, 2} : Ordinary(a)' <=> Ordinary(a)
  BY OrdinaryKept
<1>2. /\ DOMAIN scales = {1, 2} /\ scales' = [scales EXCEPT ![A] = s]
      /\ A = 2 => (Ordinary(1) => Covers(scales[1], bounds[1]))
  BY DEF ScaleIInv
<1>3. scales'[A] = s /\ (A = 2 => scales'[1] = scales[1]) /\ DOMAIN scales' = {1, 2}
  BY <1>2
<1>4. \A a \in 1 .. A : Ordinary(a)' => Covers(scales'[a], bounds'[a])
  <2>1. ASSUME NEW a \in 1 .. A, Ordinary(a)' PROVE Covers(scales'[a], bounds'[a])
    <3>1. a = A \/ (a = 1 /\ A = 2)
      OBVIOUS
    <3>2. a \in {1, 2} /\ Ordinary(a)
      BY <1>1, <2>1, <3>1
    <3>3. CASE a = A
      BY <1>1, <1>3, <3>2, <3>3
    <3>4. CASE a = 1 /\ A = 2
      BY <1>1, <1>2, <1>3, <3>2, <3>4
    <3>5. QED
      BY <3>1, <3>3, <3>4
  <2>2. QED
    BY <2>1
<1>5. CASE axis' = 2 /\ pc' = "scale" /\ A = 1
  <2>1. scales' = [a \in {1, 2} |-> scales'[a]]
    <3>1. scales = [a \in {1, 2} |-> scales[a]]
      BY DEF ScaleIInv
    <3>2. QED
      BY <1>2, <3>1
  <2>2. Ordinary(1)' => Covers(scales'[1], bounds'[1])
    <3>1. 1 \in 1 .. A
      BY <1>5
    <3>2. QED
      BY <1>4, <3>1
  <2>3. pc' # "adapt" /\ pc' \notin {"start", "pass1", "bounds", "waiting"} /\ pc' \notin {"place", "frame", "done"}
    BY <1>5
  <2>4. QED
    BY <1>5, <2>1, <2>2, <2>3 DEF ScaleIInv
<1>6. CASE axis' = A /\ pc' = "place"
  BY <1>3, <1>4, <1>6 DEF ScaleIInv
<1>7. QED
  BY <1>5, <1>6

(* The step of the current axis is guessed or changed. *)
LEMMA AdaptStep ==
  ASSUME ScaleIInv, pc \in {"scale", "adapt"}, UNCHANGED <<chart, bounds, axis>>, pc' = "adapt",
         NEW A \in {1, 2}, axis = A, NEW s, scales' = [scales EXCEPT ![A] = s],
         Ordinary(A) => Adapting(s, bounds[A], interval[A])
  PROVE  ScaleIInv'
<1>1. \A a \in {1, 2} : Ordinary(a)' <=> Ordinary(a)
  BY OrdinaryKept
<1>2. /\ DOMAIN scales = {1, 2}
      /\ A = 2 => (Ordinary(1) => Covers(scales[1], bounds[1]))
  BY DEF ScaleIInv
<1>3. scales'[A] = s /\ (A = 2 => scales'[1] = scales[1]) /\ DOMAIN scales' = {1, 2} /\ axis' = A
  BY <1>2
<1>4. Ordinary(A)' => Adapting(s, bounds[A], interval[A])'
  BY <1>1, AdaptingKept DEF interval
<1>5. (axis' = 2) => (Ordinary(1)' => Covers(scales'[1], bounds'[1]))
  BY <1>1, <1>2, <1>3
<1>6. Ordinary(axis)' => Adapting(scales[axis], bounds[axis], interval[axis])'
  BY <1>3, <1>4
<1>7. QED
  BY <1>3, <1>5, <1>6 DEF ScaleIInv

(* The rest of a pass does not touch the scales. *)
LEMMA DrawStep ==
  ASSUME ScaleIInv, UNCHANGED <<chart, bounds, axis, scales>>,
         pc \in {"place", "frame", "done"}, pc' \in {"place", "frame", "done"}
  PROVE  ScaleIInv'
<1>1. \A a \in {1, 2} : Ordinary(a)' <=> Ordinary(a)
  BY OrdinaryKept
<1>2. axis \in {1, 2} /\ DOMAIN scales = {1, 2}
  BY DEF ScaleIInv
<1>3. Round(chart)' <=> Round(chart)
  BY DEF Round
<1>4. ASSUME ~Round(chart)', NEW a \in 1 .. axis, Ordinary(a)' PROVE Covers(scales[a], bounds[a])
  <2>1. a \in {1, 2}
    BY <1>2
  <2>2. QED
    BY <1>1, <1>3, <1>4, <2>1 DEF ScaleIInv
<1>5. QED
  BY <1>2, <1>4 DEF ScaleIInv

(* Every step of a pass keeps it. *)
LEMMA ScaleStep == ScaleIInv /\ [Next]_vars => ScaleIInv'
<1> SUFFICES ASSUME ScaleIInv, [Next]_vars PROVE ScaleIInv'
  OBVIOUS
<1>1. PICK A \in {1, 2} : axis = A
  BY DEF ScaleIInv
<1>2. DOMAIN scales = {1, 2}
  BY DEF ScaleIInv
<1>3. CASE Adapt \/ AdaptHorizontal \/ Pass1
  BY <1>3 DEF Adapt, AdaptHorizontal, Pass1, ScaleIInv
<1>4. CASE Pass1Round
  <2>1. pc = "pass1" /\ Round(chart) /\ UNCHANGED <<chart, axis, scales>> /\ pc' \in {"frame", "waiting"}
    BY <1>4 DEF Pass1Round
  <2>2. Round(chart)'
    BY <2>1 DEF Round
  <2>3. QED
    BY <2>1, <2>2 DEF ScaleIInv
<1>5. CASE Bounds
  BY <1>5 DEF Bounds, ScaleIInv
<1>6. CASE GivenScale
  <2>1. pc = "scale" /\ ScaleIs(chart.opts.scaleOverride[A]) /\ chart.opts.scaleOverride[A] # NoScale
    BY <1>1, <1>6 DEF GivenScale
  <2>2. ~Ordinary(A)
    BY <2>1 DEF Ordinary
  <2>3. QED
    BY <1>1, <2>1, <2>2, SettledStep
<1>7. CASE LogarithmicScale
  <2>1. /\ pc = "scale" /\ ScaleIs(LogScale(bounds[A].lo, bounds[A].hi))
        /\ bounds[A].lo > 0
    BY <1>1, <1>7 DEF LogarithmicScale, UsesLog
  <2>2. Ordinary(A) => Covers(LogScale(bounds[A].lo, bounds[A].hi), bounds[A])
    BY <2>1, LogScaleCovers DEF Ordinary
  <2>3. QED
    BY <1>1, <2>1, <2>2, SettledStep
<1>8. CASE GuessScale
  <2> DEFINE s == FirstScale(bounds[A].lo, bounds[A].hi, interval[A], interval[1])
  <2>1. /\ pc = "scale" /\ pc' = "adapt" /\ UNCHANGED <<chart, bounds, axis>>
        /\ scales' = [scales EXCEPT ![A] = s]
    BY <1>1, <1>8 DEF GuessScale
  <2>2. Ordinary(A) => Adapting(s, bounds[A], interval[A])
    BY AdaptingStart
  <2> HIDE DEF s
  <2>3. QED
    BY <1>1, <2>1, <2>2, AdaptStep
<1>9. CASE HalveStep
  <2> DEFINE s == WithStep(scales[A], scales[A].stepValue \div 2)
  <2>1. /\ pc = "adapt" /\ pc' = "adapt" /\ UNCHANGED <<chart, bounds, axis>>
        /\ TooFew(scales[A], minSteps, interval[A]) /\ scales' = [scales EXCEPT ![A] = s]
    BY <1>1, <1>2, <1>9 DEF HalveStep
  <2>2. Ordinary(A) => Adapting(s, bounds[A], interval[A])
    BY <1>1, <2>1, AdaptingHalve DEF ScaleIInv
  <2> HIDE DEF s
  <2>3. QED
    BY <1>1, <2>1, <2>2, AdaptStep
<1>10. CASE DoubleStep
  <2> DEFINE s == WithStep(scales[A], scales[A].stepValue * 2)
  <2>1. /\ pc = "adapt" /\ pc' = "adapt" /\ UNCHANGED <<chart, bounds, axis>>
        /\ TooMany(scales[A], minSteps, maxSteps) /\ scales' = [scales EXCEPT ![A] = s]
    BY <1>1, <1>2, <1>10 DEF DoubleStep
  <2>2. Ordinary(A) => Adapting(s, bounds[A], interval[A])
    BY <1>1, <2>1, AdaptingDouble DEF ScaleIInv
  <2> HIDE DEF s
  <2>3. QED
    BY <1>1, <2>1, <2>2, AdaptStep
<1>11. CASE FinishScale
  <2> DEFINE s == FinishedScale(chart, scales[A], A, bounds[A])
  <2>1. pc = "adapt" /\ ScaleIs(s)
    BY <1>1, <1>11 DEF FinishScale
  <2>2. Ordinary(A) => Covers(s, bounds[A])
    BY <1>1, <2>1, AdaptingFinish DEF ScaleIInv
  <2> HIDE DEF s
  <2>3. QED
    BY <1>1, <2>1, <2>2, SettledStep
<1>12. CASE Place \/ PlaceHorizontal
  BY <1>12, DrawStep DEF Place, PlaceHorizontal, Placed
<1>13. CASE drawBars \/ drawPieSegments
  BY <1>13, DrawStep DEF drawBars, drawPieSegments, FrameDrawn
<1>14. CASE MouseMove \/ MouseClick
  BY <1>14, DrawStep DEF MouseMove, MouseClick
<1>15. CASE UNCHANGED vars
  <2>1. UNCHANGED <<chart, pc, bounds, axis, scales>>
    BY <1>15 DEF vars
  <2>2. \A a \in {1, 2} : Ordinary(a)' <=> Ordinary(a)
    BY <2>1, OrdinaryKept
  <2>3. CASE pc = "adapt"
    <3>1. scales' = [scales EXCEPT ![A] = scales[A]]
      <4>1. scales = [a \in {1, 2} |-> scales[a]]
        BY DEF ScaleIInv
      <4>2. QED
        BY <2>1, <4>1
    <3>2. Ordinary(A) => Adapting(scales[A], bounds[A], interval[A])
      BY <1>1, <2>3 DEF ScaleIInv
    <3>3. QED
      BY <1>1, <2>1, <2>3, <3>1, <3>2, AdaptStep
  <2>4. CASE pc \in {"place", "frame", "done"}
    BY <2>1, <2>4, DrawStep
  <2>5. CASE pc \notin {"adapt", "place", "frame", "done"}
    BY <2>1, <2>2, <2>5 DEF ScaleIInv
  <2>6. QED
    BY <2>3, <2>4, <2>5
<1>16. QED
  BY <1>3, <1>4, <1>5, <1>6, <1>7, <1>8, <1>9, <1>10, <1>11, <1>12, <1>13, <1>14, <1>15
  DEF Next, Pass, AdaptScale

(* In the loop of calculateScale the number of steps is exact, doubled once *)
(* or left to the interval, for any data, options and sizes.                *)
THEOREM ScaleInvariant == Spec => []ScaleIInv
  BY ScaleStart, ScaleStep, PTL DEF Spec

(* The scale of each axis covers the values, for all bounds within the      *)
(* powers of the model and all heights of up to sixteen least steps, with   *)
(* and without intervals, maximised or not, logarithmic or not              *)
(* (calculateScale).                                                        *)
THEOREM ScalesCover == Spec => [](Measured => ScaleCovers)
<1>1. ScaleIInv => (Measured => ScaleCovers)
  <2> SUFFICES ASSUME ScaleIInv, Measured, pc \in {"place", "frame", "done"}, ~Round(chart), maxSteps >= 6,
                      NEW a \in 1 .. axis, chart.opts.scaleOverride[a] = NoScale, Regular(a)
               PROVE  Covers(scales[a], bounds[a])
    BY DEF ScaleCovers
  <2>1. Ordinary(a)
    BY DEF Measured, Ordinary
  <2>2. QED
    BY <2>1 DEF ScaleIInv
<1>2. QED
  BY <1>1, ScaleInvariant, PTL

-----------------------------------------------------------------------------
(* Loops over positions. *)

-----------------------------------------------------------------------------
(* The last and the first of a set of positions. *)

(* The last of a set of positions is its greatest element, or 0. *)
LEMMA LastOfIs ==
  ASSUME NEW n \in Nat, NEW S \in SUBSET (1 .. n)
  PROVE  /\ S = {} => LastOf(S) = 0
         /\ S # {} => LastOf(S) \in S
         /\ \A y \in S : y <= LastOf(S)
         /\ LastOf(S) \in 0 .. n
         /\ \A m \in S : (\A y \in S : y <= m) => LastOf(S) = m
<1>1. CASE S = {}
  BY <1>1 DEF LastOf
<1>2. CASE S # {}
  <2>1. S \in SUBSET (0 .. n) /\ S \in SUBSET Int
    OBVIOUS
  <2>2. \E m \in S : \A y \in S : m >= y
    BY <1>2, <2>1, GreatestNat
  <2>3. Max(S) \in S /\ \A y \in S : Max(S) >= y
    BY <2>1, <2>2 DEF Max
  <2>4. LastOf(S) = Max(S)
    BY <1>2 DEF LastOf
  <2>5. LastOf(S) \in S /\ \A y \in S : y <= LastOf(S)
    BY <2>1, <2>3, <2>4
  <2>6. LastOf(S) \in 1 .. n
    BY <2>5
  <2>7. \A m \in S : (\A y \in S : y <= m) => LastOf(S) = m
    BY <2>5, <2>6
  <2>8. QED
    BY <1>2, <2>5, <2>6, <2>7
<1>3. QED
  BY <1>1, <1>2

(* The first of a set of positions is its least element, or 0. *)
LEMMA FirstOfIs ==
  ASSUME NEW n \in Nat, NEW S \in SUBSET (1 .. n)
  PROVE  /\ S = {} => FirstOf(S) = 0
         /\ S # {} => FirstOf(S) \in S
         /\ \A y \in S : FirstOf(S) <= y
         /\ FirstOf(S) \in 0 .. n
         /\ \A m \in S : (\A y \in S : m <= y) => FirstOf(S) = m
<1>1. CASE S = {}
  BY <1>1 DEF FirstOf
<1>2. CASE S # {}
  <2>1. S \in SUBSET Nat
    OBVIOUS
  <2>2. \E m \in S : \A y \in S : m <= y
    BY <1>2, <2>1, LeastNat
  <2>3. Min(S) \in S /\ \A y \in S : Min(S) <= y
    BY <2>1, <2>2 DEF Min
  <2>4. FirstOf(S) = Min(S)
    BY <1>2 DEF FirstOf
  <2>5. FirstOf(S) \in S /\ \A y \in S : FirstOf(S) <= y
    BY <2>1, <2>3, <2>4
  <2>6. FirstOf(S) \in 1 .. n
    BY <2>5
  <2>7. \A m \in S : (\A y \in S : m <= y) => FirstOf(S) = m
    BY <2>5, <2>6
  <2>8. QED
    BY <1>2, <2>5, <2>6, <2>7
<1>3. QED
  BY <1>1, <1>2

LastUp(d, j) == LastOf({m \in d : m <= j})
FirstIn(d, k, j) == FirstOf({m \in d : k < m /\ m <= j})

(* The last position of a set up to j, from the one up to j - 1. *)
LEMMA LastUpTo ==
  ASSUME NEW n \in Nat, NEW d \in SUBSET (1 .. n), NEW j \in 1 .. n
  PROVE  LastUp(d, j) = IF j \in d THEN j ELSE LastUp(d, j - 1)
<1> USE DEF LastUp
<1>0. j \in Int /\ \A m \in d : m \in Int
  OBVIOUS
<1>1. CASE j \in d
  <2> DEFINE T == {m \in d : m <= j}
  <2>1. T \in SUBSET (1 .. n) /\ \A y \in T : y <= j
    OBVIOUS
  <2>2. j \in T
    BY <1>0, <1>1
  <2> HIDE DEF T
  <2>3. LastOf(T) = j
    BY <2>1, <2>2, LastOfIs
  <2>4. QED
    BY <1>1, <2>3, Zenon DEF T
<1>2. CASE j \notin d
  <2>1. \A m \in d : m <= j <=> m <= j - 1
    BY <1>0, <1>2
  <2>2. {m \in d : m <= j} = {m \in d : m <= j - 1}
    BY <2>1
  <2>3. QED
    BY <1>2, <2>2
<1>3. QED
  BY <1>1, <1>2

(* The first position of a set after k and up to j, from that up to j - 1: *)
(* a position j of the set is the first one from the last one before it on. *)
LEMMA FirstUpTo ==
  ASSUME NEW n \in Nat, NEW d \in SUBSET (1 .. n), NEW j \in 1 .. n, NEW k \in 1 .. j - 1
  PROVE  FirstIn(d, k, j) =
           IF j \in d /\ k >= LastUp(d, j - 1) THEN j
           ELSE FirstIn(d, k, j - 1)
<1> USE DEF LastUp, FirstIn
<1> DEFINE T == {m \in d : k < m /\ m <= j}
           R == {m \in d : k < m /\ m <= j - 1}
           B == {m \in d : m <= j - 1}
<1>1. T \in SUBSET (1 .. n) /\ R \in SUBSET (1 .. n) /\ B \in SUBSET (1 .. n)
  OBVIOUS
<1>2. CASE j \notin d
  <2>1. \A m \in d : m <= j <=> m <= j - 1
    BY <1>2
  <2>2. T = R
    BY <2>1
  <2>3. QED
    BY <1>2, <2>2
<1>3. CASE j \in d /\ k >= LastOf(B)
  <2>0. \A y \in B : y <= LastOf(B)
    <3> HIDE DEF B
    <3> QED
      BY <1>1, LastOfIs
  <2>1. LastOf(B) \in Int
    <3> HIDE DEF B
    <3> QED
      BY <1>1, LastOfIs
  <2>2. \A y \in B : y <= k
    <3> SUFFICES ASSUME NEW y \in B PROVE y <= k
      OBVIOUS
    <3>1. y <= LastOf(B) /\ y \in Int
      BY <1>1, <2>0
    <3> HIDE DEF B
    <3>2. QED
      BY <1>3, <2>1, <3>1
  <2>3. \A y \in T : y = j
    <3> SUFFICES ASSUME NEW y \in T PROVE y = j
      OBVIOUS
    <3>1. y \in B \/ y = j
      OBVIOUS
    <3>2. QED
      BY <2>2, <3>1
  <2>4. j \in T
    BY <1>3
  <2> HIDE DEF T, B
  <2>5. FirstOf(T) = j
    BY <1>1, <2>3, <2>4, FirstOfIs
  <2>6. QED
    BY <1>3, <2>5 DEF T, B
<1>4. CASE j \in d /\ k < LastOf(B)
  <2>1. B # {}
    <3> HIDE DEF B
    <3> QED
      BY <1>1, <1>4, LastOfIs
  <2>2. LastOf(B) \in B
    <3> HIDE DEF B
    <3> QED
      BY <1>1, <2>1, LastOfIs
  <2>3. LastOf(B) \in R
    BY <1>4, <2>2
  <2>4. FirstOf(R) \in R /\ \A y \in R : FirstOf(R) <= y
    <3> HIDE DEF R
    <3> QED
      BY <1>1, <2>3, FirstOfIs
  <2>5. FirstOf(R) \in T /\ \A y \in T : FirstOf(R) <= y
    <3>1. FirstOf(R) \in T /\ FirstOf(R) <= j - 1 /\ FirstOf(R) \in Int
      BY <1>1, <2>4
    <3> SUFFICES ASSUME NEW y \in T PROVE FirstOf(R) <= y
      BY <3>1
    <3>2. y \in R \/ y = j
      OBVIOUS
    <3> HIDE DEF R, T
    <3>3. QED
      BY <2>4, <3>1, <3>2
  <2> HIDE DEF T, R, B
  <2>6. FirstOf(T) = FirstOf(R)
    BY <1>1, <2>5, FirstOfIs
  <2>7. ~(k >= LastOf(B))
    <3>1. LastOf(B) \in Int
      BY <1>1, LastOfIs
    <3>2. QED
      BY <1>4, <3>1
  <2>8. QED
    BY <2>6, <2>7 DEF T, R, B
<1>5. QED
  <2>1. LastOf(B) \in Int
    <3> HIDE DEF B
    <3> QED
      BY <1>1, LastOfIs
  <2> HIDE DEF B
  <2>2. (j \notin d) \/ (j \in d /\ k >= LastOf(B)) \/ (j \in d /\ k < LastOf(B))
    BY <2>1
  <2>3. QED
    BY <1>2, <1>3, <1>4, <2>2

-----------------------------------------------------------------------------
(* Sums over the positions of a set. *)

Sums(n, f, S) ==
  {u \in [0 .. n -> Int] :
     u[0] = 0 /\ \A i \in 1 .. n : u[i] = u[i - 1] + (IF i \in S THEN f[i] ELSE 0)}

(* The recursive function of Total is one of them. *)
LEMMA TotalIs ==
  ASSUME NEW n \in Nat, NEW f, NEW S, \A i \in 1 .. n : i \in S => f[i] \in Int
  PROVE  \E u \in Sums(n, f, S) : Total(n, f, S) = u[n]
<1> DEFINE add(i) == IF i \in S THEN f[i] ELSE 0
           value(u, i) == IF i = 0 THEN 0 ELSE u[i - 1] + (IF i \in S THEN f[i] ELSE 0)
           Is(u) == u = [i \in 0 .. n |-> value(u, i)]
           U == CHOOSE u : Is(u)
           G == [i \in 1 .. n |-> [x \in Int |-> x + add(i)]]
<1>1. Total(n, f, S) = U[n]
  BY DEF Total
<1>2. \A i \in 1 .. n : add(i) \in Int
  OBVIOUS
<1>3. \E u \in Sums(n, f, S) : Is(u)
  <2>1. G \in Steps(n, Int)
    <3> HIDE DEF add
    <3> QED
      BY <1>2 DEF Steps
  <2>2. PICK u \in [0 .. n -> Int] : u[0] = 0 /\ \A i \in 1 .. n : u[i] = G[i][u[i - 1]]
    <3> HIDE DEF G
    <3>1. Runs(n, Int, 0, G) # {}
      BY <2>1, Recursion
    <3>2. QED
      BY <3>1 DEF Runs
  <2>3. ASSUME NEW i \in 1 .. n PROVE u[i] = u[i - 1] + add(i)
    <3>1. i - 1 \in 0 .. n
      OBVIOUS
    <3>2. u[i - 1] \in Int
      BY <3>1
    <3> HIDE DEF add
    <3>3. G[i][u[i - 1]] = u[i - 1] + add(i)
      BY <3>2
    <3> HIDE DEF G
    <3>4. QED
      BY <2>2, <3>3
  <2>4. u \in Sums(n, f, S)
    BY <2>2, <2>3 DEF Sums
  <2>5. ASSUME NEW i \in 0 .. n PROVE u[i] = value(u, i)
    <3>1. CASE i = 0
      BY <2>2, <3>1
    <3>2. CASE i # 0
      <4>1. i \in 1 .. n
        BY <3>2
      <4>2. QED
        BY <2>3, <3>2, <4>1
    <3>3. QED
      BY <3>1, <3>2
  <2> HIDE DEF value
  <2>6. Is(u)
    BY <2>5
  <2>7. QED
    BY <2>4, <2>6
<1>4. Is(U)
  BY <1>3
<1>5. PICK u \in Sums(n, f, S) : Is(u)
  BY <1>3
<1>6. ASSUME NEW i \in 0 .. n PROVE U[i] = value(U, i) /\ u[i] = value(u, i)
  <2> HIDE DEF U, value
  <2>1. QED
    BY <1>4, <1>5
<1> HIDE DEF U
<1>7. U[0] = u[0]
  BY <1>6
<1>8. ASSUME NEW i \in 1 .. n, U[i - 1] = u[i - 1] PROVE U[i] = u[i]
  BY <1>6, <1>8
<1>9. \A i \in 0 .. n : U[i] = u[i]
  <2>1. Alike(n, U, u)
    BY <1>7, <1>8 DEF Alike
  <2>2. QED
    BY <2>1, SamePositions
<1>10. QED
  BY <1>1, <1>5, <1>9

(* The sum is a number, and zero over nothing. *)
LEMMA TotalInt ==
  ASSUME NEW n \in Nat, NEW f, NEW S, \A i \in 1 .. n : i \in S => f[i] \in Int
  PROVE  Total(n, f, S) \in Int
<1>1. PICK u \in Sums(n, f, S) : Total(n, f, S) = u[n]
  BY TotalIs
<1>2. u \in [0 .. n -> Int] /\ n \in 0 .. n
  BY DEF Sums
<1>3. QED
  BY <1>1, <1>2

(* Two sums whose terms differ at one position m, or nowhere. *)
Differ(n, f, g, S, T, m, x) ==
  /\ m \in 0 .. n /\ x \in Int
  /\ \A i \in 1 .. n : i \in S => f[i] \in Int
  /\ \A i \in 1 .. n : i \in T => g[i] \in Int
  /\ \A i \in 1 .. n : i # m => (i \in S <=> i \in T) /\ (i \in S => f[i] = g[i])
  /\ m = 0 => x = 0
  /\ m # 0 => m \in T /\ m \notin S /\ x = g[m]

(* Sums that differ at one position differ by the number there. *)
LEMMA TotalDiffers ==
  ASSUME NEW n \in Nat, NEW f, NEW g, NEW S, NEW T, NEW m, NEW x, Differ(n, f, g, S, T, m, x)
  PROVE  Total(n, g, T) = Total(n, f, S) + x
<1> USE DEF Differ
<1>1. PICK u \in Sums(n, f, S) : Total(n, f, S) = u[n]
  BY TotalIs
<1>2. PICK w \in Sums(n, g, T) : Total(n, g, T) = w[n]
  BY TotalIs
<1> DEFINE v == [i \in 0 .. n |-> u[i] + IF m # 0 /\ i >= m THEN x ELSE 0]
<1>3. \A i \in 0 .. n : u[i] \in Int /\ w[i] \in Int
  BY DEF Sums
<1>4. w[0] = v[0]
  BY DEF Sums
<1>5. ASSUME NEW i \in 1 .. n, w[i - 1] = v[i - 1] PROVE w[i] = v[i]
  <2>1. i - 1 \in 0 .. n /\ i \in 0 .. n
    OBVIOUS
  <2>2. w[i] = w[i - 1] + (IF i \in T THEN g[i] ELSE 0)
    BY DEF Sums
  <2>3. u[i] = u[i - 1] + (IF i \in S THEN f[i] ELSE 0)
    BY DEF Sums
  <2>4. w[i - 1] = u[i - 1] + IF m # 0 /\ i - 1 >= m THEN x ELSE 0
    BY <1>5, <2>1
  <2>5. v[i] = u[i] + IF m # 0 /\ i >= m THEN x ELSE 0
    BY <2>1
  <2> HIDE DEF v
  <2>6. CASE i = m
    <3>1. ~(i - 1 >= m) /\ i >= m /\ m # 0 /\ i \in T /\ i \notin S /\ x = g[i]
      BY <2>6
    <3>2. w[i - 1] = u[i - 1] + 0 /\ w[i] = w[i - 1] + g[i] /\ u[i] = u[i - 1] + 0 /\ v[i] = u[i] + x
      BY <2>2, <2>3, <2>4, <2>5, <3>1
    <3>3. QED
      BY <1>3, <2>1, <3>1, <3>2
  <2>7. CASE i # m
    <3>1. (i - 1 >= m) <=> (i >= m)
      BY <2>7
    <3> DEFINE y == IF m # 0 /\ i >= m THEN x ELSE 0
               z == IF i \in S THEN f[i] ELSE 0
    <3>2. y \in Int /\ z \in Int
      OBVIOUS
    <3>3. w[i - 1] = u[i - 1] + y /\ v[i] = u[i] + y
      BY <2>4, <2>5, <3>1
    <3>4. w[i] = w[i - 1] + z /\ u[i] = u[i - 1] + z
      BY <2>2, <2>3, <2>7
    <3> HIDE DEF y, z
    <3>5. QED
      BY <1>3, <2>1, <3>2, <3>3, <3>4
  <2>8. QED
    BY <2>6, <2>7
<1>6. \A i \in 0 .. n : w[i] = v[i]
  <2> HIDE DEF v
  <2>1. Alike(n, w, v)
    BY <1>4, <1>5 DEF Alike
  <2>2. QED
    BY <2>1, SamePositions
<1>7. w[n] = u[n] + x
  <2>1. n \in 0 .. n /\ v[n] = u[n] + IF m # 0 /\ n >= m THEN x ELSE 0
    OBVIOUS
  <2>2. u[n] \in Int
    BY <1>3, <2>1
  <2>3. QED
    BY <1>6, <2>1, <2>2
<1>8. QED
  BY <1>1, <1>2, <1>7

(* The sum of the same numbers. *)
LEMMA TotalSame ==
  ASSUME NEW n \in Nat, NEW f, NEW g, NEW S,
         \A i \in 1 .. n : i \in S => f[i] \in Int /\ f[i] = g[i]
  PROVE  Total(n, g, S) = Total(n, f, S)
<1>1. Differ(n, f, g, S, S, 0, 0)
  BY DEF Differ
<1>2. QED
  BY <1>1, TotalDiffers, TotalInt

(* The sum over no position is zero. *)
LEMMA TotalEmpty ==
  ASSUME NEW n \in Nat, NEW f
  PROVE  Total(n, f, {}) = 0
<1>1. \A i \in 1 .. n : i \in {} => f[i] \in Int
  OBVIOUS
<1>2. PICK u \in Sums(n, f, {}) : Total(n, f, {}) = u[n]
  BY <1>1, TotalIs
<1> DEFINE z == [i \in 0 .. n |-> 0]
<1>3. u[0] = z[0] /\ \A i \in 1 .. n : u[i] = u[i - 1] + 0
  BY DEF Sums
<1>4. ASSUME NEW i \in 1 .. n, u[i - 1] = z[i - 1] PROVE u[i] = z[i]
  <2>1. i - 1 \in 0 .. n
    OBVIOUS
  <2>2. QED
    BY <1>3, <1>4, <2>1
<1>5. \A i \in 0 .. n : u[i] = z[i]
  <2> HIDE DEF z
  <2>1. Alike(n, u, z)
    BY <1>3, <1>4 DEF Alike
  <2>2. QED
    BY <2>1, SamePositions
<1>6. QED
  BY <1>2, <1>5

-----------------------------------------------------------------------------
(* One dataset of initPassVariableData_part1. *)

Gaps(ch, i) == DOMAIN ch.data[i] \ Defined(ch, i)

(* What the loop over the data of dataset i has written after datum j: the  *)
(* data before are linked as far as they have been met.                     *)
NextUpTo(d, k, j) ==
  IF k \in d \/ LastUp(d, k - 1) # 0 THEN FirstIn(d, k, j) ELSE 0

Linked(ch, above, i, k, j) ==
  [Entry(ch, above, i, k, LastUp(Defined(ch, i), k - 1),
                          LastUp(Gaps(ch, i), k))
     EXCEPT !.next = NextUpTo(Defined(ch, i), k, j)]

RowUpTo(ch, above, i, j) ==
  [entries |-> [k \in 1 .. j |-> Linked(ch, above, i, k, j)],
   prevnotemptyj |-> LastUp(Defined(ch, i), j),
   prevemptyj |-> LastUp(Gaps(ch, i), j)]

(* A new entry has no next datum. *)
LEMMA EntryNext ==
  ASSUME NEW ch, NEW above, NEW i, NEW j, NEW before, NEW empty
  PROVE  [Entry(ch, above, i, j, before, empty) EXCEPT !.next = 0] = Entry(ch, above, i, j, before, empty)
<1> DEFINE e == Entry(ch, above, i, j, before, empty)
<1>1. e = [f \in DOMAIN e |-> e[f]] /\ "next" \in DOMAIN e /\ e["next"] = 0
  BY DEF Entry
<1> HIDE DEF e
<1>2. [e EXCEPT !["next"] = 0] = e
  BY <1>1
<1>3. QED
  BY <1>2 DEF e

(* The next datum known after datum j. *)
LEMMA NextStep ==
  ASSUME NEW n \in Nat, NEW d \in SUBSET (1 .. n), NEW j \in 1 .. n, NEW k \in 1 .. j - 1
  PROVE  LET before == LastUp(d, j - 1)
         IN  NextUpTo(d, k, j) = IF j \in d /\ before # 0 /\ k >= before THEN j ELSE NextUpTo(d, k, j - 1)
<1> USE DEF LastUp
<1> DEFINE B == {m \in d : m <= j - 1}
           K == {m \in d : m <= k - 1}
           here == k \in d \/ LastOf(K) # 0
           F(l) == FirstIn(d, k, l)
<1>1. F(j) = IF j \in d /\ k >= LastOf(B) THEN j ELSE F(j - 1)
  BY FirstUpTo
<1>2. NextUpTo(d, k, j) = (IF here THEN F(j) ELSE 0) /\ NextUpTo(d, k, j - 1) = (IF here THEN F(j - 1) ELSE 0)
  BY DEF NextUpTo
<1>3. B \in SUBSET (1 .. n) /\ K \in SUBSET (1 .. n)
  OBVIOUS
<1>4. LastOf(B) = 0 => ~here
  <2> SUFFICES ASSUME LastOf(B) = 0 PROVE ~here
    OBVIOUS
  <2>1. B = {}
    <3> HIDE DEF B
    <3>1. QED
      BY <1>3, LastOfIs
  <2>2. k \notin d /\ K = {}
    <3>1. k <= j - 1
      OBVIOUS
    <3>2. k \notin d
      BY <2>1, <3>1
    <3>3. \A m \in d : ~(m <= k - 1)
      <4> SUFFICES ASSUME NEW m \in d, m <= k - 1 PROVE FALSE
        OBVIOUS
      <4>1. m \in Int /\ m <= j - 1
        OBVIOUS
      <4>2. QED
        BY <2>1, <4>1
    <3>4. QED
      BY <3>2, <3>3
  <2> HIDE DEF K
  <2>3. LastOf(K) = 0
    BY <1>3, <2>2, LastOfIs
  <2>4. QED
    BY <2>2, <2>3
<1>5. k >= LastOf(B) /\ LastOf(B) # 0 => here
  <2> SUFFICES ASSUME k >= LastOf(B), LastOf(B) # 0 PROVE here
    OBVIOUS
  <2>1. LastOf(B) \in B
    <3> HIDE DEF B
    <3>1. QED
      BY <1>3, LastOfIs
  <2>2. CASE LastOf(B) = k
    BY <2>1, <2>2
  <2>3. CASE LastOf(B) # k
    <3>0. LastOf(B) \in d /\ LastOf(B) \in Int /\ LastOf(B) <= k - 1
      <4>1. \A y \in B : y \in d /\ y \in Int
        OBVIOUS
      <4> HIDE DEF B
      <4>2. QED
        BY <2>1, <2>3, <4>1
    <3>1. LastOf(B) \in K
      BY <3>0
    <3> HIDE DEF K
    <3>2. LastOf(K) \in K
      BY <1>3, <3>1, LastOfIs
    <3>3. LastOf(K) # 0
      BY <1>3, <3>2
    <3>4. QED
      BY <3>3
  <2>4. QED
    BY <2>2, <2>3
<1> HIDE DEF B, K, here, F
<1>6. NextUpTo(d, k, j) = IF j \in d /\ LastOf(B) # 0 /\ k >= LastOf(B) THEN j ELSE NextUpTo(d, k, j - 1)
  BY <1>1, <1>2, <1>4, <1>5
<1>7. QED
  BY <1>6 DEF B

(* The defined data of a dataset and its gaps, as sets of positions. *)
LEMMA DefinedIs ==
  ASSUME NEW ch, Prepared(ch), NEW i \in Rows(ch)
  PROVE  /\ Defined(ch, i) \in SUBSET (1 .. ch.labels) /\ Gaps(ch, i) = (1 .. ch.labels) \ Defined(ch, i)
         /\ \A j \in 1 .. ch.labels : j \in Defined(ch, i) <=> ch.data[i][j] # Missing
  BY DEF Prepared, Defined, Gaps

(* One turn of the loop over the data. *)
LEMMA DatumPassed ==
  ASSUME NEW ch, Prepared(ch), NEW i \in Rows(ch), NEW above, NEW j \in 1 .. ch.labels
  PROVE  PassDatum(ch, above, i, RowUpTo(ch, above, i, j - 1), j) = RowUpTo(ch, above, i, j)
<1> DEFINE n == ch.labels
           d == Defined(ch, i)
           g == Gaps(ch, i)
           P(k) == LastUp(d, k - 1)
           M(k) == LastUp(g, k)
           E(k) == Entry(ch, above, i, k, P(k), M(k))
           L(k, l) == Linked(ch, above, i, k, l)
           X(l) == NextUpTo(d, l, j)
           r == RowUpTo(ch, above, i, j - 1)
           before == P(j)
           linked == [k \in DOMAIN r.entries |->
                        IF before # 0 /\ k >= before THEN [r.entries[k] EXCEPT !.next = j] ELSE r.entries[k]]
<1>1. n \in Nat /\ d \in SUBSET (1 .. n) /\ g = (1 .. n) \ d /\ (j \in d <=> ch.data[i][j] # Missing)
  BY DefinedIs DEF Prepared
<1>2. /\ r.entries = [k \in 1 .. j - 1 |-> L(k, j - 1)] /\ r.prevnotemptyj = before
      /\ r.prevemptyj = LastUp(g, j - 1)
      /\ r = [entries |-> r.entries, prevnotemptyj |-> r.prevnotemptyj, prevemptyj |-> r.prevemptyj]
  BY DEF RowUpTo
<1>3. ASSUME NEW k, NEW l PROVE L(k, l) = [E(k) EXCEPT !.next = NextUpTo(d, k, l)]
  BY DEF Linked
<1>4. [E(j) EXCEPT !.next = 0] = E(j)
  <2> HIDE DEF P, M
  <2>1. QED
    BY EntryNext
<1>5. \A k, a, b : [[E(k) EXCEPT !.next = a] EXCEPT !.next = b] = [E(k) EXCEPT !.next = b]
  <2> HIDE DEF E
  <2>1. QED
    OBVIOUS
<1>6. ASSUME NEW k \in 1 .. j - 1
      PROVE  NextUpTo(d, k, j) = IF j \in d /\ before # 0 /\ k >= before THEN j ELSE NextUpTo(d, k, j - 1)
  BY <1>1, NextStep
<1>7. L(j, j) = E(j)
  <2>1. {m \in d : j < m /\ m <= j} = {}
    <3>1. \A m \in d : m \in Int
      BY <1>1
    <3>2. QED
      BY <3>1
  <2>2. NextUpTo(d, j, j) = 0
    BY <2>1 DEF NextUpTo, FirstOf, FirstIn
  <2>3. QED
    BY <1>3, <1>4, <2>2
<1>8. LastUp(d, j) = IF j \in d THEN j ELSE before
  BY <1>1, LastUpTo
<1>9. M(j) = IF j \in d THEN LastUp(g, j - 1) ELSE j
  <2>1. g \in SUBSET (1 .. n) /\ (j \in g <=> j \notin d)
    BY <1>1
  <2> HIDE DEF g, d
  <2>2. M(j) = IF j \in g THEN j ELSE LastUp(g, j - 1)
    BY <1>1, <2>1, LastUpTo
  <2>3. QED
    BY <2>1, <2>2
<1>10. RowUpTo(ch, above, i, j) =
         [entries |-> [k \in 1 .. j |-> L(k, j)],
          prevnotemptyj |-> LastUp(d, j), prevemptyj |-> M(j)]
  BY DEF RowUpTo
<1>11. /\ j \notin d => PassDatum(ch, above, i, r, j) =
                        [r EXCEPT !.entries = Append(r.entries, Entry(ch, above, i, j, before, j)),
                                  !.prevemptyj = j]
       /\ j \in d => PassDatum(ch, above, i, r, j) =
                        [r EXCEPT !.entries = Append(linked, Entry(ch, above, i, j, before, r.prevemptyj)),
                                  !.prevnotemptyj = j]
  <2> HIDE DEF r
  <2>1. QED
    BY <1>1, <1>2 DEF PassDatum
<1>12. j - 1 \in Nat /\ (j - 1) + 1 = j
  BY <1>1
<1>13. ASSUME j \notin d PROVE Append(r.entries, E(j)) = [k \in 1 .. j |-> L(k, j)]
  <2> DEFINE s == r.entries
  <2>1. s = [k \in 1 .. j - 1 |-> s[k]]
    BY <1>2
  <2>2. Append(s, E(j)) = [k \in 1 .. j |-> IF k = j THEN E(j) ELSE s[k]]
    <3> HIDE DEF s, E
    <3>1. QED
      BY <1>12, <2>1, AppendIs
  <2>3. ASSUME NEW k \in 1 .. j, k # j PROVE s[k] = L(k, j)
    <3>1. k \in 1 .. j - 1
      BY <1>1, <2>3
    <3>2. s[k] = L(k, j - 1)
      BY <1>2, <3>1
    <3>3. NextUpTo(d, k, j) = NextUpTo(d, k, j - 1)
      BY <1>6, <1>13, <3>1
    <3> HIDE DEF s, L, E, d
    <3>4. QED
      BY <1>3, <3>2, <3>3
  <2>4. Append(s, E(j)) = [k \in 1 .. j |-> L(k, j)]
    <3> HIDE DEF s, L, E, d
    <3>1. QED
      BY <1>7, <2>2, <2>3
  <2>5. QED
    BY <2>4
<1>14. ASSUME j \in d PROVE Append(linked, E(j)) = [k \in 1 .. j |-> L(k, j)]
  <2>1. linked = [k \in 1 .. j - 1 |-> linked[k]]
    <3>1. DOMAIN r.entries = 1 .. j - 1
      BY <1>2
    <3> HIDE DEF r
    <3>2. QED
      BY <3>1
  <2>2. Append(linked, E(j)) = [k \in 1 .. j |-> IF k = j THEN E(j) ELSE linked[k]]
    <3> HIDE DEF linked, E
    <3>1. QED
      BY <1>12, <2>1, AppendIs
  <2>3. ASSUME NEW k \in 1 .. j, k # j PROVE linked[k] = L(k, j)
    <3>1. k \in 1 .. j - 1
      BY <1>1, <2>3
    <3>2. r.entries[k] = L(k, j - 1) /\ k \in DOMAIN r.entries
      BY <1>2, <3>1
    <3>3. linked[k] = IF before # 0 /\ k >= before THEN [L(k, j - 1) EXCEPT !.next = j] ELSE L(k, j - 1)
      <4> HIDE DEF r, L, before
      <4>1. QED
        BY <3>2
    <3>4. CASE before # 0 /\ k >= before
      <4>1. linked[k] = [L(k, j - 1) EXCEPT !.next = j]
        <5> HIDE DEF linked, L, before
        <5>1. QED
          BY <3>3, <3>4
      <4>2. NextUpTo(d, k, j) = j
        BY <1>6, <1>14, <3>1, <3>4
      <4> HIDE DEF linked, L, before, d, E
      <4>3. QED
        BY <1>3, <1>5, <4>1, <4>2
    <3>5. CASE ~(before # 0 /\ k >= before)
      <4>1. linked[k] = L(k, j - 1)
        <5> HIDE DEF linked, L, before
        <5>1. QED
          BY <3>3, <3>5
      <4>2. NextUpTo(d, k, j) = NextUpTo(d, k, j - 1)
        BY <1>6, <1>14, <3>1, <3>5
      <4> HIDE DEF linked, L, before, d, E
      <4>3. QED
        BY <1>3, <4>1, <4>2
    <3>6. QED
      BY <3>4, <3>5
  <2> HIDE DEF linked, L, E
  <2>4. QED
    BY <1>7, <2>2, <2>3
<1> HIDE DEF n, linked, r, L, E, M, before, d
<1>15. ASSUME j \notin d PROVE PassDatum(ch, above, i, r, j) = RowUpTo(ch, above, i, j)
  <2>1. E(j) = Entry(ch, above, i, j, before, j) /\ M(j) = j
    BY <1>9, <1>15 DEF E, before
  <2>2. QED
    BY <1>2, <1>8, <1>10, <1>11, <1>13, <1>15, <2>1
<1>16. ASSUME j \in d PROVE PassDatum(ch, above, i, r, j) = RowUpTo(ch, above, i, j)
  <2>1. E(j) = Entry(ch, above, i, j, before, r.prevemptyj) /\ M(j) = r.prevemptyj
    BY <1>2, <1>9, <1>16 DEF E, before
  <2>2. QED
    BY <1>2, <1>8, <1>10, <1>11, <1>14, <1>16, <2>1
<1>17. QED
  BY <1>15, <1>16 DEF r

(* The loop over the data of a dataset. *)
LEMMA RowPassed ==
  ASSUME NEW ch, Prepared(ch), NEW i \in Rows(ch), NEW above
  PROVE  RowEntries(ch, above, i) = [j \in 1 .. ch.labels |-> Linked(ch, above, i, j, ch.labels)]
<1> DEFINE n == ch.labels
           start == [entries |-> <<>>, prevnotemptyj |-> 0, prevemptyj |-> 0]
           step(r, j) == PassDatum(ch, above, i, r, j)
           value(f, j) == IF j = 0 THEN start ELSE step(f[j - 1], j)
           Is(f) == f = [j \in 0 .. n |-> value(f, j)]
           U == CHOOSE f : Is(f)
           R(j) == RowUpTo(ch, above, i, j)
           C == [j \in 0 .. n |-> R(j)]
<1>1. RowEntries(ch, above, i) = U[n].entries
  BY DEF RowEntries
<1>2. n \in Nat
  BY DEF Prepared
<1>3. R(0) = start
  <2>1. Defined(ch, i) \in SUBSET (1 .. n) /\ Gaps(ch, i) \in SUBSET (1 .. n)
    BY DefinedIs
  <2>2. {m \in Defined(ch, i) : m <= 0} = {} /\ {m \in Gaps(ch, i) : m <= 0} = {}
    BY <1>2, <2>1
  <2>3. [k \in 1 .. 0 |-> Linked(ch, above, i, k, 0)] = <<>>
    OBVIOUS
  <2>4. QED
    BY <2>2, <2>3 DEF RowUpTo, LastOf, LastUp
<1>4. ASSUME NEW j \in 1 .. n PROVE step(R(j - 1), j) = R(j)
  BY DatumPassed
<1> HIDE DEF n, start, R, step
<1>5. \A j \in 0 .. n : C[j] = value(C, j)
  <2> SUFFICES ASSUME NEW j \in 0 .. n PROVE C[j] = value(C, j)
    OBVIOUS
  <2>1. CASE j = 0
    BY <1>2, <1>3, <2>1
  <2>2. CASE j # 0
    <3>1. j \in 1 .. n /\ j - 1 \in 0 .. n
      BY <1>2, <2>2
    <3>2. C[j - 1] = R(j - 1) /\ C[j] = R(j)
      BY <3>1
    <3>3. QED
      BY <1>4, <2>2, <3>1, <3>2
  <2>3. QED
    BY <2>1, <2>2
<1>6. Is(C)
  <2> HIDE DEF value
  <2>1. QED
    BY <1>5
<1>7. Is(U)
  BY <1>6
<1>8. \A j \in 0 .. n : U[j] = value(U, j)
  <2> HIDE DEF U, value
  <2>1. QED
    BY <1>7
<1> HIDE DEF U
<1>9. U[0] = C[0]
  BY <1>2, <1>3, <1>8
<1>10. ASSUME NEW j \in 1 .. n, U[j - 1] = C[j - 1] PROVE U[j] = C[j]
  <2>1. j \in 0 .. n /\ j # 0
    BY <1>2
  <2> HIDE DEF C
  <2>2. U[j] = step(U[j - 1], j) /\ C[j] = step(C[j - 1], j)
    BY <1>5, <1>8, <2>1
  <2>3. QED
    BY <1>10, <2>2
<1>11. \A j \in 0 .. n : U[j] = C[j]
  <2> HIDE DEF C
  <2>1. Alike(n, U, C)
    BY <1>9, <1>10 DEF Alike
  <2>2. QED
    BY <1>2, <2>1, SamePositions
<1>12. U[n] = R(n)
  BY <1>2, <1>11
<1>13. QED
  BY <1>1, <1>12 DEF R, n, RowUpTo

-----------------------------------------------------------------------------
(* All datasets. *)

Mates(ch, a, j) == Column(ch, j) \intersect OnAxis(ch, a)
LineMates(ch, a, j) == {k \in Mates(ch, a, j) : tpdraw(ch, k) = "Line"}

(* What the loop over the datasets has collected after dataset i. *)
Cum(ch, a, j, i) == ColumnSum(ch, {k \in Mates(ch, a, j) : k <= i}, j)
PrevLine(ch, a, j, i) == LastUp(LineMates(ch, a, j), i)
NextLine(ch, p, j, i) == FirstIn(LineMates(ch, ch.axis[p], j), p, i)
DiffUpTo(ch, p, j, i) ==
  IF p \in LineMates(ch, ch.axis[p], j) /\ NextLine(ch, p, j, i) # 0
    THEN ch.data[p][j] - ch.data[NextLine(ch, p, j, i)][j] ELSE ch.data[p][j]

Sets(ch, i) ==
  [cumvalue |-> [a \in 1 .. 2 |-> [j \in 1 .. ch.labels |-> Cum(ch, a, j, i)]],
   prevpos |-> [a \in 1 .. 2 |-> [j \in 1 .. ch.labels |-> PrevLine(ch, a, j, i)]]]

Cell(ch, p, j, i) ==
  [Linked(ch, Sets(ch, p - 1), p, j, ch.labels) EXCEPT !.diffnext = DiffUpTo(ch, p, j, i)]

DataUpTo(ch, i) ==
  [result |-> [p \in 1 .. i |-> [j \in 1 .. ch.labels |-> Cell(ch, p, j, i)]],
   cumvalue |-> Sets(ch, i).cumvalue, prevpos |-> Sets(ch, i).prevpos]

(* The data of a column on the same axis, as sets of positions. *)
LEMMA MatesIs ==
  ASSUME NEW ch, Prepared(ch), NEW a, NEW j \in 1 .. ch.labels
  PROVE  /\ Mates(ch, a, j) \in SUBSET (1 .. Len(ch.data)) /\ LineMates(ch, a, j) \in SUBSET (1 .. Len(ch.data))
         /\ \A i \in Rows(ch) : i \in Mates(ch, a, j) <=> j \in Defined(ch, i) /\ ch.axis[i] = a
         /\ \A i \in Rows(ch) : i \in LineMates(ch, a, j) <=>
              tpdraw(ch, i) = "Line" /\ j \in Defined(ch, i) /\ ch.axis[i] = a
<1>1. Rows(ch) = 1 .. Len(ch.data)
  BY DEF Prepared, Rows
<1>2. \A i : i \in Mates(ch, a, j) <=> i \in Rows(ch) /\ j \in Defined(ch, i) /\ ch.axis[i] = a
  BY DEF Mates, Column, OnAxis
<1>3. QED
  BY <1>1, <1>2 DEF LineMates

(* The running sum of a column. *)
LEMMA CumStep ==
  ASSUME NEW ch, Prepared(ch), NEW a \in 1 .. 2, NEW j \in 1 .. ch.labels, NEW i \in Rows(ch)
  PROVE  Cum(ch, a, j, i) = IF i \in Mates(ch, a, j) THEN Cum(ch, a, j, i - 1) + ch.data[i][j]
                            ELSE Cum(ch, a, j, i - 1)
<1> DEFINE n == Len(ch.data)
           M == Mates(ch, a, j)
           f == [k \in Rows(ch) |-> ch.data[k][j]]
           S == {k \in M : k <= i - 1}
           T == {k \in M : k <= i}
<1>1. n \in Nat /\ Rows(ch) = 1 .. n /\ M \in SUBSET (1 .. n)
  BY MatesIs DEF Prepared, Rows
<1>2. \A k \in 1 .. n : f[k] \in Int /\ f[k] = ch.data[k][j]
  BY <1>1 DEF Prepared
<1>3. i \in Int /\ \A k \in M : k \in Int
  BY <1>1
<1>4. Cum(ch, a, j, i) = Total(n, f, T) /\ Cum(ch, a, j, i - 1) = Total(n, f, S)
  BY DEF Cum, ColumnSum
<1>5. CASE i \in M
  <2>1. \A k \in 1 .. n : k # i => (k \in S <=> k \in T)
    BY <1>3
  <2>2. i \in T /\ i \notin S /\ i \in 0 .. n /\ i # 0
    BY <1>1, <1>3, <1>5
  <2>3. f[i] \in Int /\ f[i] = ch.data[i][j]
    BY <1>1, <1>2
  <2> HIDE DEF n, f, S, T, M
  <2>4. Differ(n, f, f, S, T, i, f[i])
    BY <1>2, <2>1, <2>2, <2>3 DEF Differ
  <2>5. Total(n, f, T) = Total(n, f, S) + f[i]
    BY <1>1, <2>4, TotalDiffers
  <2>6. Cum(ch, a, j, i) = Cum(ch, a, j, i - 1) + ch.data[i][j]
    BY <1>4, <2>3, <2>5
  <2>7. QED
    BY <1>5, <2>6 DEF M
<1>6. CASE i \notin M
  <2>1. \A k \in M : k <= i <=> k <= i - 1
    BY <1>3, <1>6
  <2>2. T = S
    BY <2>1
  <2> HIDE DEF n, f, S, T, M
  <2>3. QED
    BY <1>4, <1>6, <2>2 DEF M
<1>7. QED
  BY <1>5, <1>6

(* The running sum of a column is a number. *)
LEMMA CumInt ==
  ASSUME NEW ch, Prepared(ch), NEW a \in 1 .. 2, NEW j \in 1 .. ch.labels, NEW i
  PROVE  Cum(ch, a, j, i) \in Int
<1> DEFINE f == [k \in Rows(ch) |-> ch.data[k][j]]
           S == {k \in Mates(ch, a, j) : k <= i}
<1>1. Len(ch.data) \in Nat /\ \A k \in 1 .. Len(ch.data) : k \in S => f[k] \in Int
  BY DEF Prepared, Rows
<1>2. Cum(ch, a, j, i) = Total(Len(ch.data), f, S)
  BY DEF Cum, ColumnSum
<1> HIDE DEF f, S
<1>3. QED
  BY <1>1, <1>2, TotalInt

(* The difference to the next line above. *)
LEMMA DiffStep ==
  ASSUME NEW ch, Prepared(ch), NEW i \in Rows(ch), NEW p \in 1 .. i - 1, NEW j \in 1 .. ch.labels
  PROVE  DiffUpTo(ch, p, j, i) =
           IF tpdraw(ch, i) = "Line" /\ j \in Defined(ch, i) /\ PrevLine(ch, ch.axis[i], j, i - 1) = p
             THEN ch.data[p][j] - ch.data[i][j] ELSE DiffUpTo(ch, p, j, i - 1)
<1> DEFINE n == Len(ch.data)
           D == LineMates(ch, ch.axis[p], j)
           E == LineMates(ch, ch.axis[i], j)
           B == {m \in D : m <= i - 1}
           met == tpdraw(ch, i) = "Line" /\ j \in Defined(ch, i)
<1>1. n \in Nat /\ i \in 1 .. n /\ p \in 1 .. n /\ Rows(ch) = 1 .. n
  BY DEF Prepared, Rows
<1>2. D \in SUBSET (1 .. n) /\ B \in SUBSET (1 .. n) /\ E \in SUBSET (1 .. n)
  <2>1. D \in SUBSET (1 .. n) /\ E \in SUBSET (1 .. n)
    BY MatesIs
  <2> HIDE DEF D, E
  <2>2. QED
    BY <2>1
<1>3. NextLine(ch, p, j, i) = IF i \in D /\ p >= LastOf(B) THEN i ELSE NextLine(ch, p, j, i - 1)
  <2> HIDE DEF n, D
  <2>1. FirstIn(D, p, i) =
          IF i \in D /\ p >= LastUp(D, i - 1) THEN i
          ELSE FirstIn(D, p, i - 1)
    BY <1>1, <1>2, FirstUpTo
  <2>2. QED
    BY <2>1 DEF NextLine, LastUp, D
<1>4. (i \in D <=> met /\ ch.axis[i] = ch.axis[p]) /\ (p \in E => ch.axis[p] = ch.axis[i])
  BY <1>1, MatesIs
<1>5. CASE met /\ PrevLine(ch, ch.axis[i], j, i - 1) = p
  <2>1. PrevLine(ch, ch.axis[i], j, i - 1) = LastUp(E, i - 1)
    BY DEF PrevLine
  <2>2. p \in {m \in E : m <= i - 1}
    <3> DEFINE F == {m \in E : m <= i - 1}
    <3>1. F \in SUBSET (1 .. n)
      BY <1>2
    <3> HIDE DEF F, n
    <3>2. LastOf(F) = p /\ p # 0
      BY <1>1, <1>5, <2>1 DEF F, LastUp
    <3>3. p \in F
      BY <1>1, <3>1, <3>2, LastOfIs
    <3>4. QED
      BY <3>3 DEF F
  <2>3. p \in E
    BY <2>2
  <2>4. ch.axis[p] = ch.axis[i] /\ i \in D
    BY <1>4, <1>5, <2>3
  <2>5. p \in D /\ LastOf(B) = p
    BY <1>5, <2>1, <2>3, <2>4 DEF LastUp
  <2>6. p >= LastOf(B)
    BY <1>1, <2>5
  <2> HIDE DEF D, B
  <2>7. NextLine(ch, p, j, i) = i
    BY <1>3, <2>4, <2>6
  <2>8. DiffUpTo(ch, p, j, i) = ch.data[p][j] - ch.data[i][j]
    BY <1>1, <2>5, <2>7 DEF DiffUpTo, D
  <2>9. QED
    BY <1>5, <2>8
<1>6. CASE ~(met /\ PrevLine(ch, ch.axis[i], j, i - 1) = p)
  <2>1. CASE p \notin D
    <3>1. DiffUpTo(ch, p, j, i) = ch.data[p][j] /\ DiffUpTo(ch, p, j, i - 1) = ch.data[p][j]
      BY <2>1 DEF DiffUpTo
    <3>2. QED
      BY <1>6, <3>1
  <2>2. CASE p \in D
    <3>1. p \in B
      BY <2>2
    <3>2. LastOf(B) \in Int /\ p <= LastOf(B)
      <4> HIDE DEF B
      <4>1. QED
        BY <1>1, <1>2, <3>1, LastOfIs
    <3>3. ~(i \in D /\ p >= LastOf(B))
      <4> SUFFICES ASSUME i \in D, p >= LastOf(B) PROVE FALSE
        OBVIOUS
      <4>1. LastOf(B) = p
        <5> HIDE DEF B
        <5>1. QED
          BY <3>2
      <4>2. met /\ ch.axis[i] = ch.axis[p]
        BY <1>4
      <4>3. PrevLine(ch, ch.axis[i], j, i - 1) = LastOf(B)
        BY <4>2 DEF PrevLine, LastUp
      <4>4. QED
        BY <1>6, <4>1, <4>2, <4>3
    <3> HIDE DEF D, B
    <3>4. NextLine(ch, p, j, i) = NextLine(ch, p, j, i - 1)
      BY <1>3, <3>3
    <3>5. DiffUpTo(ch, p, j, i) = DiffUpTo(ch, p, j, i - 1)
      BY <3>4 DEF DiffUpTo
    <3>6. QED
      BY <1>6, <3>5
  <2>3. QED
    BY <2>1, <2>2
<1>7. QED
  BY <1>5, <1>6

(* At its own dataset nothing is above a datum yet. *)
LEMMA DiffFirst ==
  ASSUME NEW ch, Prepared(ch), NEW i \in Rows(ch), NEW j \in 1 .. ch.labels
  PROVE  DiffUpTo(ch, i, j, i) = ch.data[i][j]
<1>1. LineMates(ch, ch.axis[i], j) \in SUBSET (1 .. Len(ch.data)) /\ i \in 1 .. Len(ch.data)
  BY MatesIs DEF Prepared, Rows
<1>2. {k \in LineMates(ch, ch.axis[i], j) : i < k /\ k <= i} = {}
  <2>1. \A k \in LineMates(ch, ch.axis[i], j) : k \in Int
    BY <1>1
  <2>2. QED
    BY <1>1, <2>1
<1>3. NextLine(ch, i, j, i) = 0
  BY <1>2 DEF NextLine, FirstOf, FirstIn
<1>4. QED
  BY <1>3 DEF DiffUpTo

(* The entry of a datum in its own dataset. *)
FieldsRight(ch, above, i, j, e) ==
  LET v == ch.data[i][j]
      p == above.prevpos[ch.axis[i]][j]
  IN  /\ e.value = v
      /\ e.first = FirstOf(Ends(ch, i, j)) /\ e.last = LastOf(Ends(ch, i, j))
      /\ e.prev = LastUp(Defined(ch, i), j - 1)
      /\ e.prevMissing = LastUp(Gaps(ch, i), j)
      /\ e.next = NextUpTo(Defined(ch, i), j, ch.labels)
      /\ e.cumvalue = above.cumvalue[ch.axis[i]][j] + (IF v = Missing THEN 0 ELSE v)
      /\ e.totvalue = Totvalue(ch, i, j)
      /\ e.diffprev = IF tpdraw(ch, i) # "Line" \/ p = 0 THEN NotSet ELSE v - ch.data[p][j]

(* The fields of an entry after the pass over its dataset. *)
LEMMA LinkedIs ==
  ASSUME NEW ch, Prepared(ch), NEW i \in Rows(ch), NEW j \in 1 .. ch.labels, NEW above
  PROVE  LET e == Linked(ch, above, i, j, ch.labels)
         IN  /\ FieldsRight(ch, above, i, j, e)
             /\ e = [f \in DOMAIN e |-> e[f]] /\ "diffnext" \in DOMAIN e /\ e["diffnext"] = ch.data[i][j]
<1> DEFINE P == LastUp(Defined(ch, i), j - 1)
           M == LastUp(Gaps(ch, i), j)
           X == NextUpTo(Defined(ch, i), j, ch.labels)
           e == Linked(ch, above, i, j, ch.labels)
           w == Entry(ch, above, i, j, P, M)
           v == ch.data[i][j]
           p == above.prevpos[ch.axis[i]][j]
<1>1. e = [w EXCEPT !.next = X]
  BY DEF Linked
<1> HIDE DEF P, M, X, e
<1>2. /\ w.value = v /\ w.prev = P /\ w.prevMissing = M
      /\ w.first = FirstOf(Ends(ch, i, j)) /\ w.last = LastOf(Ends(ch, i, j))
      /\ w.cumvalue = above.cumvalue[ch.axis[i]][j] + (IF v = Missing THEN 0 ELSE v)
      /\ w.totvalue = Totvalue(ch, i, j)
      /\ w.diffprev = IF tpdraw(ch, i) # "Line" \/ p = 0 THEN NotSet ELSE v - ch.data[p][j]
      /\ w.diffnext = v
      /\ w = [f \in DOMAIN w |-> w[f]]
      /\ DOMAIN w = {"value", "first", "last", "prev", "prevMissing", "next", "cumvalue", "totvalue",
                     "diffnext", "diffprev"}
  BY DEF Entry
<1> HIDE DEF w
<1>3. /\ e.value = w.value /\ e.first = w.first /\ e.last = w.last
      /\ e.prev = w.prev /\ e.prevMissing = w.prevMissing /\ e.next = X
      /\ e.cumvalue = w.cumvalue /\ e.totvalue = w.totvalue /\ e.diffprev = w.diffprev
      /\ e.diffnext = w.diffnext
  BY <1>1, <1>2
<1>4. e = [f \in DOMAIN e |-> e[f]] /\ "diffnext" \in DOMAIN e /\ e["diffnext"] = v
  BY <1>1, <1>2
<1> HIDE DEF v, p
<1>5. FieldsRight(ch, above, i, j, e)
  BY <1>2, <1>3 DEF P, M, X, v, p, FieldsRight
<1>6. QED
  BY <1>4, <1>5 DEF e, v

(* An entry looks at the sums and the lines above it. *)
SameAbove(u, w) == u.cumvalue = w.cumvalue /\ u.prevpos = w.prevpos

(* An entry is the same below sums and lines that are the same. *)
LEMMA LinkedSame ==
  ASSUME NEW ch, NEW i, NEW j, NEW l, NEW u, NEW w, SameAbove(u, w)
  PROVE  Linked(ch, u, i, j, l) = Linked(ch, w, i, j, l)
<1>1. ASSUME NEW before, NEW empty
      PROVE  Entry(ch, u, i, j, before, empty) = Entry(ch, w, i, j, before, empty)
  BY DEF Entry, SameAbove
<1>2. QED
  BY <1>1, Zenon DEF Linked

(* One turn of the loop over the datasets. *)
LEMMA SetPassed ==
  ASSUME NEW ch, Prepared(ch), NEW i \in Rows(ch)
  PROVE  PassRow(ch, DataUpTo(ch, i - 1), i) = DataUpTo(ch, i)
<1> DEFINE above == DataUpTo(ch, i - 1)
           n == ch.labels
           a == ch.axis[i]
           met(j) == tpdraw(ch, i) = "Line" /\ j \in Defined(ch, i)
           row == RowEntries(ch, above, i)
           L(j) == Linked(ch, above, i, j, n)
           old(p, j) == above.result[p][j]
           compared(p) == [j \in 1 .. n |->
                             IF met(j) /\ above.prevpos[a][j] = p
                               THEN [old(p, j) EXCEPT !.diffnext = ch.data[p][j] - ch.data[i][j]]
                               ELSE old(p, j)]
           older == [p \in DOMAIN above.result |-> compared(p)]
           cells(p, l) == [j \in 1 .. n |-> Cell(ch, p, j, l)]
           cum == [j \in 1 .. n |-> row[j].cumvalue]
           last(x) == [j \in 1 .. n |-> IF met(j) THEN i ELSE x[j]]
<1>1. PassRow(ch, above, i) =
        [result |-> Append(older, row),
         cumvalue |-> [above.cumvalue EXCEPT ![a] = cum],
         prevpos |-> [above.prevpos EXCEPT ![a] = last(above.prevpos[a])]]
  BY DEF PassRow
<1>2. /\ n \in Nat /\ a \in 1 .. 2 /\ i \in 1 .. Len(ch.data) /\ i - 1 \in Nat /\ (i - 1) + 1 = i
      /\ Len(ch.data) \in Nat
  BY DEF Prepared, Rows
<1>3. /\ above.result = [p \in 1 .. i - 1 |-> cells(p, i - 1)]
      /\ above.cumvalue = [b \in 1 .. 2 |-> [j \in 1 .. n |-> Cum(ch, b, j, i - 1)]]
      /\ above.prevpos = [b \in 1 .. 2 |-> [j \in 1 .. n |-> PrevLine(ch, b, j, i - 1)]]
      /\ above.cumvalue = Sets(ch, i - 1).cumvalue
      /\ above.prevpos = Sets(ch, i - 1).prevpos
  BY DEF DataUpTo, Sets
<1>4. row = [j \in 1 .. n |-> L(j)]
  BY RowPassed
<1>5. ASSUME NEW j \in 1 .. n PROVE L(j) = Linked(ch, Sets(ch, i - 1), i, j, n)
  <2>1. SameAbove(above, Sets(ch, i - 1))
    BY <1>3 DEF SameAbove
  <2> HIDE DEF above
  <2>2. QED
    BY <2>1, LinkedSame
<1>6. ASSUME NEW j \in 1 .. n PROVE L(j) = Cell(ch, i, j, i)
  <2> DEFINE e == Linked(ch, Sets(ch, i - 1), i, j, n)
  <2>1. [e EXCEPT !["diffnext"] = ch.data[i][j]] = e
    <3>1. e = [f \in DOMAIN e |-> e[f]] /\ "diffnext" \in DOMAIN e /\ e["diffnext"] = ch.data[i][j]
      BY LinkedIs
    <3> HIDE DEF e
    <3>2. QED
      BY <3>1
  <2>2. Cell(ch, i, j, i) = [e EXCEPT !.diffnext = ch.data[i][j]]
    BY DiffFirst DEF Cell
  <2> HIDE DEF e, L
  <2>3. QED
    BY <1>5, <2>1, <2>2 DEF e
<1>7. ASSUME NEW p \in 1 .. i - 1, NEW j \in 1 .. n
      PROVE  (IF met(j) /\ above.prevpos[a][j] = p
                THEN [old(p, j) EXCEPT !.diffnext = ch.data[p][j] - ch.data[i][j]] ELSE old(p, j))
             = Cell(ch, p, j, i)
  <2> DEFINE e == Linked(ch, Sets(ch, p - 1), p, j, n)
             x == ch.data[p][j] - ch.data[i][j]
  <2>1. above.prevpos[a][j] = PrevLine(ch, a, j, i - 1)
    <3> HIDE DEF above, a
    <3>1. QED
      BY <1>2, <1>3
  <2>2. old(p, j) = [e EXCEPT !.diffnext = DiffUpTo(ch, p, j, i - 1)]
    <3>1. above.result[p][j] = Cell(ch, p, j, i - 1)
      <4> HIDE DEF above
      <4>1. QED
        BY <1>2, <1>3
    <3>2. QED
      BY <3>1 DEF Cell
  <2>3. Cell(ch, p, j, i) = [e EXCEPT !.diffnext = DiffUpTo(ch, p, j, i)]
    BY DEF Cell
  <2>4. DiffUpTo(ch, p, j, i) = IF met(j) /\ PrevLine(ch, a, j, i - 1) = p THEN x ELSE DiffUpTo(ch, p, j, i - 1)
    BY DiffStep
  <2> HIDE DEF old, e, x, above, a, met
  <2>5. \A y, z : [[e EXCEPT !.diffnext = y] EXCEPT !.diffnext = z] = [e EXCEPT !.diffnext = z]
    OBVIOUS
  <2>6. (IF met(j) /\ above.prevpos[a][j] = p THEN [old(p, j) EXCEPT !.diffnext = x] ELSE old(p, j))
          = Cell(ch, p, j, i)
    BY <2>1, <2>2, <2>3, <2>4, <2>5
  <2>7. QED
    BY <2>6 DEF x
<1>8. ASSUME NEW p \in 1 .. i - 1 PROVE compared(p) = cells(p, i)
  BY <1>7
<1>9. Append(older, row) = [p \in 1 .. i |-> cells(p, i)]
  <2>1. DOMAIN above.result = 1 .. i - 1
    BY <1>3
  <2> HIDE DEF above, compared, cells, row
  <2>2. older = [p \in 1 .. i - 1 |-> older[p]] /\ \A p \in 1 .. i - 1 : older[p] = cells(p, i)
    BY <1>8, <2>1
  <2>3. row = cells(i, i)
    BY <1>4, <1>6 DEF cells
  <2> HIDE DEF older
  <2>4. Append(older, row) = [p \in 1 .. i |-> IF p = i THEN row ELSE older[p]]
    BY <1>2, <2>2, AppendIs
  <2>5. ASSUME NEW p \in 1 .. i PROVE (IF p = i THEN row ELSE older[p]) = cells(p, i)
    BY <1>2, <2>2, <2>3
  <2>6. QED
    BY <2>4, <2>5
<1>10. [above.cumvalue EXCEPT ![a] = cum] = [b \in 1 .. 2 |-> [j \in 1 .. n |-> Cum(ch, b, j, i)]]
  <2>1. ASSUME NEW j \in 1 .. n PROVE cum[j] = Cum(ch, a, j, i)
    <3>1. cum[j] = L(j).cumvalue
      <4> HIDE DEF row, L
      <4>1. QED
        BY <1>4
    <3>2. L(j).cumvalue = above.cumvalue[a][j] + (IF ch.data[i][j] = Missing THEN 0 ELSE ch.data[i][j])
      <4>1. FieldsRight(ch, above, i, j, L(j))
        BY LinkedIs
      <4> HIDE DEF above, L
      <4>2. QED
        BY <4>1 DEF FieldsRight
    <3>3. above.cumvalue[a][j] = Cum(ch, a, j, i - 1)
      <4> HIDE DEF above, a
      <4>1. QED
        BY <1>2, <1>3
    <3>4. i \in Mates(ch, a, j) <=> ch.data[i][j] # Missing
      BY MatesIs, DefinedIs
    <3>5. Cum(ch, a, j, i) = IF i \in Mates(ch, a, j) THEN Cum(ch, a, j, i - 1) + ch.data[i][j]
                             ELSE Cum(ch, a, j, i - 1)
      BY <1>2, CumStep
    <3>6. Cum(ch, a, j, i - 1) \in Int
      BY <1>2, CumInt
    <3> HIDE DEF cum, L, above, a
    <3>7. QED
      BY <3>1, <3>2, <3>3, <3>4, <3>5, <3>6
  <2>2. ASSUME NEW b \in 1 .. 2, b # a, NEW j \in 1 .. n PROVE Cum(ch, b, j, i - 1) = Cum(ch, b, j, i)
    <3>1. i \notin Mates(ch, b, j)
      BY <2>2, MatesIs
    <3>2. QED
      BY <3>1, CumStep
  <2> HIDE DEF above, a, n
  <2>3. ASSUME NEW b \in 1 .. 2
        PROVE  [above.cumvalue EXCEPT ![a] = cum][b] = [j \in 1 .. n |-> Cum(ch, b, j, i)]
    <3>1. CASE b = a
      BY <1>2, <1>3, <2>1, <3>1
    <3>2. CASE b # a
      BY <1>2, <1>3, <2>2, <3>2
    <3>3. QED
      BY <3>1, <3>2
  <2>4. QED
    BY <1>3, <2>3
<1>11. [above.prevpos EXCEPT ![a] = last(above.prevpos[a])]
         = [b \in 1 .. 2 |-> [j \in 1 .. n |-> PrevLine(ch, b, j, i)]]
  <2>1. ASSUME NEW b \in 1 .. 2, NEW j \in 1 .. n
        PROVE  PrevLine(ch, b, j, i) = IF b = a /\ met(j) THEN i ELSE PrevLine(ch, b, j, i - 1)
    <3> DEFINE D == LineMates(ch, b, j)
    <3>1. D \in SUBSET (1 .. Len(ch.data)) /\ (i \in D <=> b = a /\ met(j))
      BY MatesIs
    <3>2. LastUp(D, i) = IF i \in D THEN i ELSE LastUp(D, i - 1)
      <4> HIDE DEF D
      <4>1. QED
        BY <1>2, <3>1, LastUpTo
    <3>3. QED
      BY <3>1, <3>2 DEF PrevLine
  <2> HIDE DEF above, a, n, met
  <2>2. ASSUME NEW b \in 1 .. 2
        PROVE  [above.prevpos EXCEPT ![a] = last(above.prevpos[a])][b] = [j \in 1 .. n |-> PrevLine(ch, b, j, i)]
    <3>1. CASE b = a
      <4>1. ASSUME NEW j \in 1 .. n
            PROVE  (IF met(j) THEN i ELSE above.prevpos[a][j]) = PrevLine(ch, a, j, i)
        <5>1. above.prevpos[a][j] = PrevLine(ch, a, j, i - 1)
          BY <1>2, <1>3
        <5>2. QED
          BY <1>2, <2>1, <5>1
      <4>2. last(above.prevpos[a]) = [j \in 1 .. n |-> PrevLine(ch, a, j, i)]
        BY <4>1
      <4> HIDE DEF last
      <4>3. QED
        BY <1>2, <1>3, <3>1, <4>2
    <3>2. CASE b # a
      BY <1>2, <1>3, <2>1, <3>2
    <3>3. QED
      BY <3>1, <3>2
  <2>3. QED
    BY <1>3, <2>2
<1>12. DataUpTo(ch, i) =
         [result |-> [p \in 1 .. i |-> cells(p, i)],
          cumvalue |-> [b \in 1 .. 2 |-> [j \in 1 .. n |-> Cum(ch, b, j, i)]],
          prevpos |-> [b \in 1 .. 2 |-> [j \in 1 .. n |-> PrevLine(ch, b, j, i)]]]
  BY DEF DataUpTo, Sets
<1> HIDE DEF above, older, row, cum, last, cells
<1>13. PassRow(ch, above, i) = DataUpTo(ch, i)
  BY <1>1, <1>9, <1>10, <1>11, <1>12
<1>14. QED
  BY <1>13 DEF above

(* The loop over the datasets. *)
LEMMA DataPassed ==
  ASSUME NEW ch, Prepared(ch)
  PROVE  PassData(ch) = DataUpTo(ch, Len(ch.data)).result
<1> DEFINE n == Len(ch.data)
           zero == [a \in 1 .. 2 |-> [j \in 1 .. ch.labels |-> 0]]
           start == [result |-> <<>>, cumvalue |-> zero, prevpos |-> zero]
           step(r, i) == PassRow(ch, r, i)
           value(f, i) == IF i = 0 THEN start ELSE step(f[i - 1], i)
           Is(f) == f = [i \in 0 .. n |-> value(f, i)]
           U == CHOOSE f : Is(f)
           R(i) == DataUpTo(ch, i)
           C == [i \in 0 .. n |-> R(i)]
<1>1. PassData(ch) = U[n].result
  BY DEF PassData
<1>2. n \in Nat /\ Rows(ch) = 1 .. n
  BY DEF Prepared, Rows
<1>3. R(0) = start
  <2>1. ASSUME NEW a \in 1 .. 2, NEW j \in 1 .. ch.labels
        PROVE  Cum(ch, a, j, 0) = 0 /\ PrevLine(ch, a, j, 0) = 0
    <3>1. Mates(ch, a, j) \in SUBSET (1 .. n) /\ LineMates(ch, a, j) \in SUBSET (1 .. n)
      BY MatesIs
    <3>2. {k \in Mates(ch, a, j) : k <= 0} = {} /\ {k \in LineMates(ch, a, j) : k <= 0} = {}
      BY <1>2, <3>1
    <3>3. PrevLine(ch, a, j, 0) = 0
      BY <3>2 DEF PrevLine, LastOf, LastUp
    <3> DEFINE f == [k \in Rows(ch) |-> ch.data[k][j]]
    <3>4. Cum(ch, a, j, 0) = Total(n, f, {})
      BY <3>2 DEF Cum, ColumnSum
    <3> HIDE DEF n, f
    <3>5. QED
      BY <1>2, <3>3, <3>4, TotalEmpty
  <2>2. Sets(ch, 0).cumvalue = zero /\ Sets(ch, 0).prevpos = zero
    BY <2>1 DEF Sets
  <2>3. [p \in 1 .. 0 |-> [j \in 1 .. ch.labels |-> Cell(ch, p, j, 0)]] = <<>>
    OBVIOUS
  <2> HIDE DEF zero
  <2>4. QED
    BY <2>2, <2>3 DEF DataUpTo
<1>4. ASSUME NEW i \in 1 .. n PROVE step(R(i - 1), i) = R(i)
  BY <1>2, SetPassed
<1> HIDE DEF n, start, R, step
<1>5. \A i \in 0 .. n : C[i] = value(C, i)
  <2> SUFFICES ASSUME NEW i \in 0 .. n PROVE C[i] = value(C, i)
    OBVIOUS
  <2>1. CASE i = 0
    BY <1>2, <1>3, <2>1
  <2>2. CASE i # 0
    <3>1. i \in 1 .. n /\ i - 1 \in 0 .. n
      BY <1>2, <2>2
    <3>2. C[i - 1] = R(i - 1) /\ C[i] = R(i)
      BY <3>1
    <3>3. QED
      BY <1>4, <2>2, <3>1, <3>2
  <2>3. QED
    BY <2>1, <2>2
<1>6. Is(C)
  <2> HIDE DEF value
  <2>1. QED
    BY <1>5
<1>7. Is(U)
  BY <1>6
<1>8. \A i \in 0 .. n : U[i] = value(U, i)
  <2> HIDE DEF U, value
  <2>1. QED
    BY <1>7
<1> HIDE DEF U
<1>9. U[0] = C[0]
  BY <1>2, <1>3, <1>8
<1>10. ASSUME NEW i \in 1 .. n, U[i - 1] = C[i - 1] PROVE U[i] = C[i]
  <2>1. i \in 0 .. n /\ i # 0
    BY <1>2
  <2> HIDE DEF C
  <2>2. U[i] = step(U[i - 1], i) /\ C[i] = step(C[i - 1], i)
    BY <1>5, <1>8, <2>1
  <2>3. QED
    BY <1>10, <2>2
<1>11. \A i \in 0 .. n : U[i] = C[i]
  <2> HIDE DEF C
  <2>1. Alike(n, U, C)
    BY <1>9, <1>10 DEF Alike
  <2>2. QED
    BY <1>2, <2>1, SamePositions
<1>12. U[n] = R(n)
  BY <1>2, <1>11
<1>13. QED
  BY <1>1, <1>12 DEF R, n

(* What the statistics of every datum say. *)
LEMMA DataLinked ==
  ASSUME NEW ch, Prepared(ch), NEW i \in Rows(ch), NEW j \in 1 .. ch.labels
  PROVE  LET e == PassData(ch)[i][j]
         IN  /\ FieldsRight(ch, Sets(ch, i - 1), i, j, e)
             /\ e.diffnext = DiffUpTo(ch, i, j, Len(ch.data))
<1> DEFINE n == Len(ch.data)
           w == Linked(ch, Sets(ch, i - 1), i, j, ch.labels)
           x == DiffUpTo(ch, i, j, n)
           e == PassData(ch)[i][j]
<1>1. n \in Nat /\ i \in 1 .. n
  BY DEF Prepared, Rows
<1>2. e = Cell(ch, i, j, n)
  <2>1. PassData(ch) = [p \in 1 .. n |-> [k \in 1 .. ch.labels |-> Cell(ch, p, k, n)]]
    BY DataPassed DEF DataUpTo
  <2>2. QED
    BY <1>1, <2>1
<1>3. e = [w EXCEPT !["diffnext"] = x]
  BY <1>2 DEF Cell
<1>4. /\ FieldsRight(ch, Sets(ch, i - 1), i, j, w)
      /\ w = [f \in DOMAIN w |-> w[f]] /\ "diffnext" \in DOMAIN w
  BY LinkedIs
<1> HIDE DEF w, x, e
<1>5. /\ e.diffnext = x
      /\ e.value = w.value /\ e.first = w.first /\ e.last = w.last
      /\ e.prev = w.prev /\ e.prevMissing = w.prevMissing /\ e.next = w.next
      /\ e.cumvalue = w.cumvalue /\ e.totvalue = w.totvalue /\ e.diffprev = w.diffprev
  BY <1>3, <1>4
<1>6. FieldsRight(ch, Sets(ch, i - 1), i, j, e)
  BY <1>4, <1>5 DEF FieldsRight
<1>7. QED
  BY <1>5, <1>6 DEF e, x

-----------------------------------------------------------------------------
(* The properties of the statistics. *)

(* The pass over the data links every datum to the nearest ones of its row. *)
LEMMA RowsAreLinked ==
  ASSUME Prepared(chart), stat = PassData(chart), NEW i \in Rows(chart), NEW j \in 1 .. chart.labels
  PROVE  RowLinked(i, j)
<1> DEFINE d == Defined(chart, i)
           e == stat[i][j]
           gaps == DOMAIN chart.data[i] \ d
           n == chart.labels
<1>1. FieldsRight(chart, Sets(chart, i - 1), i, j, e)
  BY DataLinked
<1>2. n \in Nat /\ d \in SUBSET (1 .. n) /\ gaps = Gaps(chart, i)
  BY DefinedIs DEF Prepared, Gaps
<1> HIDE DEF e
<1>3. /\ e.prev = LastUp(d, j - 1) /\ e.prevMissing = LastUp(gaps, j)
      /\ e.next = NextUpTo(d, j, n)
  BY <1>1, <1>2 DEF FieldsRight
<1>4. {m \in d : m <= j - 1} = {m \in d : m < j}
  <2>1. \A m \in d : m <= j - 1 <=> m < j
    BY <1>2
  <2> HIDE DEF d
  <2>2. QED
    BY <2>1
<1>5. {m \in d : j < m /\ m <= n} = {m \in d : m > j}
  <2>1. \A m \in d : (j < m /\ m <= n) <=> m > j
    BY <1>2
  <2> HIDE DEF d
  <2>2. QED
    BY <2>1
<1> HIDE DEF d, gaps, n
<1>6. j \in d \/ e.prev # 0 => e.next = FirstOf({m \in d : m > j})
  BY <1>3, <1>5 DEF NextUpTo, FirstIn
<1>7. QED
  BY <1>3, <1>4, <1>6 DEF RowLinked, LastUp, d, gaps, e

(* The pass over the data sums up every column. *)
LEMMA ColumnsAreSummed ==
  ASSUME Prepared(chart), stat = PassData(chart), NEW i \in Rows(chart), NEW j \in 1 .. chart.labels,
         j \in Defined(chart, i)
  PROVE  ColumnSummed(i, j)
<1> DEFINE a == chart.axis[i]
           n == Len(chart.data)
           M == Mates(chart, a, j)
           D == LineMates(chart, a, j)
           below == LastOf({k \in M : k < i /\ tpdraw(chart, k) = "Line"})
           above == FirstOf({k \in M : k > i /\ tpdraw(chart, k) = "Line"})
           e == stat[i][j]
           v == chart.data[i][j]
<1>1. FieldsRight(chart, Sets(chart, i - 1), i, j, e) /\ e.diffnext = DiffUpTo(chart, i, j, n)
  BY DataLinked
<1>2. /\ n \in Nat /\ i \in 1 .. n /\ i \in Int /\ Rows(chart) = 1 .. n /\ a \in 1 .. 2
      /\ v \in Int /\ v # Missing
  <2>1. v # Missing
    BY DefinedIs
  <2>2. QED
    BY <2>1 DEF Prepared, Rows
<1>3. /\ M \in SUBSET (1 .. n) /\ D \in SUBSET (1 .. n) /\ i \in M
      /\ D = {k \in M : tpdraw(chart, k) = "Line"}
      /\ i \in D <=> tpdraw(chart, i) = "Line"
  BY MatesIs DEF LineMates
<1>4. ASSUME NEW k \in Rows(chart) PROVE stat[k][j].value = chart.data[k][j]
  <2>1. FieldsRight(chart, Sets(chart, k - 1), k, j, stat[k][j])
    BY DataLinked
  <2>2. QED
    BY <2>1 DEF FieldsRight
<1>5. /\ Sets(chart, i - 1).cumvalue[a][j] = Cum(chart, a, j, i - 1)
      /\ Sets(chart, i - 1).prevpos[a][j] = PrevLine(chart, a, j, i - 1)
  BY <1>2 DEF Sets
<1>6. e.cumvalue = Cum(chart, a, j, i)
  <2>1. e.cumvalue = Cum(chart, a, j, i - 1) + v
    BY <1>1, <1>2, <1>5 DEF FieldsRight
  <2>2. Cum(chart, a, j, i) = Cum(chart, a, j, i - 1) + v
    BY <1>2, <1>3, CumStep
  <2>3. QED
    BY <2>1, <2>2
<1>7. i = LastOf(M) => e.cumvalue = e.totvalue
  <2> SUFFICES ASSUME i = LastOf(M) PROVE e.cumvalue = e.totvalue
    OBVIOUS
  <2>1. \A k \in M : k <= i
    <3> HIDE DEF M
    <3>1. QED
      BY <1>2, <1>3, LastOfIs
  <2>2. {k \in M : k <= i} = M
    BY <2>1
  <2>3. Cum(chart, a, j, i) = ColumnSum(chart, M, j)
    BY <2>2 DEF Cum
  <2>4. e.totvalue = ColumnSum(chart, M, j)
    BY <1>1 DEF FieldsRight, Totvalue, Mates
  <2>5. QED
    BY <1>6, <2>3, <2>4
<1>8. below = PrevLine(chart, a, j, i - 1)
  <2>1. \A k \in M : k < i <=> k <= i - 1
    BY <1>2, <1>3
  <2> HIDE DEF M, D
  <2>2. {k \in M : k < i /\ tpdraw(chart, k) = "Line"} = {k \in D : k <= i - 1}
    BY <1>3, <2>1
  <2>3. QED
    BY <2>2 DEF PrevLine, LastUp, D
<1>9. above = NextLine(chart, i, j, n)
  <2>1. \A k \in M : k > i <=> i < k /\ k <= n
    BY <1>2, <1>3
  <2> HIDE DEF M, D
  <2>2. {k \in M : k > i /\ tpdraw(chart, k) = "Line"} = {k \in D : i < k /\ k <= n}
    BY <1>3, <2>1
  <2>3. QED
    BY <2>2 DEF NextLine, FirstIn, D
<1>10. (below # 0 => below \in Rows(chart)) /\ (above # 0 => above \in Rows(chart))
  <2> DEFINE B == {k \in M : k < i /\ tpdraw(chart, k) = "Line"}
             A == {k \in M : k > i /\ tpdraw(chart, k) = "Line"}
  <2>1. A \in SUBSET (1 .. n) /\ B \in SUBSET (1 .. n)
    BY <1>3
  <2> HIDE DEF A, B, M
  <2>2. LastOf(B) \in 0 .. n /\ FirstOf(A) \in 0 .. n
    BY <1>2, <2>1, LastOfIs, FirstOfIs
  <2>3. QED
    BY <1>2, <2>2 DEF A, B
<1>11. ASSUME tpdraw(chart, i) = "Line"
       PROVE  /\ e.diffprev = IF below = 0 THEN NotSet ELSE e.value - stat[below][j].value
              /\ e.diffnext = IF above = 0 THEN e.value ELSE e.value - stat[above][j].value
  <2>1. e.value = v
    BY <1>4
  <2> HIDE DEF below, above, e, M, D, v, a, n
  <2>2. e.diffprev = IF below = 0 THEN NotSet ELSE v - chart.data[below][j]
    BY <1>1, <1>5, <1>8, <1>11 DEF FieldsRight, v, a
  <2>3. e.diffnext = IF above = 0 THEN v ELSE v - chart.data[above][j]
    BY <1>1, <1>3, <1>9, <1>11 DEF DiffUpTo, v, a, D
  <2>4. QED
    BY <1>4, <1>10, <2>1, <2>2, <2>3
<1>12. e.cumvalue = ColumnSum(chart, {k \in M : k <= i}, j)
  BY <1>6 DEF Cum
<1> HIDE DEF e, below, above
<1>13. QED
  BY <1>7, <1>11, <1>12 DEF ColumnSummed, Mates, e, below, above

(* A sum does not fall when positions with numbers from zero on are added. *)
LEMMA TotalGrows ==
  ASSUME NEW n \in Nat, NEW f, NEW S, NEW T,
         \A i \in 1 .. n : i \in S \/ i \in T => f[i] \in Int,
         \A i \in 1 .. n : i \in S /\ i \notin T => f[i] <= 0,
         \A i \in 1 .. n : i \in T /\ i \notin S => f[i] >= 0
  PROVE  Total(n, f, S) <= Total(n, f, T)
<1>1. PICK u \in Sums(n, f, S) : Total(n, f, S) = u[n]
  <2>1. \A i \in 1 .. n : i \in S => f[i] \in Int
    OBVIOUS
  <2>2. QED
    BY <2>1, TotalIs
<1>2. PICK w \in Sums(n, f, T) : Total(n, f, T) = w[n]
  <2>1. \A i \in 1 .. n : i \in T => f[i] \in Int
    OBVIOUS
  <2>2. QED
    BY <2>1, TotalIs
<1> DEFINE V == [i \in 0 .. n |-> {x \in Int : u[i] <= x}]
<1>3. \A i \in 0 .. n : u[i] \in Int /\ w[i] \in Int
  BY DEF Sums
<1>4. w[0] \in V[0]
  BY DEF Sums
<1>5. ASSUME NEW i \in 1 .. n, w[i - 1] \in V[i - 1] PROVE w[i] \in V[i]
  <2>1. i - 1 \in 0 .. n /\ i \in 0 .. n
    OBVIOUS
  <2>2. w[i] = w[i - 1] + (IF i \in T THEN f[i] ELSE 0)
    BY DEF Sums
  <2>3. u[i] = u[i - 1] + (IF i \in S THEN f[i] ELSE 0)
    BY DEF Sums
  <2>4. u[i - 1] <= w[i - 1]
    BY <1>5, <2>1
  <2>5. u[i] <= w[i]
    <3>1. u[i - 1] \in Int /\ w[i - 1] \in Int
      BY <1>3, <2>1
    <3>2. QED
      BY <2>2, <2>3, <2>4, <3>1
  <2>6. QED
    BY <1>3, <2>1, <2>5
<1>6. \A i \in 0 .. n : w[i] \in V[i]
  <2> HIDE DEF V
  <2>1. QED
    BY <1>4, <1>5, EveryPosition
<1>7. u[n] <= w[n]
  BY <1>6
<1>8. QED
  BY <1>1, <1>2, <1>7

-----------------------------------------------------------------------------
(* The segments of a pie. *)

PieTotal(ch, f, i) == Total(Len(ch.data[1]), f, {k \in InPie(ch) : k <= i})
Segments(ch) == [k \in 1 .. ch.labels |-> Segment(ch, k)]
Angle(ch, i) == ((-ch.opts.startAngle) % Circle) + PieTotal(ch, Segments(ch), i)

PieCell(ch, k, i) ==
  LET before == LastUp(InPie(ch), k - 1)
  IN  IF k \notin InPie(ch)
        THEN [value |-> Missing, startAngle |-> 0, segmentAngle |-> 0, endAngle |-> 0,
              prev |-> before, next |-> 0, cumvalue |-> 0]
        ELSE [value |-> ch.data[1][k], startAngle |-> Angle(ch, k - 1), segmentAngle |-> Segment(ch, k),
              endAngle |-> Angle(ch, k - 1) + Segment(ch, k), prev |-> before,
              next |-> FirstIn(InPie(ch), k, i),
              cumvalue |-> PieTotal(ch, ch.data[1], k - 1) + ch.data[1][k]]

(* What the loop over the segments has collected after segment i. *)
PieUpTo(ch, i) ==
  [result |-> [k \in 1 .. i |-> PieCell(ch, k, i)], angle |-> Angle(ch, i),
   prev |-> LastUp(InPie(ch), i), cumvalue |-> PieTotal(ch, ch.data[1], i)]

(* The segments of a pie are positions with numbers from zero on. *)
LEMMA InPieIs ==
  ASSUME NEW ch, Prepared(ch)
  PROVE  /\ InPie(ch) \in SUBSET (1 .. ch.labels) /\ Len(ch.data[1]) = ch.labels /\ ch.labels \in Nat
         /\ DOMAIN ch.data[1] = 1 .. ch.labels
         /\ \A k \in 1 .. ch.labels : ch.data[1][k] \in Int
         /\ \A k \in InPie(ch) : ch.data[1][k] >= 0
<1>1. 1 \in Rows(ch)
  BY DEF Prepared, Rows
<1>2. QED
  BY <1>1 DEF Prepared, InPie, Defined

(* A segment never fills the circle. *)
LEMMA SegmentIs ==
  ASSUME NEW ch, Prepared(ch), NEW k \in InPie(ch)
  PROVE  Segment(ch, k) \in 0 .. Circle - 1
<1> DEFINE tot == Total(Len(ch.data[1]), ch.data[1], InPie(ch))
           x == ch.data[1][k] * Circle
<1>1. /\ InPie(ch) \in SUBSET (1 .. ch.labels) /\ Len(ch.data[1]) = ch.labels /\ ch.labels \in Nat
      /\ \A m \in 1 .. ch.labels : ch.data[1][m] \in Int
      /\ \A m \in InPie(ch) : ch.data[1][m] >= 0
  BY InPieIs
<1>2. x \in Int /\ 0 <= x
  BY <1>1 DEF Circle
<1>3. tot \in Int /\ 0 <= tot
  <2>1. \A m \in 1 .. ch.labels : m \in {} \/ m \in InPie(ch) => ch.data[1][m] \in Int
    BY <1>1
  <2>2. \A m \in 1 .. ch.labels : m \in {} /\ m \notin InPie(ch) => ch.data[1][m] <= 0
    OBVIOUS
  <2>3. \A m \in 1 .. ch.labels : m \in InPie(ch) /\ m \notin {} => ch.data[1][m] >= 0
    BY <1>1
  <2>4. Total(ch.labels, ch.data[1], {}) <= Total(ch.labels, ch.data[1], InPie(ch))
    BY <1>1, <2>1, <2>2, <2>3, TotalGrows
  <2>5. Total(ch.labels, ch.data[1], {}) = 0
    BY <1>1, TotalEmpty
  <2>6. Total(ch.labels, ch.data[1], InPie(ch)) \in Int
    BY <1>1, TotalInt
  <2>7. QED
    BY <1>1, <2>4, <2>5, <2>6
<1>4. tot # 0 => x \div tot \in Int /\ 0 <= x \div tot
  <2> SUFFICES ASSUME tot # 0 PROVE x \div tot \in Int /\ 0 <= x \div tot
    OBVIOUS
  <2> HIDE DEF tot, x
  <2>1. tot \in Nat \ {0} /\ tot * 0 <= x
    BY <1>2, <1>3
  <2>2. QED
    BY <1>2, <2>1, DivParts, DivAtLeast
<1> HIDE DEF tot, x
<1>5. Segment(ch, k) = LET share == IF tot = 0 THEN 0 ELSE x \div tot
                       IN  IF share >= Circle THEN Circle - 1 ELSE share
  BY DEF Segment, tot, x
<1>6. QED
  BY <1>4, <1>5, SMTT(30) DEF Circle

(* A sum over the segments of a pie, from one position to the next. *)
LEMMA PieTotalStep ==
  ASSUME NEW ch, Prepared(ch), NEW i \in 1 .. ch.labels, NEW f, \A k \in InPie(ch) : f[k] \in Int
  PROVE  /\ PieTotal(ch, f, i) = IF i \in InPie(ch) THEN PieTotal(ch, f, i - 1) + f[i]
                                 ELSE PieTotal(ch, f, i - 1)
         /\ PieTotal(ch, f, i) \in Int /\ PieTotal(ch, f, i - 1) \in Int
<1> DEFINE n == ch.labels
           M == InPie(ch)
           S == {k \in M : k <= i - 1}
           T == {k \in M : k <= i}
<1>1. n \in Nat /\ M \in SUBSET (1 .. n) /\ Len(ch.data[1]) = n
  BY InPieIs
<1>2. i \in Int /\ \A k \in M : k \in Int
  BY <1>1
<1>3. PieTotal(ch, f, i) = Total(n, f, T) /\ PieTotal(ch, f, i - 1) = Total(n, f, S)
  BY <1>1 DEF PieTotal
<1>4. (\A k \in 1 .. n : k \in S => f[k] \in Int) /\ (\A k \in 1 .. n : k \in T => f[k] \in Int)
  OBVIOUS
<1>5. Total(n, f, S) \in Int /\ Total(n, f, T) \in Int
  <2> HIDE DEF n, S, T
  <2>1. QED
    BY <1>1, <1>4, TotalInt
<1>6. ASSUME i \in M PROVE Total(n, f, T) = Total(n, f, S) + f[i]
  <2>1. \A k \in 1 .. n : k # i => (k \in S <=> k \in T)
    BY <1>2
  <2>2. i \in T /\ i \notin S /\ i \in 0 .. n /\ i # 0
    BY <1>1, <1>2, <1>6
  <2>3. f[i] \in Int
    BY <1>6
  <2> HIDE DEF n, S, T, M
  <2>4. Differ(n, f, f, S, T, i, f[i])
    BY <1>4, <2>1, <2>2, <2>3 DEF Differ
  <2>5. QED
    BY <1>1, <2>4, TotalDiffers
<1>7. ASSUME i \notin M PROVE T = S
  <2>1. \A k \in M : k <= i <=> k <= i - 1
    BY <1>2, <1>7
  <2>2. QED
    BY <2>1
<1> HIDE DEF n, S, T, M
<1>8. QED
  BY <1>3, <1>5, <1>6, <1>7 DEF M

(* The angles of the segments are numbers. *)
LEMMA SegmentsInt ==
  ASSUME NEW ch, Prepared(ch)
  PROVE  /\ \A k \in InPie(ch) : Segments(ch)[k] = Segment(ch, k) /\ Segments(ch)[k] \in 0 .. Circle - 1
         /\ \A k \in InPie(ch) : Segments(ch)[k] \in Int
<1>1. \A k \in InPie(ch) : Segments(ch)[k] = Segment(ch, k)
  BY InPieIs DEF Segments
<1>2. \A k \in InPie(ch) : Segment(ch, k) \in 0 .. Circle - 1
  BY SegmentIs
<1>3. QED
  BY <1>1, <1>2

(* One turn of the loop over the segments. *)
LEMMA SegmentPassed ==
  ASSUME NEW ch, Prepared(ch), NEW i \in 1 .. ch.labels
  PROVE  PassSegment(ch, PieUpTo(ch, i - 1), i) = PieUpTo(ch, i)
<1> DEFINE n == ch.labels
           P == InPie(ch)
           acc == PieUpTo(ch, i - 1)
           C(k, l) == PieCell(ch, k, l)
           before == LastUp(P, i - 1)
           linked == [k \in DOMAIN acc.result |->
                        IF k = before THEN [acc.result[k] EXCEPT !.next = i] ELSE acc.result[k]]
           v == ch.data[1][i]
           item == [value |-> v, startAngle |-> acc.angle, segmentAngle |-> Segment(ch, i),
                    endAngle |-> acc.angle + Segment(ch, i), prev |-> before, next |-> 0,
                    cumvalue |-> acc.cumvalue + v]
           none == [value |-> Missing, startAngle |-> 0, segmentAngle |-> 0, endAngle |-> 0,
                    prev |-> before, next |-> 0, cumvalue |-> 0]
           cells(l) == [k \in 1 .. l |-> C(k, i)]
<1>1. n \in Nat /\ P \in SUBSET (1 .. n) /\ i \in 1 .. n /\ i \in Int /\ i - 1 \in Nat /\ (i - 1) + 1 = i
  BY InPieIs
<1>2. /\ acc.result = [k \in 1 .. i - 1 |-> C(k, i - 1)] /\ acc.angle = Angle(ch, i - 1)
      /\ acc.prev = before /\ acc.cumvalue = PieTotal(ch, ch.data[1], i - 1)
      /\ acc = [result |-> acc.result, angle |-> acc.angle, prev |-> acc.prev, cumvalue |-> acc.cumvalue]
  BY DEF PieUpTo
<1>3. /\ i \notin P => PassSegment(ch, acc, i) = [acc EXCEPT !.result = Append(acc.result, none)]
      /\ i \in P => PassSegment(ch, acc, i) =
                    [result |-> Append(linked, item), angle |-> acc.angle + Segment(ch, i), prev |-> i,
                     cumvalue |-> acc.cumvalue + v]
  <2> HIDE DEF acc
  <2>1. QED
    BY <1>2 DEF PassSegment
<1>4. /\ PieTotal(ch, ch.data[1], i) = IF i \in P THEN acc.cumvalue + v ELSE acc.cumvalue
  <2>1. \A k \in InPie(ch) : ch.data[1][k] \in Int
    BY InPieIs
  <2>2. QED
    BY <1>2, <2>1, PieTotalStep
<1>5. Angle(ch, i) = IF i \in P THEN acc.angle + Segment(ch, i) ELSE acc.angle
  <2> DEFINE o == (-ch.opts.startAngle) % Circle
             f == Segments(ch)
  <2>1. \A k \in InPie(ch) : f[k] = Segment(ch, k) /\ f[k] \in Int
    BY SegmentsInt
  <2>2. o \in Int
    BY DEF Circle, Prepared, Framed
  <2>3. Angle(ch, i) = o + PieTotal(ch, f, i) /\ Angle(ch, i - 1) = o + PieTotal(ch, f, i - 1)
    BY DEF Angle
  <2> HIDE DEF o, f
  <2>4. /\ PieTotal(ch, f, i) = IF i \in P THEN PieTotal(ch, f, i - 1) + f[i] ELSE PieTotal(ch, f, i - 1)
        /\ PieTotal(ch, f, i) \in Int /\ PieTotal(ch, f, i - 1) \in Int
    BY <2>1, PieTotalStep
  <2> HIDE DEF acc
  <2>5. QED
    BY <1>2, <2>1, <2>2, <2>3, <2>4
<1>6. LastUp(P, i) = IF i \in P THEN i ELSE before
  <2> HIDE DEF P, n
  <2>1. QED
    BY <1>1, LastUpTo
<1>7. PieUpTo(ch, i) = [result |-> cells(i), angle |-> Angle(ch, i), prev |-> LastUp(P, i),
                        cumvalue |-> PieTotal(ch, ch.data[1], i)]
  BY DEF PieUpTo
<1>8. i \notin P => C(i, i) = none
  BY DEF PieCell
<1>9. i \in P => C(i, i) = item
  <2>1. {m \in P : i < m /\ m <= i} = {}
    <3>1. \A m \in P : m \in Int
      BY <1>1
    <3>2. QED
      BY <1>1, <3>1
  <2>2. FirstIn(P, i, i) = 0
    BY <2>1 DEF FirstOf, FirstIn
  <2> HIDE DEF acc
  <2>3. QED
    BY <1>2, <2>2 DEF PieCell
<1>10. ASSUME NEW k \in 1 .. i - 1
       PROVE  /\ i \notin P \/ k # before => C(k, i) = C(k, i - 1)
              /\ i \in P /\ k = before => C(k, i) = [C(k, i - 1) EXCEPT !.next = i]
  <2> DEFINE B == {m \in P : m <= i - 1}
             F(l) == FirstIn(P, k, l)
  <2>1. F(i) = IF i \in P /\ k >= before THEN i ELSE F(i - 1)
    <3> HIDE DEF P, n
    <3>1. QED
      BY <1>1, FirstUpTo
  <2>2. B \in SUBSET (1 .. n)
    BY <1>1
  <2>3. before \in Int /\ (k \in P => k <= before) /\ (before # 0 => before \in P)
    <3>1. k \in P => k \in B
      OBVIOUS
    <3>2. B \subseteq P
      OBVIOUS
    <3>3. LastOf(B) \in Int /\ (k \in P => k <= LastOf(B)) /\ (LastOf(B) # 0 => LastOf(B) \in P)
      <4> HIDE DEF B, P, n
      <4>1. QED
        BY <1>1, <2>2, <3>1, <3>2, LastOfIs
    <3>4. QED
      BY <3>3 DEF LastUp
  <2> DEFINE Q == LastUp(P, k - 1)
             Z(l, x) == [value |-> ch.data[1][k], startAngle |-> Angle(ch, k - 1),
                         segmentAngle |-> Segment(ch, k), endAngle |-> Angle(ch, k - 1) + Segment(ch, k),
                         prev |-> Q, next |-> x,
                         cumvalue |-> PieTotal(ch, ch.data[1], k - 1) + ch.data[1][k]]
  <2>4. k \notin P => C(k, i) = C(k, i - 1)
    BY DEF PieCell
  <2>5. k \in P => C(k, i) = Z(i, F(i)) /\ C(k, i - 1) = Z(i, F(i - 1))
    BY DEF PieCell
  <2>6. [Z(i, F(i - 1)) EXCEPT !.next = i] = Z(i, i)
    <3> HIDE DEF Q, F
    <3>1. QED
      OBVIOUS
  <2> HIDE DEF Z, F, C, P, before
  <2>7. k # before /\ k \in P => ~(k >= before)
    BY <2>3
  <2>8. k = before => k \in P /\ k >= before
    BY <2>3
  <2>9. QED
    BY <2>1, <2>4, <2>5, <2>6, <2>7, <2>8
<1>11. ASSUME i \notin P PROVE Append(acc.result, none) = cells(i)
  <2> DEFINE s == acc.result
  <2>1. s = [k \in 1 .. i - 1 |-> s[k]] /\ \A k \in 1 .. i - 1 : s[k] = C(k, i - 1)
    BY <1>2
  <2>2. Append(s, none) = cells(i)
    <3> HIDE DEF s, none, C, P, before
    <3>1. Append(s, none) = [k \in 1 .. i |-> IF k = i THEN none ELSE s[k]]
      BY <1>1, <2>1, AppendIs
    <3>2. ASSUME NEW k \in 1 .. i PROVE (IF k = i THEN none ELSE s[k]) = C(k, i)
      <4>1. CASE k = i
        BY <1>8, <1>11, <4>1
      <4>2. CASE k # i
        <5>1. k \in 1 .. i - 1
          BY <1>1, <4>2
        <5>2. QED
          BY <1>10, <1>11, <2>1, <4>2, <5>1
      <4>3. QED
        BY <4>1, <4>2
    <3>3. QED
      BY <3>1, <3>2
  <2>3. QED
    BY <2>2
<1>12. ASSUME i \in P PROVE Append(linked, item) = cells(i)
  <2>1. DOMAIN acc.result = 1 .. i - 1 /\ \A k \in 1 .. i - 1 : acc.result[k] = C(k, i - 1)
    BY <1>2
  <2> HIDE DEF acc, C, P, before, item
  <2>2. /\ linked = [k \in 1 .. i - 1 |-> linked[k]]
        /\ \A k \in 1 .. i - 1 :
             linked[k] = IF k = before THEN [C(k, i - 1) EXCEPT !.next = i] ELSE C(k, i - 1)
    BY <2>1
  <2> HIDE DEF linked
  <2>3. Append(linked, item) = [k \in 1 .. i |-> IF k = i THEN item ELSE linked[k]]
    BY <1>1, <2>2, AppendIs
  <2>4. ASSUME NEW k \in 1 .. i PROVE (IF k = i THEN item ELSE linked[k]) = C(k, i)
    <3>1. CASE k = i
      BY <1>9, <1>12, <3>1
    <3>2. CASE k # i
      <4>1. k \in 1 .. i - 1
        BY <1>1, <3>2
      <4>2. QED
        BY <1>10, <1>12, <2>2, <3>2, <4>1
    <3>3. QED
      BY <3>1, <3>2
  <2>5. QED
    BY <2>3, <2>4
<1> HIDE DEF acc, linked, item, none, cells, P, v, before
<1>13. PassSegment(ch, acc, i) = PieUpTo(ch, i)
  <2>1. CASE i \in P
    BY <1>3, <1>4, <1>5, <1>6, <1>7, <1>12, <2>1
  <2>2. CASE i \notin P
    BY <1>2, <1>3, <1>4, <1>5, <1>6, <1>7, <1>11, <2>2
  <2>3. QED
    BY <2>1, <2>2
<1>14. QED
  BY <1>13 DEF acc

(* The loop over the segments. *)
LEMMA PiePassed ==
  ASSUME NEW ch, Prepared(ch)
  PROVE  PassPie(ch) = [k \in 1 .. ch.labels |-> PieCell(ch, k, ch.labels)]
<1> DEFINE n == ch.labels
           start == [result |-> <<>>, angle |-> (-ch.opts.startAngle) % Circle, prev |-> 0, cumvalue |-> 0]
           step(r, i) == PassSegment(ch, r, i)
           value(f, i) == IF i = 0 THEN start ELSE step(f[i - 1], i)
           Is(f) == f = [i \in 0 .. n |-> value(f, i)]
           U == CHOOSE f : Is(f)
           R(i) == PieUpTo(ch, i)
           C == [i \in 0 .. n |-> R(i)]
<1>1. PassPie(ch) = U[n].result
  <2>1. Len(ch.data[1]) = n
    BY InPieIs
  <2>2. QED
    BY <2>1 DEF PassPie
<1>2. n \in Nat /\ InPie(ch) \in SUBSET (1 .. n) /\ Len(ch.data[1]) = n
  BY InPieIs
<1>3. R(0) = start
  <2>1. {k \in InPie(ch) : k <= 0} = {}
    BY <1>2
  <2>2. LastUp(InPie(ch), 0) = 0
    BY <2>1 DEF LastOf, LastUp
  <2>3. ASSUME NEW f PROVE PieTotal(ch, f, 0) = 0
    BY <1>2, <2>1, TotalEmpty DEF PieTotal
  <2>4. Angle(ch, 0) = (-ch.opts.startAngle) % Circle
    BY <2>3 DEF Angle, Circle, Prepared, Framed
  <2>5. [k \in 1 .. 0 |-> PieCell(ch, k, 0)] = <<>>
    OBVIOUS
  <2>6. QED
    BY <2>2, <2>3, <2>4, <2>5 DEF PieUpTo
<1>4. ASSUME NEW i \in 1 .. n PROVE step(R(i - 1), i) = R(i)
  BY SegmentPassed
<1> HIDE DEF n, start, R, step
<1>5. \A i \in 0 .. n : C[i] = value(C, i)
  <2> SUFFICES ASSUME NEW i \in 0 .. n PROVE C[i] = value(C, i)
    OBVIOUS
  <2>1. CASE i = 0
    BY <1>2, <1>3, <2>1
  <2>2. CASE i # 0
    <3>1. i \in 1 .. n /\ i - 1 \in 0 .. n
      BY <1>2, <2>2
    <3>2. C[i - 1] = R(i - 1) /\ C[i] = R(i)
      BY <3>1
    <3>3. QED
      BY <1>4, <2>2, <3>1, <3>2
  <2>3. QED
    BY <2>1, <2>2
<1>6. Is(C)
  <2> HIDE DEF value
  <2>1. QED
    BY <1>5
<1>7. Is(U)
  BY <1>6
<1>8. \A i \in 0 .. n : U[i] = value(U, i)
  <2> HIDE DEF U, value
  <2>1. QED
    BY <1>7
<1> HIDE DEF U
<1>9. U[0] = C[0]
  BY <1>2, <1>3, <1>8
<1>10. ASSUME NEW i \in 1 .. n, U[i - 1] = C[i - 1] PROVE U[i] = C[i]
  <2>1. i \in 0 .. n /\ i # 0
    BY <1>2
  <2> HIDE DEF C
  <2>2. U[i] = step(U[i - 1], i) /\ C[i] = step(C[i - 1], i)
    BY <1>5, <1>8, <2>1
  <2>3. QED
    BY <1>10, <2>2
<1>11. \A i \in 0 .. n : U[i] = C[i]
  <2> HIDE DEF C
  <2>1. Alike(n, U, C)
    BY <1>9, <1>10 DEF Alike
  <2>2. QED
    BY <1>2, <2>1, SamePositions
<1>12. U[n] = R(n)
  BY <1>2, <1>11
<1>13. QED
  BY <1>1, <1>12 DEF R, n, PieUpTo

(* Normalising the angles of a segment again changes nothing, and a segment *)
(* keeps its place on the circle.                                           *)
LEMMA ModIs ==
  ASSUME NEW x \in Int
  PROVE  /\ Mod(x) \in 0 .. Circle - 1 /\ Mod(Mod(x)) = Mod(x)
         /\ Mod(Mod(x) + Circle) = Mod(x) /\ Mod(x + Circle) = Mod(x)
  BY DEF Mod, Circle

(* A segment with its angles. *)
Item(i) == i.startAngle \in Int /\ i.endAngle \in Int
           /\ DOMAIN i = {"value", "startAngle", "segmentAngle", "endAngle", "prev", "next", "cumvalue"}
           /\ i = [f \in DOMAIN i |-> i[f]]

(* What the mouse handler does to the angles of a segment. *)
LEMMA NormalisedIs ==
  ASSUME NEW item, Item(item)
  PROVE  LET n == Normalised(item)
         IN  /\ Item(n) /\ Normalised(n) = n
             /\ n.startAngle = Mod(item.startAngle) /\ n.startAngle <= n.endAngle
             /\ Mod(n.startAngle) = Mod(item.startAngle) /\ Mod(n.endAngle) = Mod(item.endAngle)
             /\ n.segmentAngle = item.segmentAngle /\ n.next = item.next
<1> DEFINE s == Mod(item.startAngle)
           e == Mod(item.endAngle)
           t == IF e < s THEN e + Circle ELSE e
           n == Normalised(item)
<1>1. item.startAngle \in Int /\ item.endAngle \in Int
  BY DEF Item
<1>2. s \in 0 .. Circle - 1 /\ e \in 0 .. Circle - 1 /\ Mod(s) = s /\ Mod(e) = e /\ Mod(e + Circle) = e
  BY <1>1, ModIs
<1>3. t \in Int /\ s \in Int /\ s <= t /\ Mod(t) = e
  <2> HIDE DEF s, e
  <2>1. QED
    BY <1>2 DEF Circle
<1>4. n = [[item EXCEPT !.startAngle = s] EXCEPT !.endAngle = t]
  BY DEF Normalised
<1> HIDE DEF s, e, t, n
<1>5. /\ n.startAngle = s /\ n.endAngle = t /\ n.segmentAngle = item.segmentAngle /\ n.next = item.next
      /\ DOMAIN n = {"value", "startAngle", "segmentAngle", "endAngle", "prev", "next", "cumvalue"}
      /\ n = [f \in DOMAIN n |-> n[f]]
  BY <1>4 DEF Item
<1>6. Item(n)
  BY <1>3, <1>5 DEF Item
<1>7. Normalised(n) = n
  <2>1. Mod(n.startAngle) = s /\ Mod(n.endAngle) = e
    BY <1>2, <1>3, <1>5
  <2>2. Normalised(n) = [[n EXCEPT !.startAngle = s] EXCEPT !.endAngle = t]
    BY <2>1 DEF Normalised, t
  <2>3. QED
    BY <1>5, <2>2
<1>8. QED
  BY <1>2, <1>3, <1>5, <1>6, <1>7 DEF s, e, n

-----------------------------------------------------------------------------
(* Adapting the data. *)

(* A filled-up dataset has the length asked for. *)
LEMMA FilledIs ==
  ASSUME NEW row \in Seq(Int), NEW n \in Nat, Len(row) <= n
  PROVE  Filled(row, n) \in Seq(Int) /\ Len(Filled(row, n)) = n
<1> DEFINE m == n - Len(row)
           t == [k \in 1 .. m |-> Missing]
<1>1. m \in Nat /\ Len(row) \in Nat /\ Len(row) + m = n
  OBVIOUS
<1>2. Missing \in Int
  BY DEF Missing
<1> HIDE DEF m
<1>3. t \in Seq(Int) /\ Len(t) = m
  BY <1>1, <1>2
<1>4. Filled(row, n) = row \o t
  BY DEF Filled, m
<1> HIDE DEF t
<1>5. row \o t \in Seq(Int) /\ Len(row \o t) = Len(row) + Len(t)
  BY <1>3
<1>6. QED
  BY <1>1, <1>3, <1>4, <1>5

(* Type, size and options decide whether a chart can be drawn at all. *)
LEMMA FramedSame ==
  ASSUME NEW a, NEW b, Framed(a), b.type = a.type, b.height = a.height, b.width = a.width, b.opts = a.opts
  PROVE  Framed(b)
  BY DEF Framed

(* Adapting the data of a chart prepares it. *)
LEMMA AdaptedIs ==
  ASSUME NEW ch, WellFormed(ch)
  PROVE  Prepared(Adapted(ch)) /\ Adapted(ch).type = ch.type
<1> DEFINE single == ch.type = "Line" /\ Max({Len(ch.data[i]) : i \in Rows(ch)}) = 1
           labels == IF single THEN 3 ELSE ch.labels
           row(i) == IF ~single THEN ch.data[i]
                     ELSE <<Missing, IF ch.data[i] = <<>> THEN Missing ELSE ch.data[i][1], Missing>>
           data == [i \in Rows(ch) |-> Filled(row(i), labels)]
           a == Adapted(ch)
<1>1. a = [[ch EXCEPT !.labels = labels] EXCEPT !.data = data]
  BY DEF Adapted
<1>2. Len(ch.data) \in Nat \ {0} /\ Rows(ch) = 1 .. Len(ch.data) /\ labels \in Nat
  BY DEF WellFormed, Rows
<1>3. ASSUME NEW i \in Rows(ch) PROVE row(i) \in Seq(Int) /\ Len(row(i)) <= labels
  <2>1. ch.data[i] \in Seq(Int) /\ Len(ch.data[i]) <= ch.labels
    BY DEF WellFormed, Rows
  <2> HIDE DEF single
  <2>2. CASE ~single
    BY <2>1, <2>2
  <2>3. CASE single
    <3> DEFINE x == IF ch.data[i] = <<>> THEN Missing ELSE ch.data[i][1]
    <3>1. Missing \in Int
      BY DEF Missing
    <3>2. x \in Int
      BY <2>1, <3>1
    <3> HIDE DEF x
    <3>3. <<Missing, x, Missing>> \in Seq(Int) /\ Len(<<Missing, x, Missing>>) = 3
      BY <3>1, <3>2
    <3>4. row(i) = <<Missing, x, Missing>> /\ labels = 3
      BY <2>3 DEF x
    <3>5. QED
      BY <3>3, <3>4
  <2>4. QED
    BY <2>2, <2>3
<1>4. ASSUME ch.type = "Line", labels = 1, NEW i \in Rows(ch) PROVE Len(row(i)) = 0
  <2> DEFINE L == {Len(ch.data[k]) : k \in Rows(ch)}
  <2>1. Max(L) # 1 /\ ~single /\ ch.labels = 1
    BY <1>4
  <2>2. \A k \in Rows(ch) : Len(ch.data[k]) \in Nat /\ Len(ch.data[k]) <= 1
    BY <2>1 DEF WellFormed, Rows
  <2>3. L \in SUBSET Int /\ (\A y \in L : 1 >= y)
    BY <2>2
  <2>4. 1 \notin L
    <3> HIDE DEF L
    <3>1. SUFFICES ASSUME 1 \in L PROVE FALSE
      OBVIOUS
    <3>2. Max(L) \in L /\ \A y \in L : Max(L) >= y
      BY <2>3, <3>1, MaxOf
    <3>3. Max(L) >= 1 /\ 1 >= Max(L) /\ Max(L) \in Int
      BY <2>3, <3>1, <3>2
    <3>4. QED
      BY <2>1, <3>3
  <2>5. Len(ch.data[i]) # 1
    BY <1>4, <2>4
  <2>6. row(i) = ch.data[i]
    BY <2>1
  <2>7. Len(ch.data[i]) = 0
    <3> DEFINE l == Len(ch.data[i])
    <3>1. l \in Nat /\ l <= 1 /\ l # 1
      BY <2>2, <2>5
    <3> HIDE DEF l
    <3>2. l = 0
      BY <3>1
    <3>3. QED
      BY <3>2 DEF l
  <2> HIDE DEF single, row
  <2>8. QED
    BY <2>6, <2>7
<1> HIDE DEF single, labels, row
<1>5. ASSUME ch.type = "Line", labels = 1, NEW i \in Rows(ch) PROVE data[i][1] = Missing
  <2> DEFINE r == row(i)
             m == 1 - Len(r)
             t == [k \in 1 .. m |-> Missing]
  <2>1. r \in Seq(Int) /\ Len(r) = 0
    BY <1>3, <1>4, <1>5
  <2>2. data[i] = r \o t
    BY <1>5 DEF Filled
  <2> HIDE DEF r
  <2>3. m = 1
    BY <2>1
  <2>4. t = <<Missing>>
    BY <2>3
  <2>5. r = <<>>
    BY <2>1
  <2> HIDE DEF t, m
  <2>6. (<<>> \o <<Missing>>)[1] = Missing
    OBVIOUS
  <2>7. r \o t = <<>> \o <<Missing>>
    BY <2>4, <2>5
  <2>8. QED
    BY <2>2, <2>6, <2>7
<1>6. ASSUME NEW i \in Rows(ch) PROVE data[i] \in Seq(Int) /\ Len(data[i]) = labels
  BY <1>2, <1>3, FilledIs
<1>7. DOMAIN data = Rows(ch) /\ data \in Seq(Seq(Int)) /\ Len(data) = Len(ch.data)
  <2>1. data \in [1 .. Len(ch.data) -> Seq(Int)]
    BY <1>2, <1>6
  <2> HIDE DEF data
  <2>2. QED
    BY <1>2, <2>1
<1> HIDE DEF data
<1>8. /\ a.labels = labels /\ a.data = data /\ a.type = ch.type /\ a.axis = ch.axis /\ a.opts = ch.opts
      /\ a.height = ch.height /\ a.width = ch.width
  BY <1>1 DEF WellFormed
<1>9. Rows(a) = Rows(ch)
  BY <1>7, <1>8 DEF Rows
<1> HIDE DEF a
<1>10. ASSUME NEW i \in Rows(ch)
      PROVE  /\ DOMAIN data[i] = 1 .. labels /\ Len(data[i]) = labels
             /\ \A j \in 1 .. labels : data[i][j] \in Int
             /\ ch.axis[i] \in 1 .. 2
  <2>1. ch.axis[i] \in 1 .. 2
    BY DEF WellFormed
  <2>2. data[i] \in Seq(Int) /\ Len(data[i]) = labels
    BY <1>6
  <2>3. QED
    BY <1>2, <2>1, <2>2
<1>11. Framed(a)
  <2>1. Framed(ch)
    BY DEF WellFormed
  <2>2. QED
    BY <1>8, <2>1, FramedSame
<1>12. ASSUME a.type = "Line", a.labels = 1, NEW i \in Rows(a) PROVE Defined(a, i) = {}
  <2>1. i \in Rows(ch) /\ data[i][1] = Missing /\ DOMAIN data[i] = 1 .. 1
    BY <1>8, <1>9, <1>10, <1>5, <1>12
  <2>2. QED
    BY <1>8, <2>1 DEF Defined
<1>13. Prepared(a)
  BY <1>2, <1>7, <1>8, <1>9, <1>10, <1>11, <1>12 DEF Prepared
<1>14. QED
  BY <1>8, <1>13 DEF a

(* Reversing the data keeps a chart well formed. *)
LEMMA ReversedIs ==
  ASSUME NEW ch, WellFormed(ch)
  PROVE  WellFormed(reverseData(ch)) /\ reverseData(ch).type = ch.type
<1> DEFINE a == reverseData(ch)
           data == [i \in Rows(ch) |-> Reverse(ch.data[i])]
<1>1. a = [ch EXCEPT !.data = data]
  BY DEF reverseData
<1>2. Len(ch.data) \in Nat \ {0} /\ Rows(ch) = 1 .. Len(ch.data)
  BY DEF WellFormed, Rows
<1>3. ASSUME NEW i \in Rows(ch) PROVE data[i] \in Seq(Int) /\ Len(data[i]) = Len(ch.data[i])
  <2> DEFINE s == ch.data[i]
  <2>1. s \in Seq(Int)
    BY DEF WellFormed, Rows
  <2>2. data[i] = [k \in 1 .. Len(s) |-> s[(Len(s) - k) + 1]]
    BY DEF Reverse
  <2> HIDE DEF s, data
  <2>3. Len(s) \in Nat /\ \A k \in 1 .. Len(s) : s[(Len(s) - k) + 1] \in Int
    BY <2>1
  <2>4. data[i] \in [1 .. Len(s) -> Int]
    BY <2>2, <2>3
  <2>5. QED
    BY <2>3, <2>4, SMTT(30) DEF s
<1>4. DOMAIN data = Rows(ch) /\ data \in Seq(Seq(Int)) /\ Len(data) = Len(ch.data) /\ data # <<>>
  <2>1. data \in [1 .. Len(ch.data) -> Seq(Int)]
    BY <1>2, <1>3
  <2> HIDE DEF data
  <2>2. QED
    BY <1>2, <2>1
<1> HIDE DEF data
<1>5. /\ a.labels = ch.labels /\ a.data = data /\ a.type = ch.type /\ a.axis = ch.axis /\ a.opts = ch.opts
      /\ a.height = ch.height /\ a.width = ch.width /\ DOMAIN a = DOMAIN ch
  BY <1>1 DEF WellFormed
<1>6. Rows(a) = Rows(ch)
  BY <1>4, <1>5 DEF Rows
<1> HIDE DEF a
<1>7. ASSUME NEW i \in Rows(ch) PROVE Len(data[i]) <= ch.labels /\ ch.axis[i] \in 1 .. 2
  BY <1>3 DEF WellFormed
<1>8. Framed(a)
  <2>1. Framed(ch)
    BY DEF WellFormed
  <2>2. QED
    BY <1>5, <2>1, FramedSame
<1>9. WellFormed(a)
  BY <1>4, <1>5, <1>6, <1>7, <1>8 DEF WellFormed
<1>10. QED
  BY <1>5, <1>9 DEF a

(* The pie after the mouse handler has normalised the segments in S. *)
Touched(ch, S) ==
  [i \in 1 .. ch.labels |-> IF i \in S THEN Normalised(PassPie(ch)[i]) ELSE PassPie(ch)[i]]

(* The angles at which segments start and end are numbers. *)
LEMMA AngleInt ==
  ASSUME NEW ch, Prepared(ch), NEW k \in 1 .. ch.labels
  PROVE  Angle(ch, k - 1) \in Int /\ Angle(ch, k) \in Int
<1> DEFINE o == (-ch.opts.startAngle) % Circle
           f == Segments(ch)
<1>1. o \in Int
  BY DEF Prepared, Framed, Circle
<1>2. \A m \in InPie(ch) : f[m] \in Int
  BY SegmentsInt
<1>3. Angle(ch, k) = o + PieTotal(ch, f, k) /\ Angle(ch, k - 1) = o + PieTotal(ch, f, k - 1)
  BY DEF Angle
<1> HIDE DEF o, f
<1>4. PieTotal(ch, f, k) \in Int /\ PieTotal(ch, f, k - 1) \in Int
  BY <1>2, PieTotalStep
<1>5. QED
  BY <1>1, <1>3, <1>4

(* The segments that the pass over a pie leaves. *)
LEMMA PieItems ==
  ASSUME NEW ch, Prepared(ch), NEW k \in 1 .. ch.labels
  PROVE  PassPie(ch)[k] = PieCell(ch, k, ch.labels) /\ Item(PassPie(ch)[k])
<1> DEFINE c == PieCell(ch, k, ch.labels)
           P == LastUp(InPie(ch), k - 1)
           X == FirstIn(InPie(ch), k, ch.labels)
           A == Angle(ch, k - 1)
           s == Segment(ch, k)
           v == ch.data[1][k]
           u == PieTotal(ch, ch.data[1], k - 1) + v
<1>1. PassPie(ch)[k] = c
  BY PiePassed
<1>2. A \in Int
  BY AngleInt
<1>3. k \in InPie(ch) => s \in Int
  BY SegmentIs
<1>4. /\ k \notin InPie(ch) => c = [value |-> Missing, startAngle |-> 0, segmentAngle |-> 0, endAngle |-> 0,
                                    prev |-> P, next |-> 0, cumvalue |-> 0]
      /\ k \in InPie(ch) => c = [value |-> v, startAngle |-> A, segmentAngle |-> s, endAngle |-> A + s,
                                 prev |-> P, next |-> X, cumvalue |-> u]
  BY DEF PieCell
<1> HIDE DEF c, P, X, A, s, v, u
<1>5. Item(c)
  <2>1. CASE k \in InPie(ch)
    BY <1>2, <1>3, <1>4, <2>1 DEF Item
  <2>2. CASE k \notin InPie(ch)
    BY <1>4, <2>2 DEF Item
  <2>3. QED
    BY <2>1, <2>2
<1>6. QED
  BY <1>1, <1>5 DEF c

(* What a touched segment still says. *)
LEMMA TouchedIs ==
  ASSUME NEW ch, Prepared(ch), NEW S, NEW k \in InPie(ch)
  PROVE  LET t == Touched(ch, S)[k]
         IN  /\ t.next = FirstIn(InPie(ch), k, ch.labels) /\ t.segmentAngle = Segment(ch, k)
             /\ Mod(t.startAngle) = Mod(Angle(ch, k - 1))
             /\ Mod(t.endAngle) = Mod(Angle(ch, k - 1) + Segment(ch, k))
<1> DEFINE c == PassPie(ch)[k]
           t == Touched(ch, S)[k]
           X == FirstIn(InPie(ch), k, ch.labels)
<1>1. k \in 1 .. ch.labels
  BY InPieIs
<1>2. Item(c) /\ c = PieCell(ch, k, ch.labels)
  BY <1>1, PieItems
<1>3. c.next = X /\ c.segmentAngle = Segment(ch, k) /\ c.startAngle = Angle(ch, k - 1)
      /\ c.endAngle = Angle(ch, k - 1) + Segment(ch, k)
  <2>1. PieCell(ch, k, ch.labels).next = X
    BY DEF PieCell
  <2>2. QED
    BY <1>2, <2>1 DEF PieCell
<1>4. t = IF k \in S THEN Normalised(c) ELSE c
  BY <1>1 DEF Touched
<1> HIDE DEF c, t, X
<1>5. t.next = c.next /\ t.segmentAngle = c.segmentAngle
      /\ Mod(t.startAngle) = Mod(c.startAngle) /\ Mod(t.endAngle) = Mod(c.endAngle)
  BY <1>2, <1>4, NormalisedIs
<1>6. QED
  BY <1>3, <1>5 DEF t, X

(* The segments of a pie follow each other, normalised or not. *)
LEMMA PieIsClosed ==
  ASSUME Prepared(chart), NEW S, stat = Touched(chart, S)
  PROVE  PieClosed
<1> DEFINE n == chart.labels
           drawn == InPie(chart)
           f == Segments(chart)
           g == [i \in DOMAIN stat |-> stat[i].segmentAngle]
           turn == Total(Len(chart.data[1]), g, drawn)
           o == (-chart.opts.startAngle) % Circle
<1>1. n \in Nat /\ drawn \in SUBSET (1 .. n) /\ Len(chart.data[1]) = n
  BY InPieIs
<1>2. DOMAIN stat = 1 .. n
  BY DEF Touched
<1>3. \A k \in drawn : f[k] = Segment(chart, k) /\ f[k] \in Int
  BY SegmentsInt
<1>4. ASSUME NEW k \in drawn
      PROVE  /\ stat[k].next = FirstIn(drawn, k, n) /\ stat[k].segmentAngle = Segment(chart, k)
             /\ Mod(stat[k].startAngle) = Mod(Angle(chart, k - 1))
             /\ Mod(stat[k].endAngle) = Mod(Angle(chart, k - 1) + Segment(chart, k))
  BY TouchedIs
<1>5. turn = Total(n, f, drawn)
  <2>1. \A k \in 1 .. n : k \in drawn => f[k] \in Int /\ f[k] = g[k]
    BY <1>2, <1>3, <1>4
  <2> HIDE DEF n, f, g, drawn
  <2>2. Total(n, g, drawn) = Total(n, f, drawn)
    BY <1>1, <2>1, TotalSame
  <2>3. QED
    BY <1>1, <2>2
<1>6. o \in Int
  BY DEF Prepared, Framed, Circle
<1>7. ASSUME NEW k PROVE Angle(chart, k) = o + Total(n, f, {m \in drawn : m <= k})
  BY <1>1 DEF Angle, PieTotal
<1>8. ASSUME NEW k \in drawn
      PROVE  /\ Angle(chart, k - 1) + Segment(chart, k) = Angle(chart, k)
             /\ Angle(chart, k - 1) \in Int /\ Angle(chart, k) \in Int
  <2>1. k \in 1 .. n
    BY <1>1
  <2>2. Angle(chart, k - 1) \in Int /\ Angle(chart, k) \in Int
    BY <2>1, AngleInt
  <2>3. PieTotal(chart, f, k) = PieTotal(chart, f, k - 1) + f[k] /\ PieTotal(chart, f, k - 1) \in Int
    <3> HIDE DEF f
    <3>1. QED
      BY <1>3, <2>1, PieTotalStep
  <2>4. Angle(chart, k) = o + PieTotal(chart, f, k) /\ Angle(chart, k - 1) = o + PieTotal(chart, f, k - 1)
    BY DEF Angle
  <2>5. f[k] = Segment(chart, k) /\ f[k] \in Int
    BY <1>3
  <2> HIDE DEF o, f
  <2>6. QED
    BY <1>6, <2>2, <2>3, <2>4, <2>5
<1>9. ASSUME NEW i \in drawn
      PROVE  LET m == IF i = LastOf(drawn) THEN FirstOf(drawn) ELSE stat[i].next
             IN  /\ m = FirstOf({k \in drawn : k > i}) \/ i = LastOf(drawn)
                 /\ turn = Circle => Mod(stat[i].endAngle) = Mod(stat[m].startAngle)
  <2>1. CASE i = LastOf(drawn)
    <3> DEFINE m == FirstOf(drawn)
    <3>1. m \in drawn /\ (\A k \in drawn : m <= k) /\ (\A k \in drawn : k <= i)
      <4> HIDE DEF drawn, n
      <4>1. QED
        BY <1>1, <2>1, LastOfIs, FirstOfIs
    <3>2. {k \in drawn : k <= m - 1} = {} /\ {k \in drawn : k <= i} = drawn
      <4>1. \A k \in drawn : k \in Int
        BY <1>1
      <4> HIDE DEF drawn, m
      <4>2. QED
        BY <3>1, <4>1
    <3>3. Angle(chart, m - 1) = o
      <4>1. Total(n, f, {}) = 0
        BY <1>1, TotalEmpty
      <4>2. QED
        BY <1>6, <1>7, <3>2, <4>1
    <3>4. Angle(chart, i) = o + turn
      BY <1>5, <1>7, <3>2
    <3>5. turn = Circle => Mod(stat[i].endAngle) = Mod(stat[m].startAngle)
      <4>1. Mod(stat[i].endAngle) = Mod(Angle(chart, i)) /\ Mod(stat[m].startAngle) = Mod(Angle(chart, m - 1))
        BY <1>4, <1>8, <3>1
      <4>2. Mod(o + Circle) = Mod(o)
        BY <1>6, ModIs
      <4> HIDE DEF turn, o
      <4>3. QED
        BY <3>3, <3>4, <4>1, <4>2
    <3> HIDE DEF turn
    <3>6. QED
      BY <2>1, <3>5
  <2>2. CASE i # LastOf(drawn)
    <3> DEFINE m == FirstIn(drawn, i, n)
               L == {k \in drawn : i < k /\ k <= n}
    <3>1. L \in SUBSET (1 .. n) /\ m = FirstOf(L) /\ i \in 1 .. n
      BY <1>1 DEF FirstIn
    <3>2. LastOf(drawn) \in drawn /\ i <= LastOf(drawn)
      <4> HIDE DEF drawn, n
      <4>1. QED
        BY <1>1, LastOfIs
    <3>3. LastOf(drawn) \in L
      <4>1. LastOf(drawn) \in 1 .. n
        BY <1>1, <3>2
      <4> HIDE DEF n
      <4>2. QED
        BY <2>2, <3>1, <3>2, <4>1
    <3>4. m \in L /\ \A k \in L : m <= k
      <4> HIDE DEF L, n, m
      <4>1. QED
        BY <1>1, <3>1, <3>3, FirstOfIs
    <3>5. m \in drawn /\ i < m /\ m \in Int
      BY <1>1, <3>4
    <3>6. L = {k \in drawn : k > i}
      <4>1. \A k \in drawn : (i < k /\ k <= n) <=> k > i
        BY <1>1
      <4> HIDE DEF drawn
      <4>2. QED
        BY <4>1
    <3>7. {k \in drawn : k <= i} = {k \in drawn : k <= m - 1}
      <4>1. ASSUME NEW k \in drawn PROVE k <= i <=> k <= m - 1
        <5>1. k \in Int /\ i \in Int /\ (k > i => k \in L)
          BY <1>1, <3>1, <3>6
        <5> HIDE DEF L, m, drawn
        <5>2. QED
          BY <3>4, <3>5, <5>1
      <4> HIDE DEF drawn, m
      <4>2. QED
        BY <4>1
    <3>8. Angle(chart, i) = Angle(chart, m - 1)
      BY <1>7, <3>7
    <3>9. Mod(stat[i].endAngle) = Mod(stat[m].startAngle)
      BY <1>4, <1>8, <3>5, <3>8
    <3>10. stat[i].next = m
      BY <1>4
    <3> HIDE DEF m, L, turn
    <3>11. QED
      BY <2>2, <3>1, <3>6, <3>9, <3>10
  <2>3. QED
    BY <2>1, <2>2
<1>10. QED
  BY <1>9 DEF PieClosed

(* In a pie or a doughnut the statistics are those of the pass, normalised  *)
(* in places.                                                               *)
LEMMA LinkRound ==
  ASSUME Prepared(chart), Round(chart)
  PROVE  (pc \notin {"start", "pass1"} /\ LinkIInv) =>
           \E S \in SUBSET (1 .. chart.labels) : stat = Touched(chart, S)
  BY DEF LinkIInv, Touched

(* A step that normalises segments keeps the invariant. *)
LEMMA LinkTouched ==
  ASSUME Prepared(chart), Round(chart), chart' = chart, pc' \in {"frame", "done", "waiting"},
         NEW S \in SUBSET (1 .. chart.labels), stat' = Touched(chart, S)
  PROVE  LinkIInv'
<1>1. stat' \in {[i \in 1 .. chart.labels |->
                    IF i \in R THEN Normalised(PassPie(chart)[i]) ELSE PassPie(chart)[i]] :
                  R \in SUBSET (1 .. chart.labels)}
  BY DEF Touched
<1>2. QED
  BY <1>1 DEF LinkIInv, Round

(* The mouse handler normalises some segments, once. *)
Rewritten(s, T) == [i \in DOMAIN s |-> IF i \in T THEN Normalised(s[i]) ELSE s[i]]

(* The mouse handler only normalises segments. *)
LEMMA MouseTouches ==
  ASSUME NEW ch, Prepared(ch), NEW S \in SUBSET (1 .. ch.labels), NEW T
  PROVE  \E R \in SUBSET (1 .. ch.labels) : Rewritten(Touched(ch, S), T) = Touched(ch, R)
<1> DEFINE n == ch.labels
           R == S \union (T \intersect (1 .. n))
           t == Touched(ch, S)
           u == Rewritten(t, T)
<1>1. R \in SUBSET (1 .. n)
  OBVIOUS
<1>2. DOMAIN t = 1 .. n /\ DOMAIN Touched(ch, R) = 1 .. n
  BY DEF Touched
<1>3. ASSUME NEW i \in 1 .. n PROVE u[i] = Touched(ch, R)[i]
  <2> DEFINE c == PassPie(ch)[i]
  <2>1. Item(c)
    BY PieItems
  <2>2. t[i] = (IF i \in S THEN Normalised(c) ELSE c) /\ Touched(ch, R)[i] = (IF i \in R THEN Normalised(c) ELSE c)
    BY DEF Touched
  <2>3. u[i] = IF i \in T THEN Normalised(t[i]) ELSE t[i]
    BY <1>2 DEF Rewritten
  <2>4. Normalised(Normalised(c)) = Normalised(c)
    BY <2>1, NormalisedIs
  <2> HIDE DEF c, t, u
  <2>5. QED
    BY <2>2, <2>3, <2>4
<1>4. u = Touched(ch, R)
  <2>1. Touched(ch, R) = [i \in 1 .. n |-> Touched(ch, R)[i]]
    BY DEF Touched
  <2>2. u = [i \in 1 .. n |-> u[i]]
    BY <1>2 DEF Rewritten
  <2> HIDE DEF u, n
  <2>3. QED
    BY <1>3, <2>1, <2>2
<1>5. QED
  BY <1>1, <1>4

(* The invariant holds at the start of a redraw. *)
LEMMA LinkStart == Init => LinkIInv
  BY ChartsAssumption DEF Init, LinkIInv

(* A step that leaves the chart and its statistics alone. *)
LEMMA LinkKept ==
  ASSUME LinkIInv, UNCHANGED <<chart, stat>>, pc \notin {"start", "pass1"}, pc' \notin {"start", "pass1"}
  PROVE  LinkIInv'
  BY DEF LinkIInv, Round

(* A mouse event keeps the invariant. *)
LEMMA LinkMouse ==
  ASSUME LinkIInv, UNCHANGED <<chart, pc>>, pc \in {"frame", "done"}, NEW n, NEW click, doMouseAction(n, click)
  PROVE  LinkIInv'
<1>1. Prepared(chart)
  BY DEF LinkIInv
<1>2. CASE Round(chart) /\ n # 0
  <2> DEFINE hits == IF n = 0 THEN {} ELSE Found(chart, stat, pos, annotate, Middle(stat, pos, annotate[n]))
             T == {annotate[k][3] : k \in Looked(hits, click)}
  <2>1. stat' = Rewritten(stat, T)
    BY <1>2 DEF doMouseAction, Rewritten
  <2> HIDE DEF T
  <2>2. PICK S \in SUBSET (1 .. chart.labels) : stat = Touched(chart, S)
    BY <1>1, <1>2, LinkRound
  <2>3. PICK R \in SUBSET (1 .. chart.labels) : stat' = Touched(chart, R)
    BY <1>1, <2>1, <2>2, MouseTouches
  <2>4. QED
    BY <1>1, <1>2, <2>3, LinkTouched
<1>3. CASE ~(Round(chart) /\ n # 0)
  <2>1. stat' = stat
    BY <1>3 DEF doMouseAction
  <2>2. QED
    BY <2>1, LinkKept
<1>4. QED
  BY <1>2, <1>3

(* Every step keeps the invariant. *)
LEMMA LinkStep == LinkIInv /\ [Next]_vars => LinkIInv'
<1> SUFFICES ASSUME LinkIInv, [Next]_vars PROVE LinkIInv'
  OBVIOUS
<1>1. CASE Adapt
  <2>1. WellFormed(chart) /\ chart' = Adapted(chart) /\ pc' = "pass1"
    BY <1>1 DEF Adapt, LinkIInv
  <2>2. Prepared(chart')
    BY <2>1, AdaptedIs
  <2>3. QED
    BY <2>1, <2>2 DEF LinkIInv
<1>2. CASE AdaptHorizontal
  <2> DEFINE c == IF chart.opts.reverseOrder THEN reverseData(chart) ELSE chart
  <2>1. WellFormed(chart) /\ chart' = Adapted(c) /\ pc' = "pass1"
    BY <1>2 DEF AdaptHorizontal, LinkIInv
  <2>2. WellFormed(c)
    BY <2>1, ReversedIs
  <2> HIDE DEF c
  <2>3. Prepared(chart')
    BY <2>1, <2>2, AdaptedIs
  <2>4. QED
    BY <2>1, <2>3 DEF LinkIInv
<1>3. CASE Pass1
  <2>1. Prepared(chart) /\ stat' = PassData(chart) /\ chart' = chart /\ pc' = "bounds" /\ ~Round(chart)
    BY <1>3 DEF Pass1, LinkIInv
  <2>2. QED
    BY <2>1 DEF LinkIInv, Round
<1>4. CASE Pass1Round
  <2>1. /\ Prepared(chart) /\ stat' = PassPie(chart) /\ chart' = chart /\ pc' \in {"frame", "waiting"}
        /\ Round(chart)
    BY <1>4 DEF Pass1Round, LinkIInv
  <2>2. PassPie(chart) = Touched(chart, {})
    <3>1. PassPie(chart) = [k \in 1 .. chart.labels |-> PassPie(chart)[k]]
      BY <2>1, PiePassed
    <3>2. QED
      BY <3>1 DEF Touched
  <2>3. stat' = Touched(chart, {}) /\ {} \in SUBSET (1 .. chart.labels)
    BY <2>1, <2>2
  <2>4. QED
    BY <2>1, <2>3, LinkTouched
<1>5. CASE Bounds
  BY <1>5, LinkKept DEF Bounds
<1>6. CASE GivenScale \/ LogarithmicScale \/ FinishScale
  <2>1. pc \in {"scale", "adapt"} /\ pc' \in {"scale", "place"} /\ UNCHANGED <<chart, stat>>
    BY <1>6 DEF GivenScale, LogarithmicScale, FinishScale, ScaleIs
  <2>2. QED
    BY <2>1, LinkKept
<1>7. CASE GuessScale \/ HalveStep \/ DoubleStep
  <2>1. pc \in {"scale", "adapt"} /\ pc' = "adapt" /\ UNCHANGED <<chart, stat>>
    BY <1>7 DEF GuessScale, HalveStep, DoubleStep
  <2>2. QED
    BY <2>1, LinkKept
<1>8. CASE Place \/ PlaceHorizontal
  BY <1>8, LinkKept DEF Place, PlaceHorizontal, Placed
<1>9. CASE drawBars \/ drawPieSegments
  BY <1>9, LinkKept DEF drawBars, drawPieSegments, FrameDrawn
<1>10. CASE MouseMove \/ MouseClick
  <2>1. pc \in {"frame", "done"} /\ UNCHANGED <<chart, pc>>
    BY <1>10 DEF MouseMove, MouseClick
  <2>2. PICK n, click : doMouseAction(n, click)
    BY <1>10 DEF MouseMove, MouseClick
  <2>3. QED
    BY <2>1, <2>2, LinkMouse
<1>11. CASE UNCHANGED vars
  BY <1>11 DEF vars, LinkIInv, Round
<1>12. QED
  BY <1>1, <1>2, <1>3, <1>4, <1>5, <1>6, <1>7, <1>8, <1>9, <1>10, <1>11 DEF Next, Pass, AdaptScale

(* The statistics of a drawing are those of one pass over its data, however *)
(* often the mouse handler rewrites the angles of the segments.             *)
THEOREM LinkInvariant == Spec => []LinkIInv
  BY LinkStart, LinkStep, PTL DEF Spec

(* The neighbours, sums and differences that the single pass of             *)
(* initPassVariableData_part1 finds are the right ones for every chart, any *)
(* number of datasets, data and gaps, and the segments of a pie close.      *)
THEOREM NeighboursAreRight == Spec => []NeighboursRight
<1>1. LinkIInv => NeighboursRight
  <2> SUFFICES ASSUME LinkIInv, pc \notin {"start", "pass1"}
               PROVE  IF Round(chart) THEN PieClosed
                      ELSE \A i \in Rows(chart) : \A j \in 1 .. chart.labels :
                             RowLinked(i, j) /\ (j \in Defined(chart, i) => ColumnSummed(i, j))
    BY DEF NeighboursRight
  <2>1. Prepared(chart)
    BY DEF LinkIInv
  <2>2. CASE Round(chart)
    <3>1. PICK S \in SUBSET (1 .. chart.labels) : stat = Touched(chart, S)
      BY <2>1, <2>2, LinkRound
    <3>2. PieClosed
      BY <2>1, <3>1, PieIsClosed
    <3>3. QED
      BY <2>2, <3>2
  <2>3. CASE ~Round(chart)
    <3>1. stat = PassData(chart)
      BY <2>3 DEF LinkIInv
    <3>2. ASSUME NEW i \in Rows(chart), NEW j \in 1 .. chart.labels
          PROVE  RowLinked(i, j) /\ (j \in Defined(chart, i) => ColumnSummed(i, j))
      BY <2>1, <3>1, RowsAreLinked, ColumnsAreSummed
    <3>3. QED
      BY <2>3, <3>2
  <2>4. QED
    BY <2>2, <2>3
<1>2. QED
  BY <1>1, LinkInvariant, PTL

-----------------------------------------------------------------------------
(* The room across the bars. *)

(* Bars and lines, as sets of positions. *)
BarsUpTo(ch, i) == {k \in 1 .. i : tpdraw(ch, k) # "Line"}

(* Every bar has a place of its own among the bars. *)
LEMMA RealBars ==
  ASSUME NEW ch, Prepared(ch), NEW i \in Rows(ch), tpdraw(ch, i) # "Line"
  PROVE  /\ nrOfBars(ch) \in Nat \ {0} /\ realbars(ch, i) \in Nat
         /\ realbars(ch, i) + 1 <= nrOfBars(ch)
         /\ \A k \in Rows(ch) : i < k => realbars(ch, k) \in Nat /\ realbars(ch, i) + 1 <= realbars(ch, k)
<1>1. Len(ch.data) \in Nat /\ Rows(ch) = 1 .. Len(ch.data)
  BY DEF Prepared, Rows
<1>2. ASSUME NEW m \in Nat PROVE IsFiniteSet(BarsUpTo(ch, m)) /\ Cardinality(BarsUpTo(ch, m)) \in Nat
  <2>1. IsFiniteSet(1 .. m)
    BY FS_Interval
  <2>2. BarsUpTo(ch, m) \subseteq 1 .. m
    BY DEF BarsUpTo
  <2>3. QED
    BY <2>1, <2>2, FS_Subset, FS_CardinalityType
<1>3. ASSUME NEW l \in Nat, NEW m \in Nat, l <= m
      PROVE  Cardinality(BarsUpTo(ch, l)) <= Cardinality(BarsUpTo(ch, m))
  <2>1. BarsUpTo(ch, l) \subseteq BarsUpTo(ch, m)
    BY <1>3 DEF BarsUpTo
  <2>2. QED
    BY <1>2, <2>1, FS_Subset
<1>4. i \in Nat \ {0} /\ i - 1 \in Nat
  BY <1>1
<1>5. Cardinality(BarsUpTo(ch, i)) = Cardinality(BarsUpTo(ch, i - 1)) + 1
  <2>1. BarsUpTo(ch, i) = BarsUpTo(ch, i - 1) \union {i} /\ i \notin BarsUpTo(ch, i - 1)
    BY <1>4 DEF BarsUpTo
  <2>2. QED
    BY <1>2, <1>4, <2>1, FS_AddElement
<1>6. \A k \in Rows(ch) : realbars(ch, k) = Cardinality(BarsUpTo(ch, k - 1)) /\ k - 1 \in Nat
  BY <1>1 DEF realbars, BarsUpTo
<1>7. nrOfBars(ch) = Cardinality(BarsUpTo(ch, Len(ch.data)))
  BY <1>1 DEF nrOfBars, BarsUpTo
<1>8. realbars(ch, i) \in Nat /\ realbars(ch, i) + 1 <= nrOfBars(ch) /\ nrOfBars(ch) \in Nat
  <2>1. Cardinality(BarsUpTo(ch, i)) <= Cardinality(BarsUpTo(ch, Len(ch.data)))
    BY <1>1, <1>3, <1>4
  <2>2. QED
    BY <1>1, <1>2, <1>4, <1>5, <1>6, <1>7, <2>1
<1>9. ASSUME NEW k \in Rows(ch), i < k PROVE realbars(ch, k) \in Nat /\ realbars(ch, i) + 1 <= realbars(ch, k)
  <2>1. Cardinality(BarsUpTo(ch, i)) <= Cardinality(BarsUpTo(ch, k - 1))
    BY <1>1, <1>3, <1>4, <1>9
  <2>2. QED
    BY <1>2, <1>4, <1>5, <1>6, <2>1
<1>10. QED
  BY <1>8, <1>9

(* All datasets of a horizontal chart are bars. *)
LEMMA AllBars ==
  ASSUME NEW ch, Prepared(ch), Horizontal(ch), NEW i \in Rows(ch)
  PROVE  i \in Nat \ {0} /\ i <= nrOfBars(ch) /\ tpdraw(ch, i) = ch.type /\ ch.type # "Line"
<1>1. Len(ch.data) \in Nat /\ Rows(ch) = 1 .. Len(ch.data)
  BY DEF Prepared, Rows
<1>2. \A k : tpdraw(ch, k) = ch.type /\ ch.type # "Line"
  BY DEF Horizontal, tpdraw
<1>3. {k \in Rows(ch) : tpdraw(ch, k) # "Line"} = 1 .. Len(ch.data)
  BY <1>1, <1>2
<1>4. Cardinality(1 .. Len(ch.data)) = Len(ch.data)
  BY <1>1, FS_Interval
<1>5. nrOfBars(ch) = Len(ch.data)
  BY <1>3, <1>4 DEF nrOfBars
<1>6. QED
  BY <1>1, <1>2, <1>5

(* The width of a bar, if there is room for one: for bars side by side the  *)
(* strokes are taken off by half, for stacked ones the spacing is enough.   *)
LEMMA BarWidthIs ==
  ASSUME NEW ch, Prepared(ch), NEW j \in 1 .. ch.labels, nrOfBars(ch) \in Nat \ {0}, ch.type # "Line",
         barWidth(ch) > 0
  PROVE  LET n == nrOfBars(ch)
             v == valueHop(ch)
             w == barWidth(ch)
         IN  /\ v \in Int /\ w \in Nat \ {0} /\ XUnit(ch) = 2 * n
             /\ ~Stacked(ch) => \/ w = 2 * v - 20 - 4 * n /\ w > 2 * n
                                \/ w = 2 * n /\ 2 * v >= 20 + 4 * n
             /\ Stacked(ch) => 10 * n + w <= 2 * n * v
<1> DEFINE n == nrOfBars(ch)
           v == valueHop(ch)
<1>1. v \in Int
  <2>1. ch.width \in Int /\ ch.height \in Int /\ ch.labels \in Int /\ ch.labels > 0
    BY DEF Prepared, Framed
  <2>2. availableWidth(ch) \in Int
    BY <2>1 DEF availableWidth, scaleTickSize
  <2>3. QED
    BY <2>1, <2>2 DEF valueHop
<1>2. n \in Nat \ {0} /\ 1 \in Nat
  OBVIOUS
<1>3. XUnit(ch) = 2 * n
  <2>1. Max({1, n}) = n
    <3>1. {1, n} \in SUBSET Int /\ n \in {1, n} /\ \A y \in {1, n} : n >= y
      BY <1>2
    <3>2. Max({1, n}) \in {1, n} /\ \A y \in {1, n} : Max({1, n}) >= y
      BY <3>1, MaxOf
    <3>3. QED
      BY <1>2, <3>2
  <2>2. QED
    BY <2>1 DEF XUnit
<1> DEFINE side == 2 * v - 20 - 4 * n
           flat == n * (2 * v - 28)
           long == n * (2 * v - 26 - 2 * n)
           w0 == IF ~Stacked(ch) THEN side ELSE IF ch.type = "StackedBar" THEN flat ELSE long
<1>4. barWidth(ch) = CASE w0 >= 0 /\ w0 <= 2 * n -> 2 * n
                       [] w0 < 0 /\ w0 >= -(2 * n) -> -(2 * n)
                       [] OTHER -> w0
  <2>1. /\ ~Stacked(ch) => ch.type # "StackedBar"
        /\ n * (2 * (v - 12 - 0 - 1) - 2) = flat
        /\ n * (2 * (v - 12 - (1 * n - 1) - 1) - 2) = long
        /\ 2 * (v - 12 - (1 * n - 1)) - (2 * n - 2) = side
    BY <1>1, <1>2 DEF Stacked
  <2>2. QED
    BY <1>1, <1>2, <1>3, <2>1
       DEF barWidth, scaleGridLineWidth, barValueSpacing, barDatasetSpacing, barStrokeWidth
<1> HIDE DEF n, v
<1>5. side \in Int /\ flat \in Int /\ long \in Int
  BY <1>1, <1>2
<1>6. w0 \in Int
  BY <1>5
<1> HIDE DEF w0
<1>7. w0 >= 0 /\ ((barWidth(ch) = w0 /\ w0 > 2 * n) \/ barWidth(ch) = 2 * n)
  BY <1>2, <1>4, <1>6
<1>8. barWidth(ch) \in Nat \ {0}
  BY <1>2, <1>6, <1>7
<1>9. ~Stacked(ch) => \/ barWidth(ch) = 2 * v - 20 - 4 * n /\ barWidth(ch) > 2 * n
                      \/ barWidth(ch) = 2 * n /\ 2 * v >= 20 + 4 * n
  BY <1>1, <1>2, <1>5, <1>7 DEF w0
<1>10. ASSUME Stacked(ch) PROVE 10 * n + barWidth(ch) <= 2 * n * v
  <2>1. flat >= 0 \/ long >= 0
    BY <1>7, <1>10 DEF w0
  <2>2. 2 * v - 28 >= 0
    BY <1>1, <1>2, <2>1
  <2>3. /\ 2 * n * v = flat + 28 * n
        /\ long = flat - 2 * n * (n - 1)
        /\ flat >= 0 /\ n * (n - 1) >= 0
    BY <1>1, <1>2, <2>2
  <2>4. w0 <= flat
    BY <1>1, <1>2, <1>5, <1>10, <2>3 DEF w0
  <2>5. QED
    BY <1>1, <1>2, <1>5, <1>6, <1>7, <2>3, <2>4
<1>11. QED
  BY <1>1, <1>3, <1>8, <1>9, <1>10 DEF n, v

(* The room that r bars and one more take, with the spacing before them. *)
Taken(n, w, r) == 2 * n * (5 + 3 * r) + w * (r + 1)

(* As many bars as fit take no more room than their column has. *)
LEMMA RoomTaken ==
  ASSUME NEW n \in Nat \ {0}, NEW v \in Int, NEW w \in Nat \ {0}, NEW r \in Nat, r + 1 <= n,
         (w = 2 * v - 20 - 4 * n /\ w > 2 * n) \/ (w = 2 * n /\ 2 * v >= 20 + 4 * n),
         n <= IF w > 2 * n THEN 8 ELSE 4
  PROVE  Taken(n, w, r) <= 2 * n * v
<1>1. 4 + 6 * n + w <= 2 * v
  OBVIOUS
<1>2. n * (4 + 6 * n + w) <= n * (2 * v)
  BY <1>1
<1>3. w * (r + 1) <= w * n
  OBVIOUS
<1>4. n * r <= n * (n - 1)
  OBVIOUS
<1>5. Taken(n, w, r) = 10 * n + 6 * (n * r) + w * (r + 1)
  BY DEF Taken
<1>6. n * (4 + 6 * n + w) = 10 * n + 6 * (n * (n - 1)) + w * n
  OBVIOUS
<1>7. n * (2 * v) = 2 * n * v
  OBVIOUS
<1>8. n * r \in Int /\ w * (r + 1) \in Int /\ w * n \in Int /\ n * (n - 1) \in Int
  OBVIOUS
<1>9. QED
  BY <1>2, <1>3, <1>4, <1>5, <1>6, <1>7, <1>8

(* A later bar begins where an earlier one has ended and a gap has passed. *)
LEMMA GapLeft ==
  ASSUME NEW n \in Nat \ {0}, NEW w \in Nat \ {0}, NEW r \in Nat, NEW s \in Nat, r + 1 <= s
  PROVE  Taken(n, w, r) < Taken(n, w, s) - w
<1>1. Taken(n, w, r) = 10 * n + 6 * (n * r) + w * (r + 1)
  BY DEF Taken
<1>2. Taken(n, w, s) - w = 10 * n + 6 * (n * s) + w * s
  BY DEF Taken
<1>3. n * r + n <= n * s
  <2>1. n * (r + 1) <= n * s
    OBVIOUS
  <2>2. QED
    BY <2>1
<1>4. w * (r + 1) <= w * s
  OBVIOUS
<1>5. n * r \in Int /\ n * s \in Int /\ w * (r + 1) \in Int /\ w * s \in Int
  OBVIOUS
<1>6. QED
  BY <1>1, <1>2, <1>3, <1>4, <1>5

(* Where the bars of one column are. *)
LEMMA SidesOfBar ==
  ASSUME NEW ch, NEW sc, NEW bs, NEW i, NEW j \in Int, NEW n \in Nat \ {0}, XUnit(ch) = 2 * n,
         valueHop(ch) \in Int, barWidth(ch) \in Nat \ {0}, realbars(ch, i) \in Nat
  PROVE  LET p == BarPos(ch, sc, bs, i, j)
             c == XUnit(ch) * valueHop(ch) * (j - 1)
             t == Taken(n, barWidth(ch), realbars(ch, i))
         IN  p.left = c + t - barWidth(ch) /\ p.right = c + t /\ c \in Int
             /\ XUnit(ch) * valueHop(ch) * j = c + 2 * n * valueHop(ch)
<1> DEFINE p == BarPos(ch, sc, bs, i, j)
           v == valueHop(ch)
           w == barWidth(ch)
           r == realbars(ch, i)
           left == 2 * n * (5 + v * (j - 1) + (1 + 2) * r) + w * r
<1>1. p.left = left /\ p.right = left + w
  BY DEF BarPos, barValueSpacing, barDatasetSpacing, barStrokeWidth
<1> HIDE DEF p, v, w, r
<1>2. v \in Int /\ w \in Nat /\ r \in Nat
  BY DEF v, w, r
<1>3. 2 * n * (5 + v * (j - 1) + (1 + 2) * r) = 2 * n * v * (j - 1) + 2 * n * (5 + 3 * r)
  BY <1>2
<1>4. w * (r + 1) = w * r + w
  BY <1>2
<1>5. 2 * n * v * j = 2 * n * v * (j - 1) + 2 * n * v
  BY <1>2
<1>6. 2 * n * v * (j - 1) \in Int /\ 2 * n * (5 + 3 * r) \in Int /\ w * r \in Int
  BY <1>2
<1>7. left = 2 * n * v * (j - 1) + Taken(n, w, r) - w
  BY <1>2, <1>3, <1>4, <1>6 DEF Taken
<1> HIDE DEF left
<1>8. Taken(n, w, r) \in Int
  BY <1>2 DEF Taken
<1>9. p.left = 2 * n * v * (j - 1) + Taken(n, w, r) - w /\ p.right = 2 * n * v * (j - 1) + Taken(n, w, r)
  BY <1>1, <1>2, <1>6, <1>7, <1>8
<1>10. QED
  BY <1>5, <1>6, <1>9 DEF p, v, w, r

(* In a horizontal chart the first bar is the last of its row. *)
LEMMA SidesOfHorizontal ==
  ASSUME NEW ch, NEW sc, NEW bs, NEW i \in Nat \ {0}, NEW j \in Int, NEW n \in Nat \ {0}, XUnit(ch) = 2 * n,
         valueHop(ch) \in Int, barWidth(ch) \in Nat \ {0}
  PROVE  LET p == HorizontalPos(ch, sc, bs, i, j)
             c == XUnit(ch) * valueHop(ch) * (j - 1)
             d == XUnit(ch) * valueHop(ch) * j
             t == Taken(n, barWidth(ch), i - 1)
         IN  p.left = d - t /\ p.right = d - t + barWidth(ch) /\ c \in Int /\ d = c + 2 * n * valueHop(ch)
<1> DEFINE p == HorizontalPos(ch, sc, bs, i, j)
           v == valueHop(ch)
           w == barWidth(ch)
           r == i - 1
           upper == 2 * n * (v * j - 5 - (1 + 2) * r) - w * r
<1>1. p.left = upper - w /\ p.right = upper
  BY DEF HorizontalPos, barValueSpacing, barDatasetSpacing, barStrokeWidth
<1> HIDE DEF p, v, w, r
<1>2. v \in Int /\ w \in Nat /\ r \in Nat
  BY DEF v, w, r
<1>3. 2 * n * (v * j - 5 - (1 + 2) * r) = 2 * n * v * j - 2 * n * (5 + 3 * r)
  BY <1>2
<1>4. w * (r + 1) = w * r + w
  BY <1>2
<1>5. 2 * n * v * j = 2 * n * v * (j - 1) + 2 * n * v
  BY <1>2
<1>6. 2 * n * v * j \in Int /\ 2 * n * v * (j - 1) \in Int /\ 2 * n * (5 + 3 * r) \in Int /\ w * r \in Int
  BY <1>2
<1>7. upper = 2 * n * v * j - Taken(n, w, r) + w
  BY <1>2, <1>3, <1>4, <1>6 DEF Taken
<1> HIDE DEF upper
<1>8. Taken(n, w, r) \in Int
  BY <1>2 DEF Taken
<1>9. p.left = 2 * n * v * j - Taken(n, w, r) /\ p.right = 2 * n * v * j - Taken(n, w, r) + w
  BY <1>1, <1>2, <1>6, <1>7, <1>8
<1>10. QED
  BY <1>5, <1>6, <1>9 DEF p, v, w, r

(* A stacked bar has the column to itself. *)
LEMMA SidesOfStack ==
  ASSUME NEW ch, NEW j \in Int, NEW n \in Nat \ {0}, XUnit(ch) = 2 * n,
         valueHop(ch) \in Int, barWidth(ch) \in Nat \ {0}, 10 * n + barWidth(ch) <= 2 * n * valueHop(ch)
  PROVE  LET c == XUnit(ch) * valueHop(ch) * (j - 1)
             d == XUnit(ch) * valueHop(ch) * j
             left == XUnit(ch) * (barValueSpacing + valueHop(ch) * (j - 1))
             upper == XUnit(ch) * (valueHop(ch) * j - barValueSpacing)
         IN  c <= left /\ left + barWidth(ch) <= d /\ c <= upper - barWidth(ch) /\ upper <= d
<1> DEFINE v == valueHop(ch)
           w == barWidth(ch)
           c == 2 * n * v * (j - 1)
           d == 2 * n * v * j
<1>1. v \in Int /\ w \in Nat /\ 10 * n + w <= 2 * n * v
  OBVIOUS
<1> HIDE DEF v, w
<1>2. /\ 2 * n * (5 + v * (j - 1)) = 10 * n + c
      /\ 2 * n * (v * j - 5) = d - 10 * n
      /\ d = c + 2 * n * v
      /\ c \in Int /\ d \in Int /\ 2 * n * v \in Int
  BY <1>1
<1> HIDE DEF c, d
<1>3. /\ c <= 2 * n * (5 + v * (j - 1)) /\ 2 * n * (5 + v * (j - 1)) + w <= d
      /\ c <= 2 * n * (v * j - 5) - w /\ 2 * n * (v * j - 5) <= d
  BY <1>1, <1>2
<1>4. QED
  BY <1>3 DEF barValueSpacing, c, d, v, w

-----------------------------------------------------------------------------
(* The scale of a stacked chart rises. *)

(* A step of up to twice the distance fits at least once into it. *)
LEMMA RoundRises ==
  ASSUME NEW x \in Int, NEW d \in Nat \ {0}, d <= 2 * x
  PROVE  RoundDiv(x, d) \in Nat \ {0}
<1>1. 2 * d \in Nat \ {0} /\ 2 * x + d \in Int /\ (2 * d) * 1 <= 2 * x + d
  OBVIOUS
<1>2. 1 <= (2 * x + d) \div (2 * d) /\ (2 * x + d) \div (2 * d) \in Int
  BY <1>1, DivAtLeast, DivParts
<1>3. QED
  BY <1>2 DEF RoundDiv

(* A rounded number of steps is off by half a step at most. *)
LEMMA RoundNear ==
  ASSUME NEW x \in Int, NEW d \in Nat \ {0}
  PROVE  /\ RoundDiv(x, d) \in Int
         /\ 2 * (d * RoundDiv(x, d)) <= 2 * x + d /\ 2 * x + d < 2 * (d * RoundDiv(x, d)) + 2 * d
<1>1. 2 * d \in Nat \ {0} /\ 2 * x + d \in Int
  OBVIOUS
<1> DEFINE q == (2 * x + d) \div (2 * d)
<1>2. q \in Int /\ (2 * d) * q <= 2 * x + d /\ 2 * x + d < (2 * d) * q + 2 * d
  BY <1>1, DivParts
<1>3. RoundDiv(x, d) = q
  BY DEF RoundDiv
<1> HIDE DEF q
<1>4. (2 * d) * q = 2 * (d * q)
  BY <1>2
<1>5. QED
  BY <1>2, <1>3, <1>4

(* A step that is halved because there are fewer than sixteen is not one    *)
(* unit: the range has at least sixteen.                                    *)
LEMMA HalveSteps ==
  ASSUME NEW s, Stepping(s), s.steps < 16
  PROVE  Stepping(WithStep(s, s.stepValue \div 2))
<1> DEFINE x == s.max - s.graphMin
           d == s.stepValue
           h == d \div 2
<1>1. s \in Scale /\ x \in Int /\ d \in Nat \ {0} /\ x >= 16
  BY ScaleFields DEF Stepping
<1>2. s.steps = RoundDiv(x, d) /\ s.steps >= 1 /\ s.steps \in Nat
  BY <1>1, ScaleFields DEF Stepping
<1> HIDE DEF x, d
<1>3. s.steps \in 1 .. 15
  BY <1>2
<1>4. 2 * (d * s.steps) <= 2 * x + d /\ 2 * x + d < 2 * (d * s.steps) + 2 * d
  BY <1>1, <1>2, RoundNear
<1>5. d * s.steps <= d * 15 /\ d * 1 <= d * s.steps /\ d * s.steps \in Int
  BY <1>1, <1>3
<1>6. d >= 2 /\ d <= 2 * x
  BY <1>1, <1>4, <1>5
<1>7. h \in Nat \ {0} /\ h <= 2 * x
  BY <1>1, <1>6
<1> HIDE DEF h
<1>8. RoundDiv(x, h) \in Nat \ {0}
  BY <1>1, <1>7, RoundRises
<1> DEFINE r == WithStep(s, h)
<1>9. r \in Scale /\ r.graphMin = s.graphMin /\ r.max = s.max /\ r.stepValue = h /\ r.steps = RoundDiv(x, h)
  BY <1>1, <1>7, <1>8, WithStepIs DEF x
<1> HIDE DEF r
<1>10. Stepping(r)
  BY <1>1, <1>8, <1>9 DEF Stepping, x
<1>11. QED
  BY <1>10 DEF r, h, d

(* A step that is doubled because there are two or more is not too long. *)
LEMMA DoubleSteps ==
  ASSUME NEW s, Stepping(s), s.steps >= 2
  PROVE  Stepping(WithStep(s, s.stepValue * 2))
<1> DEFINE x == s.max - s.graphMin
           d == s.stepValue
           h == d * 2
<1>1. s \in Scale /\ x \in Int /\ d \in Nat \ {0} /\ x >= 16
  BY ScaleFields DEF Stepping
<1>2. s.steps = RoundDiv(x, d) /\ s.steps >= 2 /\ s.steps \in Nat
  BY <1>1, ScaleFields DEF Stepping
<1> HIDE DEF x, d
<1>3. 2 * (d * s.steps) <= 2 * x + d
  BY <1>1, <1>2, RoundNear
<1>4. d * 2 <= d * s.steps /\ d * s.steps \in Int
  BY <1>1, <1>2
<1>5. h \in Nat \ {0} /\ h <= 2 * x
  BY <1>1, <1>3, <1>4
<1> HIDE DEF h
<1>6. RoundDiv(x, h) \in Nat \ {0}
  BY <1>1, <1>5, RoundRises
<1> DEFINE r == WithStep(s, h)
<1>7. r \in Scale /\ r.graphMin = s.graphMin /\ r.max = s.max /\ r.stepValue = h /\ r.steps = RoundDiv(x, h)
  BY <1>1, <1>5, <1>6, WithStepIs DEF x
<1> HIDE DEF r
<1>8. Stepping(r)
  BY <1>1, <1>6, <1>7 DEF Stepping, x
<1>9. QED
  BY <1>8 DEF r, h, d

(* roundScale does not lose an interval of a hundredth or more. *)
LEMMA RoundScaleRises ==
  ASSUME NEW i \in Nat, i >= 16, NEW x \in Int, x >= i
  PROVE  roundScale(i, x) \in Nat \ {0}
<1> DEFINE q == IF i = NotSet \/ i % Unit = 0 THEN Unit ELSE Unit \div 100
<1>1. q \in Nat \ {0} /\ q <= i
  <2>1. i # NotSet
    BY DEF NotSet, Missing
  <2>2. Unit = 1600 /\ Unit \div 100 = 16
    BY DEF Unit
  <2>3. i % 1600 = 0 => i >= 1600
    OBVIOUS
  <2>4. QED
    BY <2>1, <2>2, <2>3
<1>2. roundScale(i, x) = RoundDiv(x, q) * q
  BY DEF roundScale
<1> HIDE DEF q
<1>3. q <= 2 * x
  BY <1>1
<1>4. RoundDiv(x, q) \in Nat \ {0}
  BY <1>1, <1>3, RoundRises
<1>5. QED
  BY <1>1, <1>2, <1>4

(* Nor does it lose a multiple of an interval that it keeps. *)
LEMMA RoundScaleLeaves ==
  ASSUME NEW i \in Nat, NEW j, roundScale(j, i) > 0, NEW x \in Int, x >= i
  PROVE  roundScale(j, x) \in Nat \ {0}
<1> DEFINE q == IF j = NotSet \/ j % Unit = 0 THEN Unit ELSE Unit \div 100
           r == RoundDiv(i, q)
<1>1. q \in Nat \ {0}
  BY DEF Unit
<1>2. roundScale(j, x) = RoundDiv(x, q) * q /\ roundScale(j, i) = r * q
  BY DEF roundScale
<1> HIDE DEF q
<1>3. r \in Int /\ (2 * q) * r <= 2 * i + q
  BY <1>1, DivParts DEF RoundDiv
<1> HIDE DEF r
<1>4. r >= 1
  BY <1>1, <1>2, <1>3
<1>5. 2 * q <= (2 * q) * r
  BY <1>1, <1>3, <1>4
<1>6. q <= 2 * x
  BY <1>1, <1>3, <1>5
<1>7. RoundDiv(x, q) \in Nat \ {0}
  BY <1>1, <1>6, RoundRises
<1>8. QED
  BY <1>1, <1>2, <1>7

(* The number of steps of a scale with another step is rounded up to one. *)
LEMMA StepUpRises ==
  ASSUME NEW s, Stepping(s), NEW d \in Nat \ {0}
  PROVE  WithStepUp(s, d) \in Scale /\ WithStepUp(s, d).stepValue = d /\ WithStepUp(s, d).steps >= 1
<1>1. s \in Scale /\ s.max - s.graphMin >= 16 /\ s.max - s.graphMin \in Int /\ s.max \in Int /\ s.graphMin \in Int
  BY ScaleFields DEF Stepping
<1>2. s.graphMin <= s.max
  BY <1>1
<1> DEFINE r == WithStepUp(s, d)
<1>3. r \in Scale /\ r.stepValue = d /\ s.max - s.graphMin <= r.steps * r.stepValue
  BY <1>1, <1>2, WithStepUpIs
<1> HIDE DEF r
<1>4. r.steps \in Nat
  BY <1>3, ScaleFields
<1>5. r.steps >= 1
  BY <1>1, <1>3, <1>4
<1>6. QED
  BY <1>3, <1>5 DEF r

(* The interval keeps a scale with steps. *)
LEMMA OnIntervalRises ==
  ASSUME NEW s, Stepping(s), NEW i, NEW j,
         i = NotSet \/ (i \in Nat /\ i >= 16 /\ roundScale(j, i) > 0)
  PROVE  OnInterval(s, i, j) \in Scale /\ OnInterval(s, i, j).steps >= 1
<1> DEFINE r == OnInterval(s, i, j)
           v == s.stepValue
<1>1. s \in Scale /\ s.steps >= 1 /\ v \in Nat \ {0}
  BY ScaleFields DEF Stepping
<1>2. CASE i = NotSet
  <2>1. r = s
    BY <1>2 DEF OnInterval
  <2>2. QED
    BY <1>1, <2>1
<1>3. CASE i # NotSet
  <2>1. i \in Nat \ {0} /\ i >= 16 /\ roundScale(j, i) > 0
    BY <1>3
  <2>2. CASE v < i
    <3> DEFINE t == WithStepUp(s, i)
    <3>1. t \in Scale /\ t.stepValue = i /\ t.steps >= 1
      BY <2>1, StepUpRises
    <3> HIDE DEF t
    <3>2. i % i = 0
      BY <2>1
    <3>3. r = t
      BY <1>3, <2>2, <3>1, <3>2 DEF OnInterval, t
    <3>4. QED
      BY <3>1, <3>3
  <2>3. CASE ~(v < i) /\ v % i = 0
    <3>1. r = s
      BY <1>3, <2>3 DEF OnInterval
    <3>2. QED
      BY <1>1, <3>1
  <2>4. CASE ~(v < i) /\ v % i # 0
    <3> DEFINE y == v \div i
               d == IF (2 * v) % i = 0 THEN 2 * v ELSE roundScale(j, (1 + y) * i)
    <3>1. r = WithStepUp(s, d)
      BY <1>3, <2>4 DEF OnInterval
    <3>2. y \in Int /\ 0 <= y
      <4>1. i * 0 <= v
        BY <1>1, <2>1
      <4>2. QED
        BY <1>1, <2>1, <4>1, DivAtLeast, DivParts
    <3>3. (1 + y) * i \in Int /\ (1 + y) * i >= i
      <4> HIDE DEF y
      <4>1. QED
        BY <2>1, <3>2
    <3>4. roundScale(j, (1 + y) * i) \in Nat \ {0}
      <4> HIDE DEF y
      <4>1. QED
        BY <2>1, <3>3, RoundScaleLeaves
    <3>5. 2 * v \in Nat \ {0}
      BY <1>1
    <3>6. d \in Nat \ {0}
      <4> HIDE DEF y
      <4>1. QED
        BY <3>4, <3>5
    <3> HIDE DEF d
    <3>7. QED
      BY <3>1, <3>6, StepUpRises
  <2>5. QED
    BY <2>2, <2>3, <2>4
<1>4. QED
  BY <1>2, <1>3

(* What is cut off leaves a step. *)
Cuts(n, T) == T \in SUBSET (0 .. n) /\ 0 \in T /\ \A k \in T : k = 0 \/ k <= n - 2

(* The greatest number of steps that may be cut off leaves one. *)
LEMMA CutLeaves ==
  ASSUME NEW n \in Nat, n >= 1, NEW T, Cuts(n, T)
  PROVE  Max(T) \in Nat /\ n - Max(T) \in Nat /\ n - Max(T) >= 1
<1>1. T \in SUBSET (0 .. n) /\ T \in SUBSET Int /\ 0 \in T /\ \A k \in T : k = 0 \/ k <= n - 2
  BY DEF Cuts
<1>2. PICK m \in T : \A y \in T : m >= y
  BY <1>1, GreatestNat
<1>3. Max(T) \in T
  BY <1>1, <1>2, MaxOf
<1> DEFINE k == Max(T)
<1> HIDE DEF k
<1>4. k \in 0 .. n /\ (k = 0 \/ k <= n - 2)
  BY <1>1, <1>3 DEF k
<1>5. k \in Nat /\ n - k \in Nat /\ n - k >= 1
  BY <1>4
<1>6. QED
  BY <1>5 DEF k

(* Cutting off steps at the bottom or at the top leaves one. *)
LEMMA TrimsRise ==
  ASSUME NEW s \in Scale, s.steps >= 1, NEW x
  PROVE  /\ TrimBottom(s, x) \in Scale /\ TrimBottom(s, x).steps >= 1
         /\ TrimTop(s, x) \in Scale /\ TrimTop(s, x).steps >= 1
<1> DEFINE g == s.graphMin
           v == s.stepValue
           n == s.steps
           A == {m \in 1 .. (n - 2) : g + m * v < x}
           B == {m \in 1 .. (n - 2) : g + (n - m) * v >= x}
           k == Max({0} \union A)
           l == Max({0} \union B)
<1>1. g \in Int /\ v \in Nat \ {0} /\ n \in Nat /\ n >= 1
  BY ScaleFields
<1>2. TrimBottom(s, x) = [s EXCEPT !.graphMin = g + k * v, !.steps = n - k] /\ TrimTop(s, x) = [s EXCEPT !.steps = n - l]
  BY DEF TrimBottom, TrimTop
<1>3. Cuts(n, {0} \union A) /\ Cuts(n, {0} \union B)
  BY <1>1 DEF Cuts
<1>4. k \in Nat /\ n - k \in Nat /\ n - k >= 1 /\ l \in Nat /\ n - l \in Nat /\ n - l >= 1
  <2> HIDE DEF A, B, n
  <2>1. QED
    BY <1>1, <1>3, CutLeaves
<1> HIDE DEF k, l, g, v, n
<1>5. g + k * v \in Int
  BY <1>1, <1>4
<1> DEFINE b == TrimBottom(s, x)
           t == TrimTop(s, x)
<1>6. b \in Scale /\ b.steps = n - k
  BY <1>2, <1>4, <1>5 DEF Scale
<1>7. t \in Scale /\ t.steps = n - l
  BY <1>2, <1>4 DEF Scale
<1> HIDE DEF b, t
<1>8. b \in Scale /\ b.steps >= 1 /\ t \in Scale /\ t.steps >= 1
  BY <1>4, <1>6, <1>7
<1>9. QED
  BY <1>8 DEF b, t

(* The upper end reaches the greatest value, whatever the rounding does. *)
LEMMA HighEndReaches ==
  ASSUME NEW hi \in Int, NEW g \in Int, NEW i \in Nat \ {0}, NEW j
  PROVE  HighEnd(hi, g, i, j) \in Int /\ hi <= HighEnd(hi, g, i, j)
<1> DEFINE x == roundScale(j, (1 + g \div i) * i)
           t == IF g % i = 0 THEN g ELSE x
           c == CeilDiv(hi - t, i)
<1>1. HighEnd(hi, g, i, j) = IF t < hi THEN t + c * i ELSE t
  BY DEF HighEnd
<1>2. x \in Int
  <2> DEFINE q == IF j = NotSet \/ j % Unit = 0 THEN Unit ELSE Unit \div 100
             y == (1 + g \div i) * i
  <2>1. q \in Nat \ {0}
    BY DEF Unit
  <2>2. g \div i \in Int
    BY DivParts
  <2>3. y \in Int
    BY <2>2
  <2>4. x = RoundDiv(y, q) * q
    BY DEF roundScale
  <2> HIDE DEF q, y, x
  <2>5. RoundDiv(y, q) \in Int
    BY <2>1, <2>3, RoundNear
  <2>6. QED
    BY <2>1, <2>4, <2>5
<1> HIDE DEF x
<1>3. t \in Int
  BY <1>2
<1> HIDE DEF t
<1>4. hi - t \in Int
  BY <1>3
<1>5. c \in Int /\ hi - t <= i * c
  BY <1>4, CeilCovers
<1> HIDE DEF c
<1>6. c * i = i * c /\ i * c \in Int
  BY <1>5
<1>7. QED
  BY <1>1, <1>3, <1>5, <1>6

(* The first guess. *)
LEMMA FirstSteps ==
  ASSUME NEW lo \in Int, NEW hi \in Int, 16 <= hi - lo, hi - lo < 16000000,
         NEW i, NEW j, i = NotSet \/ (i \in Nat /\ i >= 16)
  PROVE  Stepping(FirstScale(lo, hi, i, j))
<1> DEFINE p == calculateOrderOfMagnitude(hi - lo)
           a == FloorDiv(lo, p)
           c == CeilDiv(hi, p)
           gmin == a * p
           gmax == c * p
           aligned == i # NotSet /\ gmax >= 0
           low == IF aligned THEN LowEnd(lo, gmin, i) ELSE gmin
           high == IF aligned THEN HighEnd(hi, gmax, i, j) ELSE gmax
           s == FirstScale(lo, hi, i, j)
<1>1. s = [graphMin |-> low, stepValue |-> p, steps |-> RoundDiv(high - low, p),
           max |-> high, logarithmic |-> FALSE]
  BY DEF FirstScale
<1>2. p \in Powers /\ p <= hi - lo
  <2>1. hi - lo \in Int
    OBVIOUS
  <2>2. QED
    BY <2>1, Order
<1>3. p \in Nat \ {0}
  BY <1>2, PowerIs
<1> HIDE DEF p, s
<1>4. a \in Int /\ p * a <= lo
  BY <1>3, DivParts DEF FloorDiv
<1>5. c \in Int /\ hi <= p * c
  BY <1>3, CeilCovers
<1> HIDE DEF a, c
<1>6. gmin \in Int /\ gmin <= lo /\ gmax \in Int /\ hi <= gmax
  BY <1>3, <1>4, <1>5
<1> HIDE DEF gmin, gmax
<1>7. low \in Int /\ low <= lo /\ high \in Int /\ hi <= high
  <2>1. CASE aligned
    <3>1. i \in Nat \ {0}
      BY <2>1
    <3>2. LowEnd(lo, gmin, i) \in Int /\ LowEnd(lo, gmin, i) <= lo
      BY <1>6, <3>1, LowEndIs, SMTT(30)
    <3>3. HighEnd(hi, gmax, i, j) \in Int /\ hi <= HighEnd(hi, gmax, i, j)
      BY <1>6, <3>1, HighEndReaches
    <3>4. QED
      BY <2>1, <3>2, <3>3
  <2>2. CASE ~aligned
    BY <1>6, <2>2
  <2>3. QED
    BY <2>1, <2>2
<1> HIDE DEF low, high
<1>8. high - low \in Int /\ high - low >= 16 /\ p <= 2 * (high - low)
  BY <1>2, <1>3, <1>7
<1>9. RoundDiv(high - low, p) \in Nat \ {0}
  BY <1>3, <1>8, RoundRises
<1>10. s \in Scale /\ s.max = high /\ s.graphMin = low /\ s.stepValue = p /\ s.steps = RoundDiv(high - low, p)
  BY <1>1, <1>3, <1>7, <1>9 DEF Scale
<1>11. Stepping(s)
  BY <1>8, <1>9, <1>10 DEF Stepping
<1>12. QED
  BY <1>11 DEF s

(* The rest of calculateScale. *)
LEMMA FinishRises ==
  ASSUME NEW ch, NEW b, NEW s, Stepping(s), NEW a,
         LET i == ch.opts.yAxisMinimumInterval[a]
         IN  i = NotSet \/ (i \in Nat /\ i >= 16 /\ roundScale(ch.opts.yAxisMinimumInterval[1], i) > 0)
  PROVE  Rising(FinishedScale(ch, s, a, b))
<1> DEFINE i == ch.opts.yAxisMinimumInterval[a]
           j == ch.opts.yAxisMinimumInterval[1]
           low == ch.opts.graphMaximized \in {"yes", "bottom"} \/ ch.opts.graphMin[1] # NotSet
           high == ch.opts.graphMaximized \in {"yes", "top"} \/ ch.opts.graphMax[1] # NotSet
           t == OnInterval(s, i, j)
           u == IF low THEN TrimBottom(t, b.lo) ELSE t
           w == IF high THEN TrimTop(u, b.hi) ELSE u
<1>1. FinishedScale(ch, s, a, b) = w
  BY DEF FinishedScale
<1>2. i = NotSet \/ (i \in Nat /\ i >= 16 /\ roundScale(j, i) > 0)
  OBVIOUS
<1> HIDE DEF i, j, low, high
<1>3. t \in Scale /\ t.steps >= 1
  BY <1>2, OnIntervalRises
<1> HIDE DEF t
<1>4. u \in Scale /\ u.steps >= 1
  BY <1>3, TrimsRise
<1> HIDE DEF u
<1>5. w \in Scale /\ w.steps >= 1
  BY <1>4, TrimsRise
<1> HIDE DEF w
<1>6. w.graphMin \in Int /\ w.stepValue \in Nat \ {0} /\ w.steps \in Nat /\ ~w.logarithmic
  BY <1>5, ScaleFields
<1>7. QED
  BY <1>1, <1>5, <1>6 DEF Rising

-----------------------------------------------------------------------------
(* The room along the bars. *)

(* Powers of ten up to a number. *)
LEMMA DecadesGrow ==
  ASSUME NEW p, NEW x \in Int, NEW y \in Int, x <= y
  PROVE  Decades(p, x) \in Nat /\ Decades(p, y) \in Nat /\ Decades(p, x) <= Decades(p, y)
<1> DEFINE S(q) == {r \in Powers : p < r /\ r <= q}
<1>1. 1600000 \in Nat /\ \A r \in Powers : r \in Nat /\ r <= 1600000
  BY SMTT(30) DEF Powers
<1>2. PICK m \in Nat : \A r \in Powers : r \in Nat /\ r <= m
  BY <1>1, SMTT(30)
<1>3. S(x) \in SUBSET Nat /\ S(y) \in SUBSET Nat /\ (\A r \in S(x) : r <= m) /\ (\A r \in S(y) : r <= m)
  BY <1>2
<1>4. S(x) \subseteq S(y)
  BY <1>2
<1> HIDE DEF S
<1>5. IsFiniteSet(S(x)) /\ IsFiniteSet(S(y))
  BY <1>3, FS_BoundedSetOfNaturals
<1>6. Cardinality(S(x)) <= Cardinality(S(y)) /\ Cardinality(S(x)) \in Nat /\ Cardinality(S(y)) \in Nat
  BY <1>4, <1>5, FS_Subset, FS_CardinalityType
<1>7. Decades(p, x) = Cardinality(S(x)) /\ Decades(p, y) = Cardinality(S(y))
  BY DEF Decades, S
<1>8. QED
  BY <1>6, <1>7

(* A logarithmic scale has a step for every power of ten. *)
LEMMA LogRises ==
  ASSUME NEW lo \in Int, NEW hi \in Int, 16 <= lo, lo < hi, hi < 16000000
  PROVE  Rising(LogScale(lo, hi))
<1> DEFINE p == calculateOrderOfMagnitude(lo)
           q == calculateOrderOfMagnitude(hi)
           n == Decades(p, q)
           s == LogScale(lo, hi)
<1>1. lo < 16000000 /\ 16 <= hi /\ lo # 0 /\ lo # hi
  BY SMTT(30)
<1>2. p \in Powers /\ q \in Powers /\ p <= lo /\ hi < 10 * q
  BY <1>1, Order, SMTT(30)
<1>3. p \in Int /\ q \in Int /\ 0 < p
  BY <1>2, PowerIs
<1>4. s = [graphMin |-> p, stepValue |-> 1, steps |-> 1 + n, max |-> 10 * q, logarithmic |-> TRUE]
  BY <1>1, SMTT(30) DEF LogScale
<1> HIDE DEF p, q, s
<1>5. n \in Nat
  BY <1>3, DecadesGrow, SMTT(30)
<1> HIDE DEF n
<1>6. Rising(s)
  BY <1>2, <1>3, <1>4, <1>5, SMTT(30) DEF Rising
<1>7. QED
  BY <1>6 DEF s

(* The scale of a line among bars. *)
LEMMA LineRises ==
  ASSUME NEW ch, NEW s, Rising(s)
  PROVE  Rising(LineScale(ch, s)) /\ (~s.logarithmic => ~LineScale(ch, s).logarithmic)
<1> DEFINE d == s.max \div s.graphMin
           v == Unit * d
           t == [graphMin |-> s.graphMin, stepValue |-> v, steps |-> s.steps, max |-> s.max, logarithmic |-> FALSE]
<1>1. CASE ch.type = "Bar" /\ s.logarithmic
  <2>1. d \in Nat \ {0}
    BY <1>1, DivParts DEF Rising
  <2> HIDE DEF d
  <2>2. v \in Nat \ {0}
    BY <2>1 DEF Unit
  <2> HIDE DEF v
  <2>3. Rising(t) /\ LineScale(ch, s) = t
    BY <1>1, <2>2 DEF Rising, LineScale, v, d
  <2>4. QED
    BY <1>1, <2>3
<1>2. QED
  BY <1>1 DEF LineScale

(* A greater value is not drawn lower. *)
LEMMA OffsetGrows ==
  ASSUME NEW s, Rising(s), NEW hop \in Nat, NEW x \in Int, NEW y \in Int, x <= y
  PROVE  /\ calculateOffset(x, s, hop) \in Nat /\ calculateOffset(y, s, hop) \in Nat
         /\ calculateOffset(x, s, hop) <= calculateOffset(y, s, hop)
<1>1. CASE s.logarithmic
  <2> DEFINE d == Decades(s.graphMin, x)
             e == Decades(s.graphMin, y)
  <2>1. d \in Nat /\ e \in Nat /\ d <= e
    BY DecadesGrow
  <2>2. calculateOffset(x, s, hop) = hop * d /\ calculateOffset(y, s, hop) = hop * e
    BY <1>1 DEF calculateOffset
  <2> HIDE DEF d, e
  <2>3. hop * d \in Nat /\ hop * e \in Nat /\ hop * d <= hop * e
    BY <2>1
  <2>4. QED
    BY <2>2, <2>3
<1>2. CASE ~s.logarithmic
  <2> DEFINE g == s.graphMin
             h == s.steps * s.stepValue
             c == CapValue(x - g, h, 0)
             d == CapValue(y - g, h, 0)
  <2>1. g \in Int /\ h \in Nat
    BY DEF Rising
  <2>2. calculateOffset(x, s, hop) = hop * c /\ calculateOffset(y, s, hop) = hop * d
    BY <1>2 DEF calculateOffset
  <2> HIDE DEF g, h
  <2>3. c \in Nat /\ d \in Nat /\ c <= d
    BY <2>1 DEF CapValue
  <2> HIDE DEF c, d
  <2>4. hop * c \in Nat /\ hop * d \in Nat /\ hop * c <= hop * d
    BY <2>3
  <2>5. QED
    BY <2>2, <2>4
<1>3. QED
  BY <1>1, <1>2

(* Neither does the rounding of its position turn this around. *)
LEMMA HeightGrows ==
  ASSUME NEW ch, Prepared(ch), availableHeight(ch) >= 0, NEW s, Rising(s), NEW x \in Int, NEW y \in Int, x <= y
  PROVE  Height(ch, s, x) \in Nat /\ Height(ch, s, y) \in Nat /\ Height(ch, s, x) <= Height(ch, s, y)
<1> DEFINE hop == scaleHop(ch, s)
           c == calculateOffset(x, s, hop)
           d == calculateOffset(y, s, hop)
           v == s.stepValue
<1>1. availableHeight(ch) \in Nat
  <2>1. ch.width \in Int /\ ch.height \in Int
    BY DEF Prepared, Framed
  <2>2. availableHeight(ch) \in Int
    BY <2>1 DEF availableHeight, scaleTickSize
  <2>3. QED
    BY <2>2
<1>2. hop \in Nat
  <2> DEFINE a == availableHeight(ch)
             n == s.steps
  <2>1. a \in Nat /\ n \in Nat \ {0}
    BY <1>1 DEF Rising
  <2>2. hop = a \div n
    BY DEF scaleHop
  <2> HIDE DEF a, n, hop
  <2>3. n * 0 <= a
    BY <2>1
  <2>4. QED
    BY <2>1, <2>2, <2>3, DivAtLeast, DivParts
<1> HIDE DEF hop
<1>3. c \in Nat /\ d \in Nat /\ c <= d
  BY <1>2, OffsetGrows
<1>4. v \in Nat \ {0}
  BY DEF Rising
<1>5. Height(ch, s, x) = (10 * c) \div v /\ Height(ch, s, y) = (10 * d) \div v
  BY DEF Height, hop
<1> HIDE DEF c, d, v
<1> DEFINE l == (10 * c) \div v
           m == (10 * d) \div v
<1>6. l \in Int /\ v * l <= 10 * c /\ 10 * c \in Int /\ 10 * d \in Int
  BY <1>3, <1>4, DivParts
<1>7. m \in Int /\ l <= m /\ 0 <= l
  <2>1. v * l <= 10 * d /\ v * 0 <= 10 * c
    BY <1>3, <1>4, <1>6
  <2> HIDE DEF l
  <2>2. QED
    BY <1>4, <1>6, <2>1, DivAtLeast, DivParts DEF l
<1> HIDE DEF l, m
<1>8. l \in Nat /\ m \in Nat
  BY <1>6, <1>7
<1>9. QED
  BY <1>5, <1>7, <1>8 DEF l, m

(* The datasets below a stacked datum, and where it starts. *)
Under(ch, i, j) == {k \in Column(ch, j) : k < i /\ (ch.data[k][j] < 0 <=> ch.data[i][j] < 0)}
Bottom(ch, i, j) == ColumnSum(ch, Under(ch, i, j), j)

(* A stack starts at zero, and a later datum beyond the earlier ones. *)
LEMMA BottomGrows ==
  ASSUME NEW ch, Prepared(ch), NEW j \in 1 .. ch.labels, NEW i \in Column(ch, j)
  PROVE  LET v == ch.data[i][j]
             b == Bottom(ch, i, j)
         IN  /\ v \in Int /\ b \in Int
             /\ v >= 0 => b >= 0
             /\ v < 0 => b <= 0
             /\ \A k \in Column(ch, j) : i < k /\ (ch.data[k][j] < 0 <=> v < 0) =>
                  IF v < 0 THEN Bottom(ch, k, j) <= b + v ELSE Bottom(ch, k, j) >= b + v
<1> DEFINE n == Len(ch.data)
           f == [m \in Rows(ch) |-> ch.data[m][j]]
           v == ch.data[i][j]
           b == Bottom(ch, i, j)
           C == Column(ch, j)
           U(k) == Under(ch, k, j)
<1>1. n \in Nat /\ Rows(ch) = 1 .. n
  BY DEF Prepared, Rows
<1>2. C \in SUBSET (1 .. n)
  BY <1>1 DEF Column
<1>3. \A m \in 1 .. n : f[m] = ch.data[m][j] /\ f[m] \in Int
  BY <1>1 DEF Prepared
<1>4. ASSUME NEW k PROVE Bottom(ch, k, j) = Total(n, f, U(k))
  BY DEF Bottom, ColumnSum
<1>5. ASSUME NEW k \in C
      PROVE  \A m \in 1 .. n : m \in U(k) <=> m \in C /\ m < k /\ (f[m] < 0 <=> f[k] < 0)
  <2>1. \A m : m \in U(k) <=> m \in C /\ m < k /\ (ch.data[m][j] < 0 <=> ch.data[k][j] < 0)
    BY DEF Under
  <2> HIDE DEF U, C, f
  <2>2. QED
    BY <1>2, <1>3, <2>1
<1>6. v = f[i] /\ i \in 1 .. n /\ i \in C
  BY <1>2, <1>3
<1> HIDE DEF n, f, C, U
<1>7. v \in Int
  BY <1>3, <1>6
<1> HIDE DEF v
<1>8. ASSUME NEW S PROVE Total(n, f, S) \in Int
  <2>1. \A m \in 1 .. n : m \in S => f[m] \in Int
    BY <1>3
  <2>2. QED
    BY <1>1, <2>1, TotalInt
<1>9. b = Total(n, f, U(i)) /\ b \in Int
  BY <1>4, <1>8
<1> HIDE DEF b
<1>10. Total(n, f, {}) = 0
  BY <1>1, TotalEmpty
<1>11. v >= 0 => b >= 0
  <2> SUFFICES ASSUME v >= 0 PROVE Total(n, f, {}) <= Total(n, f, U(i))
    BY <1>9, <1>10
  <2>1. \A m \in 1 .. n : m \in U(i) => f[m] >= 0
    BY <1>3, <1>5, <1>6
  <2>2. \A m \in 1 .. n : m \in {} \/ m \in U(i) => f[m] \in Int
    BY <1>3
  <2>3. \A m \in 1 .. n : m \in {} /\ m \notin U(i) => f[m] <= 0
    OBVIOUS
  <2>4. \A m \in 1 .. n : m \in U(i) /\ m \notin {} => f[m] >= 0
    BY <2>1
  <2>5. QED
    BY <1>1, <2>2, <2>3, <2>4, TotalGrows
<1>12. v < 0 => b <= 0
  <2> SUFFICES ASSUME v < 0 PROVE Total(n, f, U(i)) <= Total(n, f, {})
    BY <1>9, <1>10
  <2>1. \A m \in 1 .. n : m \in U(i) => f[m] <= 0
    BY <1>3, <1>5, <1>6
  <2>2. \A m \in 1 .. n : m \in U(i) \/ m \in {} => f[m] \in Int
    BY <1>3
  <2>3. \A m \in 1 .. n : m \in U(i) /\ m \notin {} => f[m] <= 0
    BY <2>1
  <2>4. \A m \in 1 .. n : m \in {} /\ m \notin U(i) => f[m] >= 0
    OBVIOUS
  <2>5. QED
    BY <1>1, <2>2, <2>3, <2>4, TotalGrows
<1>13. ASSUME NEW k \in C, i < k, f[k] < 0 <=> v < 0
       PROVE  IF v < 0 THEN Bottom(ch, k, j) <= b + v ELSE Bottom(ch, k, j) >= b + v
  <2> DEFINE T == U(i) \union {i}
  <2>1. Total(n, f, T) = b + v
    <3>1. i \notin U(i)
      BY <1>5, <1>6
    <3>2. \A m \in 1 .. n : m # i => (m \in U(i) <=> m \in T)
      OBVIOUS
    <3> HIDE DEF T
    <3>3. Differ(n, f, f, U(i), T, i, v)
      BY <1>1, <1>3, <1>6, <1>7, <3>1, <3>2 DEF Differ, T
    <3>4. QED
      BY <1>1, <1>9, <3>3, TotalDiffers
  <2>2. k \in 1 .. n
    BY <1>2, <1>13
  <2>3. \A m \in 1 .. n : m \in T => m \in U(k)
    <3>1. i \in U(k)
      BY <1>5, <1>6, <1>13
    <3>2. ASSUME NEW m \in 1 .. n, m \in U(i) PROVE m \in U(k)
      BY <1>5, <1>6, <1>13, <2>2, <3>2
    <3>3. QED
      BY <3>1, <3>2
  <2>4. \A m \in 1 .. n : m \in U(k) => (f[m] < 0 <=> v < 0)
    BY <1>5, <1>13
  <2> HIDE DEF T
  <2>5. CASE v < 0
    <3>1. \A m \in 1 .. n : m \in U(k) \/ m \in T => f[m] \in Int
      BY <1>3
    <3>2. \A m \in 1 .. n : m \in U(k) /\ m \notin T => f[m] <= 0
      BY <1>3, <2>4, <2>5
    <3>3. \A m \in 1 .. n : m \in T /\ m \notin U(k) => f[m] >= 0
      BY <2>3
    <3>4. Total(n, f, U(k)) <= Total(n, f, T)
      BY <1>1, <3>1, <3>2, <3>3, TotalGrows
    <3>5. QED
      BY <1>4, <2>1, <2>5, <3>4
  <2>6. CASE ~(v < 0)
    <3>1. \A m \in 1 .. n : m \in T \/ m \in U(k) => f[m] \in Int
      BY <1>3
    <3>2. \A m \in 1 .. n : m \in T /\ m \notin U(k) => f[m] <= 0
      BY <2>3
    <3>3. \A m \in 1 .. n : m \in U(k) /\ m \notin T => f[m] >= 0
      BY <1>3, <1>7, <2>4, <2>6
    <3>4. Total(n, f, T) <= Total(n, f, U(k))
      BY <1>1, <3>1, <3>2, <3>3, TotalGrows
    <3>5. Bottom(ch, k, j) \in Int /\ b + v \in Int
      BY <1>4, <1>7, <1>8, <1>9
    <3>6. QED
      BY <1>4, <2>1, <2>6, <3>4, <3>5
  <2>7. QED
    BY <2>5, <2>6
<1>14. QED
  <2>1. \A k \in C : f[k] = ch.data[k][j]
    BY <1>2, <1>3
  <2>2. \A k \in C : i < k /\ (ch.data[k][j] < 0 <=> v < 0) =>
          IF v < 0 THEN Bottom(ch, k, j) <= b + v ELSE Bottom(ch, k, j) >= b + v
    BY <1>13, <2>1
  <2>3. QED
    BY <1>7, <1>9, <1>11, <1>12, <2>2 DEF v, b, C

(* A stacked bar lies on the one before it, at the cost of a gap. *)
LEMMA StackIs ==
  ASSUME NEW ch, Prepared(ch), availableHeight(ch) >= 0, NEW sc, Rising(sc[1]),
         NEW j \in 1 .. ch.labels, NEW i \in Column(ch, j)
  PROVE  LET p == StackPos(ch, sc, i, j)
             v == ch.data[i][j]
             b == Bottom(ch, i, j)
         IN  /\ p.top = Height(ch, sc[1], b + v) /\ p.top \in Int /\ p.bottom \in Int
             /\ v < 0 => p.bottom <= Height(ch, sc[1], b) /\ p.top <= p.bottom
             /\ ~(v < 0) => p.bottom >= Height(ch, sc[1], b) /\ p.top >= p.bottom
<1> DEFINE p == StackPos(ch, sc, i, j)
           v == ch.data[i][j]
           b == Bottom(ch, i, j)
           bottom == Height(ch, sc[1], b)
           top == Height(ch, sc[1], b + v)
           space == ch.opts.spaceBetweenBar
           gap == IF b = 0 THEN 10 * space - 5 * space ELSE 10 * space
           spaced == CASE space > 0 /\ v < 0 -> Max({bottom - gap, top})
                       [] space > 0 /\ v > 0 -> Min({bottom + gap, top})
                       [] OTHER -> bottom
<1>1. i \in Rows(ch) /\ v # Missing
  BY DEF Column, Defined
<1>2. ColumnSum(ch, {k \in Column(ch, j) : k < i /\ (ch.data[k][j] < 0 <=> v < 0)}, j) = b
  BY DEF Under, Bottom
<1>3. p.bottom = spaced /\ p.top = top
  BY <1>1, <1>2 DEF StackPos
<1>4. v \in Int /\ b \in Int
  BY BottomGrows
<1>5. space \in Nat
  BY DEF Prepared, Framed
<1> HIDE DEF p, v, b, space
<1>6. gap \in Nat
  BY <1>5
<1>7. bottom \in Int /\ top \in Int /\ (v < 0 => top <= bottom) /\ (~(v < 0) => top >= bottom)
  <2>1. b + v \in Int /\ (v < 0 => b + v <= b) /\ (~(v < 0) => b <= b + v)
    BY <1>4
  <2>2. CASE v < 0
    <3>1. Height(ch, sc[1], b + v) \in Nat /\ Height(ch, sc[1], b) \in Nat /\ Height(ch, sc[1], b + v) <= Height(ch, sc[1], b)
      BY <1>4, <2>1, <2>2, HeightGrows
    <3>2. QED
      BY <2>2, <3>1
  <2>3. CASE ~(v < 0)
    <3>1. Height(ch, sc[1], b) \in Nat /\ Height(ch, sc[1], b + v) \in Nat /\ Height(ch, sc[1], b) <= Height(ch, sc[1], b + v)
      BY <1>4, <2>1, <2>3, HeightGrows
    <3>2. QED
      BY <2>3, <3>1
  <2>4. QED
    BY <2>2, <2>3
<1> HIDE DEF bottom, top, gap
<1>8. CASE space > 0 /\ v < 0
  <2>1. spaced = Max({bottom - gap, top})
    BY <1>4, <1>5, <1>8
  <2>2. bottom - gap \in Int
    BY <1>6, <1>7
  <2>3. spaced = IF bottom - gap >= top THEN bottom - gap ELSE top
    BY <1>7, <2>1, <2>2, MaxMinTwo
  <2> HIDE DEF spaced
  <2>4. spaced \in Int /\ spaced <= bottom /\ top <= spaced
    BY <1>6, <1>7, <1>8, <2>3
  <2>5. QED
    BY <1>3, <1>7, <1>8, <2>4 DEF p, v, b, bottom, top
<1>9. CASE space > 0 /\ v > 0
  <2>1. spaced = Min({bottom + gap, top})
    BY <1>4, <1>9
  <2>2. bottom + gap \in Int
    BY <1>6, <1>7
  <2>3. spaced = IF bottom + gap >= top THEN top ELSE bottom + gap
    BY <1>7, <2>1, <2>2, MaxMinTwo
  <2> HIDE DEF spaced
  <2>4. spaced \in Int /\ spaced >= bottom /\ top >= spaced /\ ~(v < 0)
    BY <1>4, <1>6, <1>7, <1>9, <2>3
  <2>5. QED
    BY <1>3, <1>7, <2>4 DEF p, v, b, bottom, top
<1>10. CASE ~(space > 0 /\ v < 0) /\ ~(space > 0 /\ v > 0)
  <2>1. spaced = bottom
    BY <1>10
  <2> HIDE DEF spaced
  <2>2. QED
    BY <1>3, <1>7, <2>1 DEF p, v, b, bottom, top
<1>11. QED
  BY <1>8, <1>9, <1>10

(* Of two bars of one sign the later one is further from zero. *)
LEMMA StacksApart ==
  ASSUME NEW ch, Prepared(ch), availableHeight(ch) >= 0, NEW sc, Rising(sc[1]),
         NEW j \in 1 .. ch.labels, NEW i \in Column(ch, j), NEW k \in Column(ch, j), i < k,
         ch.data[k][j] < 0 <=> ch.data[i][j] < 0
  PROVE  LET p == StackPos(ch, sc, i, j)
             q == StackPos(ch, sc, k, j)
         IN  IF ch.data[k][j] < 0 THEN q.bottom <= p.top /\ q.top <= q.bottom
             ELSE q.bottom >= p.top /\ q.top >= q.bottom
<1> DEFINE p == StackPos(ch, sc, i, j)
           q == StackPos(ch, sc, k, j)
           v == ch.data[i][j]
           w == ch.data[k][j]
           b == Bottom(ch, i, j)
           d == Bottom(ch, k, j)
<1>1. p.top = Height(ch, sc[1], b + v) /\ p.top \in Int
  BY StackIs
<1>2. /\ q.top \in Int /\ q.bottom \in Int
      /\ w < 0 => q.bottom <= Height(ch, sc[1], d) /\ q.top <= q.bottom
      /\ ~(w < 0) => q.bottom >= Height(ch, sc[1], d) /\ q.top >= q.bottom
  BY StackIs
<1>3. v \in Int /\ b \in Int /\ d \in Int /\ IF v < 0 THEN d <= b + v ELSE d >= b + v
  BY BottomGrows
<1>4. w < 0 <=> v < 0
  OBVIOUS
<1> HIDE DEF p, q, v, w, b, d
<1>5. CASE v < 0
  <2>1. b + v \in Int /\ d <= b + v
    BY <1>3, <1>5
  <2>2. Height(ch, sc[1], d) \in Nat /\ Height(ch, sc[1], d) <= Height(ch, sc[1], b + v)
    BY <1>3, <2>1, HeightGrows
  <2>3. w < 0
    BY <1>4, <1>5
  <2>4. q.bottom <= p.top /\ q.top <= q.bottom
    BY <1>1, <1>2, <2>2, <2>3
  <2>5. QED
    BY <2>3, <2>4 DEF p, q, w
<1>6. CASE ~(v < 0)
  <2>1. b + v \in Int /\ b + v <= d
    BY <1>3, <1>6
  <2>2. Height(ch, sc[1], d) \in Nat /\ Height(ch, sc[1], b + v) <= Height(ch, sc[1], d)
    BY <1>3, <2>1, HeightGrows
  <2>3. ~(w < 0)
    BY <1>4, <1>6
  <2>4. q.bottom >= p.top /\ q.top >= q.bottom
    BY <1>1, <1>2, <2>2, <2>3
  <2>5. QED
    BY <2>3, <2>4 DEF p, q, w
<1>7. QED
  BY <1>5, <1>6

-----------------------------------------------------------------------------
(* The bars of a chart that is placed. *)

Placing(p) == Prepared(chart) /\ ~Round(chart) /\ p = initPassVariableData_part2(chart, scales, bounds)

(* The position of a bar is the one of its type. *)
LEMMA PosIs ==
  ASSUME Placing(pos), NEW j \in 1 .. chart.labels, NEW i \in Bars(j)
  PROVE  /\ i \in Rows(chart) /\ i \in Column(chart, j) /\ tpdraw(chart, i) # "Line" /\ chart.type # "Line"
         /\ chart.type = "Bar" => pos[i][j] = BarPos(chart, scales, bounds, i, j)
         /\ chart.type = "StackedBar" => pos[i][j] = StackPos(chart, scales, i, j)
         /\ chart.type = "HorizontalBar" => pos[i][j] = HorizontalPos(chart, scales, bounds, i, j)
         /\ chart.type = "HorizontalStackedBar" => pos[i][j] = HorizontalStackPos(chart, scales, i, j)
         /\ chart.type \in {"Bar", "StackedBar", "HorizontalBar", "HorizontalStackedBar"}
<1>1. i \in Rows(chart) /\ i \in Column(chart, j) /\ tpdraw(chart, i) # "Line"
  BY DEF Bars, Column
<1>2. tpdraw(chart, i) = chart.type
  BY <1>1 DEF tpdraw
<1>3. chart.type \in {"Bar", "StackedBar", "HorizontalBar", "HorizontalStackedBar"}
  BY <1>1, <1>2 DEF Placing, Prepared, Framed, Types, Round
<1>4. pos = initPassVariableData_part2(chart, scales, bounds)
  BY DEF Placing
<1>5. pos[i][j] =
        CASE chart.type = "Line" -> LinePos(chart, scales, bounds, i, j)
          [] chart.type = "Bar" -> BarPos(chart, scales, bounds, i, j)
          [] chart.type = "StackedBar" -> StackPos(chart, scales, i, j)
          [] chart.type = "HorizontalBar" -> HorizontalPos(chart, scales, bounds, i, j)
          [] chart.type = "HorizontalStackedBar" -> HorizontalStackPos(chart, scales, i, j)
  BY <1>1, <1>2, <1>4 DEF initPassVariableData_part2
<1>6. QED
  BY <1>1, <1>2, <1>3, <1>5

(* Bars stay inside their column. *)
LEMMA BarsInside ==
  ASSUME Placing(pos), barWidth(chart) > 0, NEW j \in 1 .. chart.labels, NEW i \in Bars(j), Fitting(chart)
  PROVE  Inside(pos[i][j], j)
<1> DEFINE n == nrOfBars(chart)
           v == valueHop(chart)
           w == barWidth(chart)
           c == XUnit(chart) * valueHop(chart) * (j - 1)
           d == XUnit(chart) * valueHop(chart) * j
           r == realbars(chart, i)
           p == pos[i][j]
<1>1. i \in Rows(chart) /\ tpdraw(chart, i) # "Line" /\ chart.type # "Line" /\ Prepared(chart) /\ j \in Int
  BY PosIs DEF Placing
<1>2. n \in Nat \ {0} /\ r \in Nat /\ r + 1 <= n
  BY <1>1, RealBars
<1>3. /\ v \in Int /\ w \in Nat \ {0} /\ XUnit(chart) = 2 * n
      /\ ~Stacked(chart) => \/ w = 2 * v - 20 - 4 * n /\ w > 2 * n
                            \/ w = 2 * n /\ 2 * v >= 20 + 4 * n
      /\ Stacked(chart) => 10 * n + w <= 2 * n * v
  BY <1>1, <1>2, BarWidthIs
<1>4. ~Stacked(chart) => n <= IF w > 2 * n THEN 8 ELSE 4
  BY <1>3 DEF Fitting
<1>5. CASE chart.type = "Bar"
  <2>1. ~Stacked(chart) /\ p = BarPos(chart, scales, bounds, i, j)
    BY <1>5, PosIs DEF Stacked
  <2> DEFINE t == Taken(n, w, r)
  <2>2. p.left = c + t - w /\ p.right = c + t /\ c \in Int /\ d = c + 2 * n * v
    BY <1>1, <1>2, <1>3, <2>1, SidesOfBar
  <2> HIDE DEF n, v, w, c, d, r, p
  <2>3. t <= 2 * n * v
    BY <1>2, <1>3, <1>4, <2>1, RoomTaken
  <2>4. t \in Int /\ t - w >= 0
    <3>1. t = 2 * n * (5 + 3 * r) + w * r + w /\ n * r \in Nat /\ w * r \in Nat
      BY <1>2, <1>3 DEF Taken
    <3>2. 2 * n * (5 + 3 * r) = 10 * n + 6 * (n * r)
      BY <1>2
    <3> HIDE DEF t
    <3>3. QED
      BY <1>2, <1>3, <3>1, <3>2
  <2>5. 2 * n * v \in Int
    BY <1>2, <1>3
  <2> HIDE DEF t
  <2>6. c <= p.left /\ p.right <= d
    BY <1>3, <2>2, <2>3, <2>4, <2>5
  <2>7. QED
    BY <2>6 DEF Inside, p, c, d
<1>6. CASE chart.type = "HorizontalBar"
  <2>1. ~Stacked(chart) /\ Horizontal(chart) /\ p = HorizontalPos(chart, scales, bounds, i, j)
    BY <1>6, PosIs DEF Stacked, Horizontal
  <2> DEFINE t == Taken(n, w, i - 1)
  <2>2. i \in Nat \ {0} /\ i <= n
    BY <1>1, <2>1, AllBars
  <2>3. p.left = d - t /\ p.right = d - t + w /\ c \in Int /\ d = c + 2 * n * v
    BY <1>1, <1>2, <1>3, <2>1, <2>2, SidesOfHorizontal
  <2> HIDE DEF n, v, w, c, d, r, p
  <2> DEFINE k == i - 1
  <2>4. k \in Nat /\ k + 1 <= n /\ t = Taken(n, w, k)
    BY <1>2, <2>2
  <2> HIDE DEF k
  <2>5. Taken(n, w, k) <= 2 * n * v
    BY <1>2, <1>3, <1>4, <2>1, <2>4, RoomTaken
  <2>6. Taken(n, w, k) \in Int /\ Taken(n, w, k) - w >= 0
    <3> DEFINE u == Taken(n, w, k)
    <3>1. u = 2 * n * (5 + 3 * k) + w * k + w /\ n * k \in Nat /\ w * k \in Nat
      BY <1>2, <1>3, <2>4 DEF Taken
    <3>2. 2 * n * (5 + 3 * k) = 10 * n + 6 * (n * k)
      BY <1>2, <2>4
    <3> HIDE DEF u
    <3>3. u \in Int /\ u - w >= 0
      BY <1>2, <1>3, <3>1, <3>2
    <3>4. QED
      BY <3>3 DEF u
  <2>7. 2 * n * v \in Int
    BY <1>2, <1>3
  <2> HIDE DEF t
  <2>8. c <= p.left /\ p.right <= d
    BY <1>3, <2>3, <2>4, <2>5, <2>6, <2>7
  <2>9. QED
    BY <2>8 DEF Inside, p, c, d
<1>7. CASE chart.type \in {"StackedBar", "HorizontalStackedBar"}
  <2> DEFINE left == XUnit(chart) * (barValueSpacing + valueHop(chart) * (j - 1))
             upper == XUnit(chart) * (valueHop(chart) * j - barValueSpacing)
  <2>1. Stacked(chart)
    BY <1>7 DEF Stacked
  <2>2. c <= left /\ left + w <= d /\ c <= upper - w /\ upper <= d
    BY <1>1, <1>2, <1>3, <2>1, SidesOfStack
  <2>3. (p.left = left /\ p.right = left + w) \/ (p.left = upper - w /\ p.right = upper)
    <3>1. CASE chart.type = "StackedBar"
      <4>1. p = StackPos(chart, scales, i, j)
        BY <3>1, PosIs
      <4>2. StackPos(chart, scales, i, j).left = left /\ StackPos(chart, scales, i, j).right = left + w
        BY DEF StackPos
      <4> DEFINE q == StackPos(chart, scales, i, j)
      <4> HIDE DEF q, left, upper, p, w
      <4>3. q.left = left /\ q.right = left + w /\ p = q
        BY <4>1, <4>2 DEF q, left, p, w
      <4>4. QED
        BY <4>3
    <3>2. CASE chart.type = "HorizontalStackedBar"
      <4>1. p = HorizontalStackPos(chart, scales, i, j)
        BY <3>2, PosIs
      <4>2. /\ HorizontalStackPos(chart, scales, i, j).left = upper - w
            /\ HorizontalStackPos(chart, scales, i, j).right = upper
        <5> DEFINE u == StackPos(chart, scales, i, j)
        <5>1. DOMAIN u = {"left", "right", "bottom", "top"}
          BY DEF StackPos
        <5>2. HorizontalStackPos(chart, scales, i, j) = [u EXCEPT !.left = upper - w, !.right = upper]
          BY DEF HorizontalStackPos
        <5> HIDE DEF u, upper
        <5>3. QED
          BY <5>1, <5>2
      <4>3. QED
        BY <4>1, <4>2
    <3>3. QED
      BY <1>7, <3>1, <3>2
  <2> HIDE DEF left, upper, c, d, w, p
  <2>4. c <= p.left /\ p.right <= d
    BY <2>2, <2>3
  <2>5. QED
    BY <2>4 DEF Inside, p, c, d
<1>8. QED
  BY <1>5, <1>6, <1>7, PosIs

(* Bars that are not stacked stand side by side. *)
LEMMA BarsBeside ==
  ASSUME Placing(pos), barWidth(chart) > 0, ~Stacked(chart), NEW j \in 1 .. chart.labels,
         NEW i \in Bars(j), NEW k \in Bars(j), i < k
  PROVE  Beside(pos[i][j], pos[k][j])
<1> DEFINE n == nrOfBars(chart)
           v == valueHop(chart)
           w == barWidth(chart)
           c == XUnit(chart) * valueHop(chart) * (j - 1)
           d == XUnit(chart) * valueHop(chart) * j
           p == pos[i][j]
           q == pos[k][j]
<1>1. /\ i \in Rows(chart) /\ tpdraw(chart, i) # "Line" /\ chart.type # "Line" /\ Prepared(chart) /\ j \in Int
      /\ k \in Rows(chart)
  BY PosIs DEF Placing
<1>2. n \in Nat \ {0}
  BY <1>1, RealBars
<1>3. v \in Int /\ w \in Nat \ {0} /\ XUnit(chart) = 2 * n
  BY <1>1, <1>2, BarWidthIs
<1>4. CASE chart.type = "Bar"
  <2> DEFINE r == realbars(chart, i)
             s == realbars(chart, k)
  <2>1. p = BarPos(chart, scales, bounds, i, j) /\ q = BarPos(chart, scales, bounds, k, j)
    BY <1>4, PosIs
  <2>2. r \in Nat /\ s \in Nat /\ r + 1 <= s
    BY <1>1, RealBars
  <2>3. p.right = c + Taken(n, w, r) /\ c \in Int
    BY <1>1, <1>2, <1>3, <2>1, <2>2, SidesOfBar
  <2>4. q.left = c + Taken(n, w, s) - w
    BY <1>1, <1>2, <1>3, <2>1, <2>2, SidesOfBar
  <2> HIDE DEF n, v, w, c, d, p, q, r, s
  <2>5. Taken(n, w, r) < Taken(n, w, s) - w
    BY <1>2, <1>3, <2>2, GapLeft
  <2>6. Taken(n, w, r) \in Int /\ Taken(n, w, s) \in Int
    BY <1>2, <1>3, <2>2 DEF Taken
  <2>7. p.right < q.left
    BY <1>3, <2>3, <2>4, <2>5, <2>6
  <2>8. QED
    BY <2>7 DEF Beside, p, q
<1>5. CASE chart.type = "HorizontalBar"
  <2> DEFINE r == i - 1
             s == k - 1
  <2>1. /\ p = HorizontalPos(chart, scales, bounds, i, j) /\ q = HorizontalPos(chart, scales, bounds, k, j)
        /\ Horizontal(chart)
    BY <1>5, PosIs DEF Horizontal
  <2>2. i \in Nat \ {0} /\ k \in Nat \ {0}
    BY <1>1, <2>1, AllBars
  <2>3. p.left = d - Taken(n, w, r) /\ c \in Int /\ d = c + 2 * n * v
    BY <1>1, <1>2, <1>3, <2>1, <2>2, SidesOfHorizontal
  <2>4. q.right = d - Taken(n, w, s) + w
    BY <1>1, <1>2, <1>3, <2>1, <2>2, SidesOfHorizontal
  <2>5. r \in Nat /\ s \in Nat /\ r + 1 <= s
    BY <2>2
  <2> HIDE DEF n, v, w, c, d, p, q, r, s
  <2>6. Taken(n, w, r) < Taken(n, w, s) - w
    BY <1>2, <1>3, <2>5, GapLeft
  <2>7. Taken(n, w, r) \in Int /\ Taken(n, w, s) \in Int /\ d \in Int
    BY <1>2, <1>3, <2>3, <2>5 DEF Taken
  <2>8. q.right < p.left
    BY <1>3, <2>3, <2>4, <2>6, <2>7
  <2>9. QED
    BY <2>1, <2>8 DEF Beside, p, q
<1>6. QED
  BY <1>4, <1>5, PosIs DEF Stacked

(* Stacked bars lie beyond each other. *)
LEMMA BarsBeyond ==
  ASSUME Placing(pos), Stacked(chart), availableHeight(chart) >= 0, Rising(scales[1]), NEW j \in 1 .. chart.labels,
         NEW i \in Bars(j), NEW k \in Bars(j), i < k, Sign(i, j) = Sign(k, j)
  PROVE  Beyond(pos[i][j], pos[k][j], Sign(k, j))
<1> DEFINE p == StackPos(chart, scales, i, j)
           q == StackPos(chart, scales, k, j)
<1>1. i \in Column(chart, j) /\ k \in Column(chart, j) /\ Prepared(chart)
  BY PosIs DEF Placing
<1>2. chart.data[k][j] < 0 <=> chart.data[i][j] < 0
  BY DEF Sign
<1>3. IF chart.data[k][j] < 0 THEN q.bottom <= p.top /\ q.top <= q.bottom
      ELSE q.bottom >= p.top /\ q.top >= q.bottom
  BY <1>1, <1>2, StacksApart
<1>4. Sign(k, j) < 0 <=> chart.data[k][j] < 0
  BY DEF Sign
<1>5. pos[i][j].top = p.top /\ pos[k][j].top = q.top /\ pos[k][j].bottom = q.bottom
  <2>1. CASE chart.type = "StackedBar"
    BY <2>1, PosIs
  <2>2. CASE chart.type = "HorizontalStackedBar"
    <3>1. pos[i][j] = HorizontalStackPos(chart, scales, i, j) /\ pos[k][j] = HorizontalStackPos(chart, scales, k, j)
      BY <2>2, PosIs
    <3>2. \A m : HorizontalStackPos(chart, scales, m, j).top = StackPos(chart, scales, m, j).top
                 /\ HorizontalStackPos(chart, scales, m, j).bottom = StackPos(chart, scales, m, j).bottom
      BY DEF HorizontalStackPos, StackPos
    <3>3. QED
      BY <3>1, <3>2
  <2>3. QED
    BY <2>1, <2>2 DEF Stacked
<1> HIDE DEF p, q
<1>6. QED
  BY <1>3, <1>4, <1>5 DEF Beyond

-----------------------------------------------------------------------------
(* The invariant behind BarsApart. *)

(* It holds before the drawing begins. *)
LEMMA PlaceStart == Init => PlaceIInv
  BY DEF Init, PlaceIInv

(* What a step that leaves the chart, the bounds and the axis alone keeps. *)
LEMMA PlaceKept ==
  ASSUME UNCHANGED <<chart, bounds, axis>>
  PROVE  /\ Stacked(chart)' <=> Stacked(chart)
         /\ Round(chart)' <=> Round(chart)
         /\ Measured' <=> Measured
         /\ Graded' <=> Graded
         /\ maxSteps' = maxSteps
         /\ dbAxis' <=> dbAxis
<1>1. (Stacked(chart)' <=> Stacked(chart)) /\ (Round(chart)' <=> Round(chart)) /\ maxSteps' = maxSteps
  BY DEF Stacked, Round, maxSteps
<1>2. Sized(chart)' <=> Sized(chart)
  BY DEF Sized
<1>3. \A a \in 1 .. axis : InReach(bounds[a])' <=> InReach(bounds[a])
  BY DEF InReach
<1>4. Measured' <=> Measured
  BY <1>2, <1>3 DEF Measured
<1>5. interval' = interval
  BY DEF interval
<1>6. Graded' <=> Graded
  BY <1>4, <1>5 DEF Graded
<1>7. dbAxis' <=> dbAxis
  BY DEF dbAxis
<1>8. QED
  BY <1>1, <1>4, <1>6, <1>7

(* The axes and their scales. *)
LEMMA AxisIs ==
  ASSUME ScaleIInv
  PROVE  axis \in {1, 2} /\ DOMAIN scales = {1, 2} /\ axis \in DOMAIN scales
  BY DEF ScaleIInv

(* A stacked chart has one axis. *)
LEMMA StackedGraded ==
  ASSUME PlaceIInv, Stacked(chart), Measured
  PROVE  Graded
  BY DEF PlaceIInv, Graded

(* What the step to the second axis knows of the first. *)
LEMMA GradedBefore ==
  ASSUME ScaleIInv, UNCHANGED <<chart, bounds>>, axis' = axis \/ (axis = 1 /\ axis' = 2), Graded'
  PROVE  Graded
<1>1. CASE axis' = axis
  BY <1>1, PlaceKept
<1>2. CASE axis = 1 /\ axis' = 2
  <2>1. Measured'
    BY DEF Graded
  <2>2. Sized(chart)' /\ \A a \in 1 .. 2 : InReach(bounds[a])'
    BY <1>2, <2>1 DEF Measured
  <2>3. Sized(chart) /\ InReach(bounds[1])
    BY <2>2 DEF Sized, InReach
  <2>4. Measured
    BY <1>2, <2>3 DEF Measured
  <2>5. QED
    BY <1>2, <2>4 DEF Graded
<1>3. QED
  BY <1>1, <1>2

(* The scale of an axis is settled. *)
LEMMA PlaceSettled ==
  ASSUME ScaleIInv, PlaceIInv, pc \in {"scale", "adapt"}, NEW s, ScaleIs(s), Graded => Rising(s)
  PROVE  PlaceIInv'
<1>1. /\ UNCHANGED <<chart, bounds, pos>>
      /\ scales' = [scales EXCEPT ![axis] = s]
      /\ axis' = IF axis = 1 /\ dbAxis THEN 2 ELSE axis
      /\ pc' = IF axis = 1 /\ dbAxis THEN "scale" ELSE "place"
  BY DEF ScaleIs
<1>2. /\ pos' = <<>> /\ ~Round(chart) /\ maxSteps > 0 /\ (axis = 2 => ~Stacked(chart))
      /\ axis = 2 /\ Graded => Rising(scales[1])
  BY <1>1 DEF PlaceIInv
<1>3. ~Round(chart)' /\ maxSteps' = maxSteps /\ (Stacked(chart)' <=> Stacked(chart)) /\ (dbAxis' <=> dbAxis)
  BY <1>1, <1>2 DEF Round, maxSteps, Stacked, dbAxis
<1>4. axis' = 2 => ~Stacked(chart)
  BY <1>1, <1>2 DEF dbAxis, Stacked
<1>5. axis \in {1, 2} /\ DOMAIN scales = {1, 2}
  BY AxisIs
<1>6. scales'[axis] = s /\ (axis = 2 => scales'[1] = scales[1])
  BY <1>1, <1>5
<1>7. Graded' => Graded
  <2>1. axis' = axis \/ (axis = 1 /\ axis' = 2)
    BY <1>1
  <2>2. QED
    BY <1>1, <2>1, GradedBefore
<1>8. CASE axis = 1 /\ dbAxis
  <2>1. axis' = 2 /\ pc' = "scale"
    BY <1>1, <1>8
  <2>2. ASSUME Graded' PROVE Rising(scales[1])'
    <3>1. Rising(s) /\ scales'[1] = s
      BY <1>6, <1>7, <1>8, <2>2
    <3>2. QED
      BY <3>1
  <2>3. QED
    BY <1>2, <1>3, <1>4, <2>1, <2>2 DEF PlaceIInv
<1>9. CASE ~(axis = 1 /\ dbAxis)
  <2>1. axis' = axis /\ pc' = "place" /\ (dbAxis' => axis' = 2)
    BY <1>1, <1>3, <1>5, <1>9
  <2>2. ASSUME Graded', NEW a \in 1 .. axis' PROVE Rising(scales[a])'
    <3>1. Rising(s) /\ Graded
      BY <1>7, <2>2
    <3>2. CASE a = axis
      <4>1. Rising(scales'[a])
        BY <1>6, <3>1, <3>2
      <4>2. QED
        BY <4>1
    <3>3. CASE a # axis
      <4>1. a = 1 /\ axis = 2
        BY <1>5, <2>1, <3>3
      <4>2. Rising(scales'[1])
        BY <1>2, <1>6, <3>1, <4>1
      <4>3. QED
        BY <4>1, <4>2
    <3>4. QED
      BY <3>2, <3>3
  <2>3. QED
    BY <1>2, <1>3, <1>4, <2>1, <2>2 DEF PlaceIInv
<1>10. QED
  BY <1>8, <1>9

(* A scale in the loop. *)
LEMMA PlaceAdapting ==
  ASSUME ScaleIInv, PlaceIInv, pc \in {"scale", "adapt"}, pc' = "adapt",
         UNCHANGED <<chart, bounds, axis, pos>>, NEW s, scales' = [scales EXCEPT ![axis] = s],
         Graded => Stepping(s)
  PROVE  PlaceIInv'
<1>1. /\ pos' = <<>> /\ ~Round(chart) /\ maxSteps > 0 /\ (axis = 2 => ~Stacked(chart))
      /\ axis = 2 /\ Graded => Rising(scales[1])
  BY DEF PlaceIInv
<1>2. /\ ~Round(chart)' /\ maxSteps' = maxSteps /\ (Stacked(chart)' <=> Stacked(chart))
      /\ Graded' <=> Graded
  BY <1>1, PlaceKept
<1>3. scales'[axis] = s /\ (axis = 2 => scales'[1] = scales[1])
  BY AxisIs
<1>4. ASSUME Graded PROVE Stepping(scales[axis])'
  <2>1. Stepping(s)
    BY <1>4
  <2>2. QED
    BY <1>3, <2>1 DEF Stepping, Scale
<1>5. ASSUME Graded, axis = 2 PROVE Rising(scales[1])'
  BY <1>1, <1>3, <1>5 DEF Rising
<1>6. QED
  BY <1>1, <1>2, <1>4, <1>5 DEF PlaceIInv

(* The rest of a pass does not touch the scales, and places the bars once. *)
LEMMA PlaceDrawn ==
  ASSUME PlaceIInv, UNCHANGED <<chart, bounds, axis, scales>>,
         pc \in {"place", "frame", "done"}, pc' \in {"frame", "done"},
         pos' = pos \/ (pc = "place" /\ pos' = initPassVariableData_part2(chart, scales, bounds))
  PROVE  PlaceIInv'
<1>1. /\ (Stacked(chart)' <=> Stacked(chart)) /\ (Round(chart)' <=> Round(chart)) /\ (Graded' <=> Graded)
      /\ (dbAxis' <=> dbAxis)
  BY PlaceKept
<1>2. \A a \in 1 .. axis : Rising(scales[a])' <=> Rising(scales[a])
  BY DEF Rising
<1>3. pos' # <<>> => ~Round(chart) /\ pos' = initPassVariableData_part2(chart, scales, bounds)
  BY DEF PlaceIInv
<1>4. initPassVariableData_part2(chart, scales, bounds)' = initPassVariableData_part2(chart, scales, bounds)
  OBVIOUS
<1>5. ~Round(chart) => (dbAxis => axis = 2) /\ (Graded => \A a \in 1 .. axis : Rising(scales[a]))
  BY DEF PlaceIInv
<1>6. axis = 2 => ~Stacked(chart)
  BY DEF PlaceIInv
<1>7. ~Round(chart)' => (dbAxis' => axis' = 2) /\ (Graded' => \A a \in 1 .. axis' : Rising(scales[a])')
  BY <1>1, <1>2, <1>5
<1>8. QED
  BY <1>1, <1>3, <1>4, <1>6, <1>7 DEF PlaceIInv

(* What the page asks of an axis. *)
LEMMA AskedOf ==
  ASSUME ScaleIInv, LinkIInv, pc \in {"scale", "adapt"}
  PROVE  /\ chart.opts.scaleOverride[axis] = NoScale \/ Rising(chart.opts.scaleOverride[axis])
         /\ interval[axis] = NotSet \/ (interval[axis] \in Nat /\ interval[axis] >= 16)
         /\ Graded => interval[axis] = NotSet \/ roundScale(interval[1], interval[axis]) > 0
<1>1. Framed(chart)
  BY DEF LinkIInv, Prepared
<1>2. Unit \div 100 = 16
  BY DEF Unit
<1>3. axis \in 1 .. 2
  BY AxisIs
<1>4. /\ chart.opts.scaleOverride[axis] = NoScale \/ Rising(chart.opts.scaleOverride[axis])
      /\ interval[axis] = NotSet \/ (interval[axis] \in Nat /\ interval[axis] >= 16)
  BY <1>1, <1>2, <1>3 DEF Framed, interval
<1>5. CASE axis = 1
  <2> DEFINE i == interval[1]
  <2>1. i = NotSet \/ (i \in Nat /\ i >= 16)
    BY <1>4, <1>5
  <2> HIDE DEF i
  <2>2. i = NotSet \/ roundScale(i, i) \in Nat \ {0}
    BY <2>1, RoundScaleRises
  <2>3. i = NotSet \/ roundScale(i, i) > 0
    BY <2>2
  <2>4. QED
    BY <1>4, <1>5, <2>3 DEF i
<1>6. CASE axis = 2
  BY <1>4, <1>6 DEF Graded
<1>7. QED
  BY <1>3, <1>5, <1>6

(* Every step keeps the invariant. *)
LEMMA PlaceStep == ScaleIInv /\ LinkIInv /\ PlaceIInv /\ [Next]_vars => PlaceIInv'
<1> SUFFICES ASSUME ScaleIInv, LinkIInv, PlaceIInv, [Next]_vars PROVE PlaceIInv'
  OBVIOUS
<1>1. CASE Adapt \/ AdaptHorizontal
  <2>1. pc = "start" /\ pc' = "pass1" /\ UNCHANGED <<axis, pos>>
    BY <1>1 DEF Adapt, AdaptHorizontal
  <2>2. axis' = 1 /\ pos' = <<>>
    BY <2>1 DEF ScaleIInv, PlaceIInv
  <2>3. QED
    BY <2>1, <2>2 DEF PlaceIInv
<1>2. CASE Pass1
  <2>1. pc = "pass1" /\ pc' = "bounds" /\ UNCHANGED <<chart, axis, pos>> /\ ~Round(chart)
    BY <1>2 DEF Pass1
  <2>2. axis' = 1 /\ pos' = <<>> /\ ~Round(chart)'
    BY <2>1 DEF ScaleIInv, PlaceIInv, Round
  <2>3. QED
    BY <2>1, <2>2 DEF PlaceIInv
<1>3. CASE Pass1Round
  <2>1. pc = "pass1" /\ pc' \in {"frame", "waiting"} /\ UNCHANGED <<chart, axis, pos>> /\ Round(chart)
    BY <1>3 DEF Pass1Round
  <2>2. axis' = 1 /\ pos' = <<>> /\ Round(chart)'
    BY <2>1 DEF ScaleIInv, PlaceIInv, Round
  <2>3. QED
    BY <2>1, <2>2 DEF PlaceIInv
<1>4. CASE Bounds
  <2>1. /\ pc = "bounds" /\ UNCHANGED <<chart, axis, pos>>
        /\ pc' = IF minSteps > 0 /\ maxSteps > 0 THEN "scale" ELSE "waiting"
    BY <1>4 DEF Bounds
  <2>2. axis' = 1 /\ pos' = <<>> /\ ~Round(chart)' /\ maxSteps' = maxSteps
    BY <2>1 DEF ScaleIInv, PlaceIInv, Round, maxSteps
  <2>3. QED
    BY <2>1, <2>2 DEF PlaceIInv
<1>5. CASE GivenScale
  <2> DEFINE s == chart.opts.scaleOverride[axis]
  <2>1. pc = "scale" /\ s # NoScale /\ ScaleIs(s)
    BY <1>5 DEF GivenScale
  <2>2. Rising(s)
    BY <2>1, AskedOf
  <2>3. QED
    BY <2>1, <2>2, PlaceSettled
<1>6. CASE LogarithmicScale
  <2> DEFINE lo == bounds[axis].lo
             hi == bounds[axis].hi
             s == LogScale(lo, hi)
  <2>1. pc = "scale" /\ ScaleIs(s) /\ lo > 0
    BY <1>6 DEF LogarithmicScale, UsesLog
  <2>2. ASSUME Graded PROVE Rising(s)
    <3>1. InReach(bounds[axis])
      BY <2>2, AxisIs DEF Graded, Measured
    <3>2. lo \in Int /\ hi \in Int /\ 16 <= lo /\ lo < hi /\ hi < 16000000
      BY <2>1, <3>1, SMTT(30) DEF InReach
    <3> HIDE DEF lo, hi
    <3>3. QED
      BY <3>2, LogRises, SMTT(30)
  <2> HIDE DEF s
  <2>3. QED
    BY <2>1, <2>2, PlaceSettled
<1>7. CASE GuessScale
  <2> DEFINE lo == bounds[axis].lo
             hi == bounds[axis].hi
             i == interval[axis]
             j == interval[1]
             s == FirstScale(lo, hi, i, j)
  <2>1. /\ pc = "scale" /\ pc' = "adapt" /\ UNCHANGED <<chart, bounds, axis, pos>>
        /\ scales' = [scales EXCEPT ![axis] = s]
    BY <1>7 DEF GuessScale
  <2>2. ASSUME Graded PROVE Stepping(s)
    <3>1. InReach(bounds[axis])
      BY <2>2, AxisIs DEF Graded, Measured
    <3>2. lo \in Int /\ hi \in Int /\ 16 <= hi - lo /\ hi - lo < 16000000
      BY <3>1, SMTT(30) DEF InReach
    <3>3. i = NotSet \/ (i \in Nat /\ i >= 16)
      BY <2>1, AskedOf
    <3> HIDE DEF lo, hi, i, j
    <3>4. QED
      BY <3>2, <3>3, FirstSteps, SMTT(30)
  <2> HIDE DEF s
  <2>3. QED
    BY <2>1, <2>2, PlaceAdapting
<1>8. CASE HalveStep
  <2> DEFINE c == scales[axis]
             s == WithStep(c, c.stepValue \div 2)
  <2>1. axis \in DOMAIN scales
    BY AxisIs
  <2>2. /\ pc = "adapt" /\ pc' = "adapt" /\ UNCHANGED <<chart, bounds, axis, pos>>
        /\ TooFew(c, minSteps, interval[axis]) /\ scales' = [scales EXCEPT ![axis] = s]
    BY <1>8, <2>1 DEF HalveStep
  <2>3. ASSUME Graded PROVE Stepping(s)
    <3>1. Stepping(c)
      BY <2>2, <2>3 DEF PlaceIInv
    <3>2. minSteps \in Nat /\ minSteps <= 16
      BY <2>3, RoomForSteps DEF Graded, Measured
    <3>3. c.steps \in Nat
      BY <3>1, ScaleFields DEF Stepping
    <3>4. c.steps < 16
      BY <2>2, <3>2, <3>3 DEF TooFew
    <3> HIDE DEF c
    <3>5. QED
      BY <3>1, <3>4, HalveSteps
  <2> HIDE DEF s
  <2>4. QED
    BY <2>2, <2>3, PlaceAdapting
<1>9. CASE DoubleStep
  <2> DEFINE c == scales[axis]
             s == WithStep(c, c.stepValue * 2)
  <2>1. axis \in DOMAIN scales
    BY AxisIs
  <2>2. /\ pc = "adapt" /\ pc' = "adapt" /\ UNCHANGED <<chart, bounds, axis, pos>>
        /\ TooMany(c, minSteps, maxSteps) /\ scales' = [scales EXCEPT ![axis] = s]
    BY <1>9, <2>1 DEF DoubleStep
  <2>3. ASSUME Graded PROVE Stepping(s)
    <3>1. Stepping(c) /\ maxSteps > 0
      BY <2>2, <2>3 DEF PlaceIInv
    <3>2. maxSteps \in Nat
      BY <2>3, RoomForSteps DEF Graded, Measured
    <3>3. c.steps \in Nat
      BY <3>1, ScaleFields DEF Stepping
    <3>4. c.steps >= 2
      BY <2>2, <3>1, <3>2, <3>3 DEF TooMany
    <3> HIDE DEF c
    <3>5. QED
      BY <3>1, <3>4, DoubleSteps
  <2> HIDE DEF s
  <2>4. QED
    BY <2>2, <2>3, PlaceAdapting
<1>10. CASE FinishScale
  <2> DEFINE s == FinishedScale(chart, scales[axis], axis, bounds[axis])
  <2>1. pc = "adapt" /\ ScaleIs(s)
    BY <1>10 DEF FinishScale
  <2>2. ASSUME Graded PROVE Rising(s)
    <3>1. Stepping(scales[axis])
      BY <2>1, <2>2 DEF PlaceIInv
    <3>2. interval[axis] = NotSet \/
            (interval[axis] \in Nat /\ interval[axis] >= 16 /\ roundScale(interval[1], interval[axis]) > 0)
      BY <2>1, <2>2, AskedOf
    <3>3. QED
      BY <3>1, <3>2, FinishRises DEF interval
  <2> HIDE DEF s
  <2>3. QED
    BY <2>1, <2>2, PlaceSettled
<1>11. CASE Place \/ PlaceHorizontal
  BY <1>11, PlaceDrawn DEF Place, PlaceHorizontal, Placed
<1>12. CASE drawBars \/ drawPieSegments
  BY <1>12, PlaceDrawn DEF drawBars, drawPieSegments, FrameDrawn
<1>13. CASE MouseMove \/ MouseClick
  BY <1>13, PlaceDrawn DEF MouseMove, MouseClick
<1>14. CASE UNCHANGED vars
  <2>1. UNCHANGED <<chart, pc, bounds, axis, scales, pos>>
    BY <1>14 DEF vars
  <2>2. /\ (Stacked(chart)' <=> Stacked(chart)) /\ (Round(chart)' <=> Round(chart))
        /\ (Graded' <=> Graded) /\ maxSteps' = maxSteps /\ (dbAxis' <=> dbAxis)
    BY <2>1, PlaceKept
  <2>3. /\ \A a \in 1 .. axis : Rising(scales[a])' <=> Rising(scales[a])
        /\ Rising(scales[1])' <=> Rising(scales[1])
        /\ Stepping(scales[axis])' <=> Stepping(scales[axis])
    BY <2>1 DEF Rising, Stepping, Scale
  <2>4. QED
    BY <2>1, <2>2, <2>3 DEF PlaceIInv
<1>15. QED
  BY <1>1, <1>2, <1>3, <1>4, <1>5, <1>6, <1>7, <1>8, <1>9, <1>10, <1>11, <1>12, <1>13, <1>14
  DEF Next, Pass, AdaptScale

(* The scale of every axis keeps at least one step of a positive size       *)
(* through the halving, the doubling, the interval and the trimming, or has *)
(* one for each power of ten, and the data are placed on it once            *)
(* (calculateScale, initPassVariableData_part2).                            *)
THEOREM PlaceInvariant == Spec => []PlaceIInv
  BY PlaceStart, PlaceStep, ScaleInvariant, LinkInvariant, PTL DEF Spec

(* The bars of a column stand next to each other and, as many as fit, in    *)
(* the column; stacked bars lie beyond each other, away from zero: for      *)
(* every chart, any number of datasets and data, all options.  Stacked      *)
(* bars need bounds and a height the model can measure                      *)
(* (initPassVariableData_part2).                                            *)
THEOREM BarsAreApart == Spec => []((Stacked(chart) => Measured) => BarsApart)
<1>1. ScaleIInv /\ LinkIInv /\ PlaceIInv => ((Stacked(chart) => Measured) => BarsApart)
  <2> SUFFICES ASSUME ScaleIInv, LinkIInv, PlaceIInv, Stacked(chart) => Measured, pos # <<>>, barWidth(chart) > 0,
                      NEW j \in 1 .. chart.labels, NEW i \in Bars(j)
               PROVE  /\ Fitting(chart) => Inside(pos[i][j], j)
                      /\ \A k \in Bars(j) : i < k =>
                           IF ~Stacked(chart) THEN Beside(pos[i][j], pos[k][j])
                           ELSE availableHeight(chart) >= 0 /\ Sign(i, j) = Sign(k, j) =>
                                  Beyond(pos[i][j], pos[k][j], Sign(k, j))
    BY DEF BarsApart
  <2>1. /\ pc \in {"frame", "done"} /\ ~Round(chart)
        /\ pos = initPassVariableData_part2(chart, scales, bounds)
    BY DEF PlaceIInv
  <2>2. Placing(pos)
    BY <2>1 DEF LinkIInv, Placing
  <2>3. ASSUME Stacked(chart) PROVE Rising(scales[1])
    <3>1. Graded
      BY <2>3, StackedGraded
    <3>2. axis \in {1, 2}
      BY AxisIs
    <3>3. QED
      BY <2>1, <3>1, <3>2 DEF PlaceIInv
  <2>4. Fitting(chart) => Inside(pos[i][j], j)
    BY <2>2, BarsInside
  <2>5. ASSUME NEW k \in Bars(j), i < k, ~Stacked(chart) PROVE Beside(pos[i][j], pos[k][j])
    BY <2>2, <2>5, BarsBeside
  <2>6. ASSUME NEW k \in Bars(j), i < k, Stacked(chart), availableHeight(chart) >= 0, Sign(i, j) = Sign(k, j)
        PROVE  Beyond(pos[i][j], pos[k][j], Sign(k, j))
    BY <2>2, <2>3, <2>6, BarsBeyond
  <2>7. QED
    BY <2>4, <2>5, <2>6
<1>2. QED
  BY <1>1, ScaleInvariant, LinkInvariant, PlaceInvariant, PTL

-----------------------------------------------------------------------------
(* The annotations. *)

(* The n-th datum has place n. *)
LEMMA DatumIs ==
  ASSUME NEW ch, ch.labels \in Nat \ {0}, NEW n \in Nat \ {0}, NEW kind
  PROVE  LET e == <<kind, Datum(ch, n)[1], Datum(ch, n)[2]>>
         IN  /\ e \in {kind} \X Nat \X Nat /\ Rank(ch, e) = n
             /\ e[1] = kind /\ <<e[2], e[3]>> = Datum(ch, n)
<1> DEFINE d == ch.labels
           q == (n - 1) \div d
           r == (n - 1) % d
<1>1. n - 1 \in Nat /\ d \in Nat \ {0}
  OBVIOUS
<1>2. q \in Int /\ r \in 0 .. d - 1 /\ n - 1 = d * q + r
  <2> HIDE DEF d
  <2>1. QED
    BY <1>1, DivParts
<1>3. q >= 0
  <2> HIDE DEF d
  <2>1. d * 0 <= n - 1
    BY <1>1
  <2>2. QED
    BY <1>1, <2>1, DivAtLeast
<1>4. Datum(ch, n) = <<1 + q, 1 + r>>
  BY DEF Datum
<1> HIDE DEF d, q, r
<1>5. 1 + q \in Nat /\ 1 + r \in Nat /\ ((1 + q) - 1) * d + (1 + r) = n
  BY <1>1, <1>2, <1>3
<1>6. QED
  BY <1>4, <1>5 DEF Rank, d

(* The list of annotations. *)
LEMMA ListedIs ==
  ASSUME NEW ch, ch.labels \in Nat, Len(ch.data) \in Nat, NEW kind, NEW S
  PROVE  \E m \in Nat : Ordered(ch, kind, S, m, Listed(ch, kind, S))
<1> DEFINE n == Len(ch.data) * ch.labels
           Q == Seq({kind} \X Nat \X Nat)
           e(i) == <<kind, Datum(ch, i)[1], Datum(ch, i)[2]>>
           value(u, i) == IF i = 0 THEN <<>>
                          ELSE IF Datum(ch, i) \notin S THEN u[i - 1] ELSE Append(u[i - 1], e(i))
           step(x, i) == IF Datum(ch, i) \notin S THEN x ELSE Append(x, e(i))
           Is(u) == u = [i \in 0 .. n |-> value(u, i)]
           U == CHOOSE u : Is(u)
           G == [i \in 1 .. n |-> [x \in Q |-> step(x, i)]]
           R == [i \in 0 .. n |-> {s \in Q : Ordered(ch, kind, S, i, s)}]
<1>1. Listed(ch, kind, S) = U[n]
  BY DEF Listed
<1>2. n \in Nat
  OBVIOUS
<1>3. ASSUME NEW i \in 1 .. n
      PROVE  /\ e(i) \in {kind} \X Nat \X Nat /\ Rank(ch, e(i)) = i /\ <<e(i)[2], e(i)[3]>> = Datum(ch, i)
             /\ i \in Nat \ {0}
  <2>1. ch.labels # 0
    <3>1. Len(ch.data) * 0 = 0
      OBVIOUS
    <3>2. QED
      BY <3>1
  <2>2. i \in Nat \ {0}
    BY <1>2
  <2>3. QED
    BY <2>1, <2>2, DatumIs
<1> HIDE DEF e, n
<1>4. \A i \in 1 .. n : \A x \in Q : step(x, i) \in Q
  BY <1>3
<1> HIDE DEF step
<1>5. PICK u \in [0 .. n -> Q] : u[0] = <<>> /\ \A i \in 1 .. n : u[i] = G[i][u[i - 1]]
  <2>1. G \in Steps(n, Q)
    BY <1>4 DEF Steps
  <2>2. <<>> \in Q
    OBVIOUS
  <2> HIDE DEF G, Q
  <2>3. Runs(n, Q, <<>>, G) # {}
    BY <1>2, <2>1, <2>2, Recursion
  <2>4. QED
    BY <2>3 DEF Runs
<1>6. ASSUME NEW i \in 1 .. n PROVE u[i] = step(u[i - 1], i)
  <2>1. i - 1 \in 0 .. n
    BY <1>2
  <2> HIDE DEF Q
  <2>2. u[i - 1] \in Q
    BY <2>1
  <2>3. G[i][u[i - 1]] = step(u[i - 1], i)
    BY <2>2
  <2> HIDE DEF G
  <2>4. QED
    BY <1>5, <2>3
<1>7. ASSUME NEW i \in 0 .. n PROVE u[i] = value(u, i)
  <2>1. CASE i = 0
    BY <1>5, <2>1
  <2>2. CASE i # 0
    <3>1. i \in 1 .. n
      BY <1>2, <2>2
    <3>2. QED
      BY <1>6, <2>2, <3>1 DEF step
  <2>3. QED
    BY <2>1, <2>2
<1>8. Is(u)
  <2> HIDE DEF value
  <2>1. u = [i \in 0 .. n |-> u[i]]
    OBVIOUS
  <2>2. QED
    BY <1>7, <2>1
<1>9. Is(U)
  <2> HIDE DEF Is
  <2>1. QED
    BY <1>8
<1>10. ASSUME NEW i \in 0 .. n PROVE U[i] = value(U, i)
  <2> HIDE DEF U, value
  <2>1. QED
    BY <1>9
<1> HIDE DEF U
<1>11. \A i \in 0 .. n : U[i] = u[i]
  <2>1. U[0] = u[0]
    BY <1>2, <1>7, <1>10
  <2>2. ASSUME NEW i \in 1 .. n, U[i - 1] = u[i - 1] PROVE U[i] = u[i]
    <3>1. i \in 0 .. n /\ i # 0
      BY <1>2
    <3>2. value(U, i) = value(u, i)
      BY <2>2
    <3> HIDE DEF value
    <3>3. QED
      BY <1>7, <1>10, <3>1, <3>2
  <2>3. Alike(n, U, u)
    BY <2>1, <2>2 DEF Alike
  <2>4. QED
    BY <1>2, <2>3, SamePositions
<1>12. \A i \in 0 .. n : u[i] \in R[i]
  <2> HIDE DEF Q, G, value
  <2>1. u[0] \in R[0]
    <3>1. Ordered(ch, kind, S, 0, <<>>)
      <4>1. <<>> \in Seq({kind} \X Nat \X Nat) /\ Len(<<>>) = 0 /\ 1 .. 0 = {}
        OBVIOUS
      <4>2. QED
        BY <4>1 DEF Ordered
    <3>2. 0 \in 0 .. n /\ u[0] \in Q
      BY <1>2
    <3>3. QED
      BY <1>5, <3>1, <3>2
  <2>2. ASSUME NEW i \in 1 .. n, u[i - 1] \in R[i - 1] PROVE u[i] \in R[i]
    <3>1. i - 1 \in 0 .. n /\ i \in 0 .. n /\ u[i] \in Q
      BY <1>2
    <3>2. Ordered(ch, kind, S, i - 1, u[i - 1])
      BY <2>2, <3>1
    <3>3. CASE Datum(ch, i) \in S
      <4>1. Ordered(ch, kind, S, i, Append(u[i - 1], e(i)))
        BY <1>3, <3>2, <3>3, OrderedStep
      <4>2. u[i] = Append(u[i - 1], e(i))
        BY <1>6, <3>3 DEF step
      <4>3. QED
        BY <3>1, <4>1, <4>2
    <3>4. CASE Datum(ch, i) \notin S
      <4>1. u[i] = u[i - 1]
        BY <1>6, <3>4 DEF step
      <4>2. Ordered(ch, kind, S, i, u[i - 1])
        <5> DEFINE s == u[i - 1]
        <5> HIDE DEF s
        <5>1. Ordered(ch, kind, S, i - 1, s)
          BY <3>2 DEF s
        <5>2. ASSUME NEW k \in 1 .. Len(s) PROVE Rank(ch, s[k]) <= i
          <6>1. s \in Seq({kind} \X Nat \X Nat) /\ Rank(ch, s[k]) <= i - 1
            BY <5>1 DEF Ordered
          <6>2. s[k] \in {kind} \X Nat \X Nat
            BY <6>1
          <6>3. Rank(ch, s[k]) \in Int
            BY <6>2, RankInt
          <6>4. QED
            BY <1>3, <6>1, <6>3
        <5>3. Ordered(ch, kind, S, i, s)
          BY <5>1, <5>2 DEF Ordered
        <5>4. QED
          BY <5>3 DEF s
      <4>3. QED
        BY <3>1, <4>1, <4>2
    <3>5. QED
      BY <3>3, <3>4
  <2> HIDE DEF R
  <2>3. QED
    BY <1>2, <2>1, <2>2, EveryPosition
<1>13. Ordered(ch, kind, S, n, u[n])
  <2>1. n \in 0 .. n
    BY <1>2
  <2> HIDE DEF Q
  <2>2. QED
    BY <1>12, <2>1
<1>14. U[n] = u[n]
  BY <1>2, <1>11
<1>15. QED
  BY <1>1, <1>2, <1>13, <1>14

-----------------------------------------------------------------------------
(* The circle. *)

(* Sums of which every number is a part of another. *)
Parts(n, f, g, S, t, c) ==
  \A i \in 1 .. n : i \in S => f[i] \in Int /\ g[i] \in Int /\ f[i] * t <= c * g[i]

(* So are the sums. *)
LEMMA TotalParts ==
  ASSUME NEW n \in Nat, NEW f, NEW g, NEW S, NEW t \in Int, NEW c \in Int, Parts(n, f, g, S, t, c)
  PROVE  Total(n, f, S) * t <= c * Total(n, g, S)
<1>1. PICK u \in Sums(n, f, S) : Total(n, f, S) = u[n]
  BY TotalIs DEF Parts
<1>2. PICK w \in Sums(n, g, S) : Total(n, g, S) = w[n]
  BY TotalIs DEF Parts
<1> DEFINE p == [i \in 0 .. n |-> <<u[i], w[i]>>]
           R == [i \in 0 .. n |-> {x \in Int \X Int : x[1] * t <= c * x[2]}]
<1>3. \A i \in 0 .. n : u[i] \in Int /\ w[i] \in Int
  BY DEF Sums
<1>4. p[0] \in R[0]
  <2>1. u[0] = 0 /\ w[0] = 0
    BY DEF Sums
  <2>2. p[0] = <<0, 0>> /\ 0 * t <= c * 0
    BY <2>1
  <2>3. QED
    BY <2>2
<1>5. ASSUME NEW i \in 1 .. n, p[i - 1] \in R[i - 1] PROVE p[i] \in R[i]
  <2>1. i - 1 \in 0 .. n /\ i \in 0 .. n
    OBVIOUS
  <2> DEFINE a == u[i - 1]
             b == w[i - 1]
             x == IF i \in S THEN f[i] ELSE 0
             y == IF i \in S THEN g[i] ELSE 0
  <2>2. a \in Int /\ b \in Int /\ a * t <= c * b
    BY <1>3, <2>1, <1>5
  <2>3. u[i] = a + x /\ w[i] = b + y
    BY DEF Sums
  <2>4. x \in Int /\ y \in Int /\ x * t <= c * y
    BY DEF Parts
  <2> HIDE DEF a, b, x, y
  <2>5. (a + x) * t = a * t + x * t /\ c * (b + y) = c * b + c * y
    BY <2>2, <2>4
  <2>6. a * t \in Int /\ x * t \in Int /\ c * b \in Int /\ c * y \in Int
    BY <2>2, <2>4
  <2>7. (a + x) * t <= c * (b + y)
    BY <2>2, <2>4, <2>5, <2>6
  <2>8. u[i] * t <= c * w[i] /\ u[i] \in Int /\ w[i] \in Int
    BY <1>3, <2>1, <2>3, <2>7
  <2>9. QED
    BY <2>1, <2>8
<1> HIDE DEF p, R
<1>6. \A i \in 0 .. n : p[i] \in R[i]
  BY <1>4, <1>5, EveryPosition
<1>7. p[n] \in R[n] /\ n \in 0 .. n
  BY <1>6
<1>8. u[n] * t <= c * w[n]
  BY <1>7 DEF p, R
<1>9. QED
  BY <1>1, <1>2, <1>8

(* A segment has at most its share of the circle. *)
LEMMA SegmentShare ==
  ASSUME NEW ch, Prepared(ch), NEW k \in InPie(ch)
  PROVE  LET t == Total(ch.labels, ch.data[1], InPie(ch))
         IN  /\ t \in Int /\ Segment(ch, k) * t <= Circle * ch.data[1][k]
             /\ t = 0 => Segment(ch, k) * 1 <= 0 * ch.data[1][k]
<1> DEFINE t == Total(ch.labels, ch.data[1], InPie(ch))
           v == ch.data[1][k]
           x == v * Circle
           s == Segment(ch, k)
<1>1. /\ InPie(ch) \in SUBSET (1 .. ch.labels) /\ Len(ch.data[1]) = ch.labels /\ ch.labels \in Nat
      /\ \A m \in 1 .. ch.labels : ch.data[1][m] \in Int
      /\ \A m \in InPie(ch) : ch.data[1][m] >= 0
  BY InPieIs
<1>2. v \in Int /\ v >= 0 /\ x \in Int /\ x >= 0 /\ x = Circle * v
  BY <1>1 DEF Circle
<1>3. t \in Int /\ 0 <= t
  <2>1. \A m \in 1 .. ch.labels : m \in {} \/ m \in InPie(ch) => ch.data[1][m] \in Int
    BY <1>1
  <2>2. \A m \in 1 .. ch.labels : m \in {} /\ m \notin InPie(ch) => ch.data[1][m] <= 0
    OBVIOUS
  <2>3. \A m \in 1 .. ch.labels : m \in InPie(ch) /\ m \notin {} => ch.data[1][m] >= 0
    BY <1>1
  <2>4. Total(ch.labels, ch.data[1], {}) <= Total(ch.labels, ch.data[1], InPie(ch))
    BY <1>1, <2>1, <2>2, <2>3, TotalGrows
  <2>5. Total(ch.labels, ch.data[1], {}) = 0
    BY <1>1, TotalEmpty
  <2>6. Total(ch.labels, ch.data[1], InPie(ch)) \in Int
    BY <1>1, TotalInt
  <2>7. QED
    BY <2>4, <2>5, <2>6
<1>4. s = LET share == IF t = 0 THEN 0 ELSE x \div t
          IN  IF share >= Circle THEN Circle - 1 ELSE share
  BY <1>1 DEF Segment
<1> HIDE DEF t, x, s, v
<1>5. CASE t = 0
  <2>1. s = 0
    BY <1>4, <1>5 DEF Circle
  <2>2. QED
    BY <1>2, <1>5, <2>1 DEF t, s, v, Circle
<1>6. CASE t # 0
  <2> DEFINE q == x \div t
  <2>1. t \in Nat \ {0}
    BY <1>3, <1>6
  <2>2. q \in Int /\ t * q <= x
    BY <1>2, <2>1, DivParts
  <2>3. s = IF q >= Circle THEN Circle - 1 ELSE q
    BY <1>4, <1>6
  <2> HIDE DEF q
  <2>4. s \in Int /\ s <= q
    BY <2>2, <2>3 DEF Circle
  <2>5. s * t <= t * q
    BY <2>1, <2>2, <2>4
  <2>6. s * t <= Circle * v
    BY <1>2, <2>1, <2>2, <2>4, <2>5
  <2>7. QED
    BY <1>3, <1>6, <2>6 DEF t, s, v
<1>7. QED
  BY <1>5, <1>6

(* The segments of a pie take no more than one turn. *)
LEMMA OneTurn ==
  ASSUME NEW ch, Prepared(ch)
  PROVE  Total(ch.labels, Segments(ch), InPie(ch)) <= Circle
<1> DEFINE n == ch.labels
           S == InPie(ch)
           f == Segments(ch)
           g == ch.data[1]
           t == Total(n, g, S)
           z == Total(n, f, S)
<1>1. n \in Nat /\ S \in SUBSET (1 .. n) /\ (\A k \in 1 .. n : g[k] \in Int) /\ \A k \in S : g[k] >= 0
  BY InPieIs
<1>2. \A k \in S : f[k] = Segment(ch, k) /\ f[k] \in Int
  BY SegmentsInt
<1>3. z \in Int
  <2>1. \A k \in 1 .. n : k \in S => f[k] \in Int
    BY <1>2
  <2> HIDE DEF n, f, S
  <2>2. QED
    BY <1>1, <2>1, TotalInt
<1>4. t \in Int
  <2>1. \A k \in 1 .. n : k \in S => g[k] \in Int
    BY <1>1
  <2> HIDE DEF n, g, S
  <2>2. QED
    BY <1>1, <2>1, TotalInt
<1>5. t >= 0
  <2>1. \A m \in 1 .. n : m \in {} \/ m \in S => g[m] \in Int
    BY <1>1
  <2>2. \A m \in 1 .. n : m \in {} /\ m \notin S => g[m] <= 0
    OBVIOUS
  <2>3. \A m \in 1 .. n : m \in S /\ m \notin {} => g[m] >= 0
    BY <1>1
  <2> HIDE DEF n, g, S
  <2>4. Total(n, g, {}) <= Total(n, g, S)
    BY <1>1, <2>1, <2>2, <2>3, TotalGrows
  <2>5. Total(n, g, {}) = 0
    BY <1>1, TotalEmpty
  <2>6. QED
    BY <1>4, <2>4, <2>5
<1>6. Circle \in Int
  BY DEF Circle
<1>7. CASE t = 0
  <2>1. Parts(n, f, g, S, 1, 0)
    BY <1>1, <1>2, <1>7, SegmentShare DEF Parts
  <2> HIDE DEF n, f, g, S
  <2>2. Total(n, f, S) * 1 <= 0 * Total(n, g, S)
    BY <1>1, <2>1, TotalParts
  <2> HIDE DEF t, z
  <2>3. z * 1 <= 0 * t
    BY <2>2 DEF z, t
  <2>4. z <= 0
    BY <1>3, <1>4, <2>3
  <2>5. z <= Circle
    BY <1>3, <2>4 DEF Circle
  <2>6. QED
    BY <2>5 DEF z, n, f, S
<1>8. CASE t # 0
  <2>1. Parts(n, f, g, S, t, Circle)
    BY <1>1, <1>2, SegmentShare DEF Parts
  <2> HIDE DEF n, f, g, S
  <2>2. Total(n, f, S) * t <= Circle * Total(n, g, S)
    BY <1>1, <1>4, <1>6, <2>1, TotalParts
  <2> HIDE DEF t, z
  <2>3. z * t <= Circle * t
    BY <2>2 DEF z, t
  <2>4. z <= Circle
    <3> SUFFICES ASSUME z >= Circle + 1 PROVE FALSE
      BY <1>3, <1>6
    <3>1. z * t >= (Circle + 1) * t
      BY <1>3, <1>4, <1>5, <1>6
    <3>2. (Circle + 1) * t = Circle * t + t /\ Circle * t \in Int /\ z * t \in Int
      BY <1>3, <1>4, <1>6
    <3>3. QED
      BY <1>4, <1>5, <1>8, <2>3, <3>1, <3>2
  <2>5. QED
    BY <2>4 DEF z, n, f, S
<1>9. QED
  BY <1>7, <1>8

(* The angles of the segments, from the first to the last. *)
LEMMA PieGrows ==
  ASSUME NEW ch, Prepared(ch), NEW a \in Int, NEW b \in Int, a <= b
  PROVE  LET f == Segments(ch)
         IN  /\ PieTotal(ch, f, a) \in Int /\ PieTotal(ch, f, b) \in Int
             /\ 0 <= PieTotal(ch, f, a) /\ PieTotal(ch, f, a) <= PieTotal(ch, f, b)
             /\ PieTotal(ch, f, b) <= Circle
<1> DEFINE n == ch.labels
           S == InPie(ch)
           f == Segments(ch)
           A == {k \in S : k <= a}
           B == {k \in S : k <= b}
<1>1. n \in Nat /\ S \in SUBSET (1 .. n) /\ Len(ch.data[1]) = n
  BY InPieIs
<1>2. \A k \in S : f[k] = Segment(ch, k) /\ f[k] \in Int
  BY SegmentsInt
<1>3. \A k \in S : f[k] >= 0
  BY <1>2, SegmentIs
<1>4. A \subseteq B /\ B \subseteq S /\ {} \subseteq A
  BY <1>1
<1>5. PieTotal(ch, f, a) = Total(n, f, A) /\ PieTotal(ch, f, b) = Total(n, f, B)
  BY <1>1 DEF PieTotal
<1>6. Total(n, f, S) <= Circle
  BY OneTurn
<1> HIDE DEF n, S, f, A, B
<1>7. ASSUME NEW X, NEW Y, X \subseteq Y, Y \subseteq S
      PROVE  Total(n, f, X) <= Total(n, f, Y) /\ Total(n, f, X) \in Int /\ Total(n, f, Y) \in Int
  <2>1. \A k \in 1 .. n : k \in X \/ k \in Y => f[k] \in Int
    BY <1>2, <1>7
  <2>2. \A k \in 1 .. n : k \in X /\ k \notin Y => f[k] <= 0
    BY <1>7
  <2>3. \A k \in 1 .. n : k \in Y /\ k \notin X => f[k] >= 0
    BY <1>3, <1>7
  <2>4. \A k \in 1 .. n : k \in X => f[k] \in Int
    BY <2>1
  <2>5. \A k \in 1 .. n : k \in Y => f[k] \in Int
    BY <2>1
  <2>6. Total(n, f, X) <= Total(n, f, Y)
    BY <1>1, <2>1, <2>2, <2>3, TotalGrows
  <2>7. Total(n, f, X) \in Int
    BY <1>1, <2>4, TotalInt
  <2>8. Total(n, f, Y) \in Int
    BY <1>1, <2>5, TotalInt
  <2>9. QED
    BY <2>6, <2>7, <2>8
<1>8. Total(n, f, A) <= Total(n, f, B) /\ Total(n, f, A) \in Int /\ Total(n, f, B) \in Int
  BY <1>4, <1>7
<1>9. Total(n, f, {}) <= Total(n, f, A) /\ Total(n, f, {}) = 0
  <2>1. {} \subseteq A /\ A \subseteq S
    BY <1>4
  <2>2. QED
    BY <1>1, <1>7, <2>1, TotalEmpty
<1>10. Total(n, f, B) <= Total(n, f, S) /\ Total(n, f, S) \in Int
  <2>1. B \subseteq S /\ S \subseteq S
    BY <1>4
  <2>2. QED
    BY <1>7, <2>1
<1>11. Circle \in Int
  BY DEF Circle
<1>12. QED
  BY <1>5, <1>6, <1>8, <1>9, <1>10, <1>11 DEF f

(* A place on the circle. *)
Turn(g) == g \in Int /\ 0 <= g /\ g < Circle

(* An angle is its place on the circle and a number of turns. *)
LEMMA ModPlace ==
  ASSUME NEW a \in Int
  PROVE  Turn(Mod(a)) /\ \E q \in Int : a = Mod(a) + Circle * q
<1>1. Circle = 2520
  BY DEF Circle
<1>2. 0 <= a % 2520 /\ a % 2520 < 2520 /\ a = (a % 2520) + 2520 * (a \div 2520)
      /\ a \div 2520 \in Int /\ a % 2520 \in Int
  OBVIOUS
<1>3. QED
  BY <1>1, <1>2 DEF Mod, Turn

(* A step forward on the circle. *)
LEMMA ModSum ==
  ASSUME NEW a \in Int, NEW g, Turn(g)
  PROVE  Mod(a + g) = IF Mod(a) + g < Circle THEN Mod(a) + g ELSE Mod(a) + g - Circle
<1>1. Circle = 2520
  BY DEF Circle
<1>2. QED
  BY <1>1 DEF Mod, Turn

(* The middle of a segment that begins at a point of the circle. *)
LEMMA MiddleIs ==
  ASSUME NEW x \in Int, NEW a \in Int, Mod(x) = Mod(a), NEW g, Turn(g)
  PROVE  LET m == (2 * x + g) % (2 * Circle)
         IN  m = 2 * Mod(a) + g \/ m = 2 * Mod(a) + g - 2 * Circle
<1>1. Circle = 2520 /\ 2 * Circle = 5040
  BY DEF Circle
<1>2. PICK q \in Int : x = Mod(a) + 2520 * q
  BY <1>1, ModPlace
<1> DEFINE s == Mod(a)
<1> HIDE DEF s
<1>3. g \in Int /\ 0 <= g /\ g < 2520
  BY <1>1 DEF Turn
<1>4. s \in Int /\ 0 <= s /\ s < 2520 /\ x = s + 2520 * q
  BY <1>1, <1>2, ModPlace DEF s, Turn
<1>5. 2 * x + g = (2 * s + g) + 5040 * q
  BY <1>3, <1>4
<1>6. ((2 * s + g) + 5040 * q) % 5040 = (2 * s + g) % 5040
  BY <1>3, <1>4
<1>7. (2 * s + g) % 5040 = 2 * s + g \/ (2 * s + g) % 5040 = 2 * s + g - 5040
  BY <1>3, <1>4
<1>8. QED
  BY <1>1, <1>5, <1>6, <1>7 DEF s

(* The arc of a segment that begins at s and is g wide, in one turn. *)
Arc(s, g, t, m) == m > 2 * (s + t) /\ m < 2 * ((s + g) + t)

(* The middle of a segment is in the segment. *)
LEMMA OwnArc ==
  ASSUME NEW s \in Int, NEW g \in Int, 0 < g, NEW m, m = 2 * s + g \/ m = 2 * s + g - 2 * Circle
  PROVE  \E t \in {-Circle, 0, Circle} : Arc(s, g, t, m)
<1>1. Circle \in Int
  BY DEF Circle
<1>2. CASE m = 2 * s + g
  BY <1>1, <1>2 DEF Arc
<1>3. CASE m = 2 * s + g - 2 * Circle
  <2>1. Arc(s, g, -Circle, m)
    BY <1>1, <1>3 DEF Arc
  <2>2. QED
    BY <2>1
<1>4. QED
  BY <1>2, <1>3

(* The middle of a segment is in no segment before or after it. *)
LEMMA OtherArc ==
  ASSUME NEW a \in Int, NEW b \in Int, NEW g, Turn(g), NEW h, Turn(h),
         a + g <= b, b + h <= a + Circle, NEW t \in {-Circle, 0, Circle}
  PROVE  /\ \A m : m = 2 * Mod(a) + g \/ m = 2 * Mod(a) + g - 2 * Circle => ~Arc(Mod(b), h, t, m)
         /\ \A m : m = 2 * Mod(b) + h \/ m = 2 * Mod(b) + h - 2 * Circle => ~Arc(Mod(a), g, t, m)
<1>1. Circle = 2520
  BY DEF Circle
<1>2. PICK p \in Int : a = Mod(a) + Circle * p
  BY ModPlace
<1>3. PICK q \in Int : b = Mod(b) + Circle * q
  BY ModPlace
<1> DEFINE r == Mod(a)
           s == Mod(b)
<1>4. r \in Int /\ s \in Int
  BY ModPlace DEF Turn
<1> HIDE DEF r, s
<1>5. a = r + 2520 * p /\ b = s + 2520 * q
  BY <1>1, <1>2, <1>3 DEF r, s
<1>6. PICK w \in {-1, 0, 1} : t = 2520 * w
  BY <1>1
<1>7. g \in Int /\ g >= 0 /\ h \in Int /\ h >= 0
  BY <1>1 DEF Turn
<1>8. (r + 2520 * p) + g <= s + 2520 * q /\ (s + 2520 * q) + h <= (r + 2520 * p) + 2520
  BY <1>1, <1>5
<1>9. ASSUME NEW u \in {0, 1} PROVE ~Arc(s, h, 2520 * w, 2 * r + g - 5040 * u)
  BY <1>4, <1>7, <1>8 DEF Arc
<1>10. ASSUME NEW u \in {0, 1} PROVE ~Arc(r, g, 2520 * w, 2 * s + h - 5040 * u)
  BY <1>4, <1>7, <1>8 DEF Arc
<1>11. ASSUME NEW m, m = 2 * r + g \/ m = 2 * r + g - 5040 PROVE ~Arc(s, h, t, m)
  <2>1. m = 2 * r + g - 5040 * 0 \/ m = 2 * r + g - 5040 * 1
    BY <1>4, <1>7, <1>11
  <2>2. QED
    BY <1>6, <1>9, <2>1
<1>12. ASSUME NEW m, m = 2 * s + h \/ m = 2 * s + h - 5040 PROVE ~Arc(r, g, t, m)
  <2>1. m = 2 * s + h - 5040 * 0 \/ m = 2 * s + h - 5040 * 1
    BY <1>4, <1>7, <1>12
  <2>2. QED
    BY <1>6, <1>10, <2>1
<1>13. 2 * Circle = 5040
  BY <1>1
<1>14. QED
  BY <1>11, <1>12, <1>13 DEF r, s

(* Where a segment lies after the mouse handler has looked at it. *)
LEMMA NormalisedEnds ==
  ASSUME NEW item, Item(item), NEW a \in Int, NEW g, Turn(g),
         Mod(item.startAngle) = Mod(a), Mod(item.endAngle) = Mod(a + g)
  PROVE  Normalised(item).startAngle = Mod(a) /\ Normalised(item).endAngle = Mod(a) + g
<1> DEFINE s == Mod(item.startAngle)
           e == Mod(item.endAngle)
           t == IF e < s THEN e + Circle ELSE e
<1>1. Normalised(item) = [[item EXCEPT !.startAngle = s] EXCEPT !.endAngle = t]
  BY DEF Normalised
<1>2. s = Mod(a) /\ e = IF Mod(a) + g < Circle THEN Mod(a) + g ELSE Mod(a) + g - Circle
  BY ModSum
<1>3. Turn(Mod(a))
  BY ModPlace
<1> DEFINE r == Mod(a)
<1> HIDE DEF r
<1>4. t = r + g /\ s = r
  <2>1. s = r /\ (e = IF r + g < Circle THEN r + g ELSE r + g - Circle) /\ Turn(r)
    BY <1>2, <1>3 DEF r
  <2>2. Circle \in Int
    BY DEF Circle
  <2> HIDE DEF s, e
  <2>3. QED
    BY <2>1, <2>2 DEF Turn
<1> HIDE DEF s, e, t
<1>5. Normalised(item).startAngle = s /\ Normalised(item).endAngle = t
  BY <1>1 DEF Item
<1>6. QED
  BY <1>4, <1>5 DEF r

(* The arc of a segment, however often the mouse handler has looked at it. *)
LEMMA ArcIs ==
  ASSUME NEW ch, Prepared(ch), NEW S, NEW k \in InPie(ch)
  PROVE  LET t == Touched(ch, S)[k]
             a == Angle(ch, k - 1)
             g == Segment(ch, k)
         IN  /\ a \in Int /\ Turn(g) /\ a + g = Angle(ch, k)
             /\ t.startAngle \in Int /\ t.segmentAngle = g /\ Mod(t.startAngle) = Mod(a)
             /\ Normalised(t).startAngle = Mod(a) /\ Normalised(t).endAngle = Mod(a) + g
<1> DEFINE t == Touched(ch, S)[k]
           a == Angle(ch, k - 1)
           g == Segment(ch, k)
           c == PassPie(ch)[k]
<1>1. k \in 1 .. ch.labels
  BY InPieIs
<1>2. a \in Int /\ Turn(g)
  <2>1. g \in 0 .. Circle - 1 /\ Circle \in Int
    BY SegmentIs DEF Circle
  <2> HIDE DEF g
  <2>2. Turn(g)
    BY <2>1 DEF Turn
  <2>3. QED
    BY <1>1, <2>2, AngleInt
<1>3. Item(c)
  BY <1>1, PieItems
<1>4. t = IF k \in S THEN Normalised(c) ELSE c
  BY <1>1 DEF Touched
<1>5. t.segmentAngle = g /\ Mod(t.startAngle) = Mod(a) /\ Mod(t.endAngle) = Mod(a + g)
  BY TouchedIs
<1>6. a + g = Angle(ch, k)
  <2> DEFINE f == Segments(ch)
             o == (-ch.opts.startAngle) % Circle
  <2>1. \A m \in InPie(ch) : f[m] = Segment(ch, m) /\ f[m] \in Int
    BY SegmentsInt
  <2>2. Angle(ch, k) = o + PieTotal(ch, f, k) /\ a = o + PieTotal(ch, f, k - 1)
    BY DEF Angle
  <2>3. o \in Int
    BY DEF Prepared, Framed, Circle
  <2> HIDE DEF f, o
  <2>4. PieTotal(ch, f, k) = PieTotal(ch, f, k - 1) + f[k] /\ PieTotal(ch, f, k - 1) \in Int
    BY <1>1, <2>1, PieTotalStep
  <2>5. f[k] = g /\ f[k] \in Int
    BY <2>1
  <2> HIDE DEF a, g
  <2>6. QED
    BY <2>2, <2>3, <2>4, <2>5
<1> HIDE DEF t, a, g, c
<1>7. Item(t)
  BY <1>3, <1>4, NormalisedIs
<1>8. Normalised(t).startAngle = Mod(a) /\ Normalised(t).endAngle = Mod(a) + g
  BY <1>2, <1>5, <1>7, NormalisedEnds
<1>9. t.startAngle \in Int
  BY <1>7 DEF Item
<1>10. QED
  BY <1>2, <1>5, <1>6, <1>8, <1>9 DEF t, a, g

(* A later segment begins where an earlier one has ended, and ends before   *)
(* the circle comes round to it again.                                      *)
LEMMA SegmentsApart ==
  ASSUME NEW ch, Prepared(ch), NEW i \in InPie(ch), NEW k \in InPie(ch), i < k
  PROVE  Angle(ch, i) <= Angle(ch, k - 1) /\ Angle(ch, k) <= Angle(ch, i - 1) + Circle
<1> DEFINE f == Segments(ch)
           o == (-ch.opts.startAngle) % Circle
<1>1. i \in Int /\ k \in Int /\ i - 1 \in Int /\ k - 1 \in Int /\ i <= k - 1 /\ i - 1 <= k
  BY InPieIs
<1>2. /\ Angle(ch, i) = o + PieTotal(ch, f, i) /\ Angle(ch, k - 1) = o + PieTotal(ch, f, k - 1)
      /\ Angle(ch, k) = o + PieTotal(ch, f, k) /\ Angle(ch, i - 1) = o + PieTotal(ch, f, i - 1)
  BY DEF Angle
<1>3. o \in Int /\ Circle \in Int
  BY DEF Prepared, Framed, Circle
<1> HIDE DEF o
<1>4. /\ PieTotal(ch, f, i) \in Int /\ PieTotal(ch, f, k - 1) \in Int
      /\ PieTotal(ch, f, i) <= PieTotal(ch, f, k - 1)
  BY <1>1, PieGrows
<1>5. /\ PieTotal(ch, f, i - 1) \in Int /\ PieTotal(ch, f, k) \in Int
      /\ 0 <= PieTotal(ch, f, i - 1) /\ PieTotal(ch, f, k) <= Circle
  BY <1>1, PieGrows
<1> HIDE DEF f
<1>6. QED
  BY <1>2, <1>3, <1>4, <1>5

(* The pointer in the middle of segment i, in segment k. *)
Hit(st, i, k) ==
  InArc(st[k], [angle |-> (2 * st[i].startAngle + st[i].segmentAngle) % (2 * Circle)])

(* The middle of a segment belongs to that segment alone. *)
LEMMA InArcIs ==
  ASSUME NEW ch, Prepared(ch), NEW S, NEW i \in InPie(ch), NEW k \in InPie(ch), Segment(ch, i) > 0
  PROVE  Hit(Touched(ch, S), i, k) <=> i = k
<1> DEFINE st == Touched(ch, S)
           x == st[i].startAngle
           a == Angle(ch, i - 1)
           g == Segment(ch, i)
           b == Angle(ch, k - 1)
           h == Segment(ch, k)
           z == (2 * x + g) % (2 * Circle)
           m == [angle |-> z]
<1>1. /\ a \in Int /\ Turn(g) /\ a + g = Angle(ch, i) /\ x \in Int
      /\ st[i].segmentAngle = g /\ Mod(x) = Mod(a)
  BY ArcIs
<1>2. /\ b \in Int /\ Turn(h) /\ b + h = Angle(ch, k)
      /\ Normalised(st[k]).startAngle = Mod(b) /\ Normalised(st[k]).endAngle = Mod(b) + h
  BY ArcIs
<1>3. Hit(st, i, k) <=> \E t \in {-Circle, 0, Circle} : Arc(Mod(b), h, t, z)
  <2>1. InArc(st[k], m) <=> \E t \in {-Circle, 0, Circle} : Arc(Mod(b), h, t, z)
    BY <1>2 DEF InArc, Arc
  <2>2. Hit(st, i, k) <=> InArc(st[k], m)
    BY <1>1 DEF Hit
  <2>3. QED
    BY <2>1, <2>2
<1>4. z = 2 * Mod(a) + g \/ z = 2 * Mod(a) + g - 2 * Circle
  <2> HIDE DEF x, a, g
  <2>1. QED
    BY <1>1, MiddleIs
<1>5. CASE i = k
  <2>1. Mod(a) \in Int /\ g \in Int /\ 0 < g
    BY <1>1, ModPlace DEF Turn
  <2>2. \E t \in {-Circle, 0, Circle} : Arc(Mod(a), g, t, z)
    <3> HIDE DEF z, a, g
    <3>1. QED
      BY <1>4, <2>1, OwnArc
  <2>3. QED
    BY <1>1, <1>3, <1>5, <2>2
<1>6. CASE i < k
  <2>1. a + g <= b /\ b + h <= a + Circle
    BY <1>1, <1>2, <1>6, SegmentsApart
  <2>2. ASSUME NEW t \in {-Circle, 0, Circle} PROVE ~Arc(Mod(b), h, t, z)
    <3> HIDE DEF z, a, g, b, h
    <3>1. QED
      BY <1>1, <1>2, <1>4, <2>1, OtherArc
  <2>3. i # k
    BY <1>6, InPieIs
  <2>4. QED
    BY <1>1, <1>3, <2>2, <2>3
<1>7. CASE k < i
  <2>1. b + h <= a /\ a + g <= b + Circle
    BY <1>1, <1>2, <1>7, SegmentsApart
  <2>2. ASSUME NEW t \in {-Circle, 0, Circle} PROVE ~Arc(Mod(b), h, t, z)
    <3> HIDE DEF z, a, g, b, h
    <3>1. QED
      BY <1>1, <1>2, <1>4, <2>1, OtherArc
  <2>3. i # k
    BY <1>7, InPieIs
  <2>4. QED
    BY <1>1, <1>3, <2>2, <2>3
<1>8. i \in Int /\ k \in Int
  BY InPieIs
<1>9. i = k \/ i < k \/ k < i
  BY <1>8
<1>10. QED
  BY <1>5, <1>6, <1>7, <1>9

(* A list of annotations. *)
Notes == {"ARC", "RECT", "POINT"} \X Nat \X Nat

(* The annotations of a pie are its segments, each one once. *)
LEMMA PieAnnotations ==
  ASSUME NEW ch, Prepared(ch), Round(ch)
  PROVE  LET an == Annotations(ch)
         IN  /\ an \in Seq(Notes)
             /\ \A n \in 1 .. Len(an) : an[n][1] = "ARC" /\ an[n][3] \in InPie(ch)
             /\ \A n \in 1 .. Len(an) : \A k \in 1 .. Len(an) : an[n][3] = an[k][3] => n = k
<1> DEFINE an == Annotations(ch)
           S == {1} \X InPie(ch)
           T == {"ARC"} \X Nat \X Nat
           d == ch.labels
<1>1. an = Listed(ch, "ARC", S)
  BY DEF Annotations
<1>2. d \in Nat /\ Len(ch.data) \in Nat
  BY DEF Prepared
<1> HIDE DEF an
<1>3. PICK m \in Nat : Ordered(ch, "ARC", S, m, an)
  BY <1>1, <1>2, ListedIs
<1>4. /\ an \in Seq(T) /\ Len(an) \in Nat
      /\ \A n \in 1 .. Len(an) : <<an[n][2], an[n][3]>> \in S
      /\ \A k \in 1 .. Len(an) : \A l \in 1 .. Len(an) : k < l => Rank(ch, an[k]) < Rank(ch, an[l])
  BY <1>3 DEF Ordered
<1>5. ASSUME NEW n \in 1 .. Len(an)
      PROVE  an[n][1] = "ARC" /\ an[n][3] \in InPie(ch) /\ Rank(ch, an[n]) = an[n][3] /\ an[n][3] \in Int
  <2>1. an[n] \in T /\ <<an[n][2], an[n][3]>> \in S
    BY <1>4
  <2>2. an[n][1] = "ARC" /\ an[n][2] = 1 /\ an[n][3] \in InPie(ch) /\ an[n][3] \in Nat
    BY <2>1
  <2>3. Rank(ch, an[n]) = (1 - 1) * d + an[n][3]
    BY <2>2 DEF Rank
  <2> HIDE DEF d
  <2>4. QED
    BY <1>2, <2>2, <2>3
<1>6. ASSUME NEW n \in 1 .. Len(an), NEW k \in 1 .. Len(an), an[n][3] = an[k][3] PROVE n = k
  <2>1. Rank(ch, an[n]) = Rank(ch, an[k]) /\ Rank(ch, an[n]) \in Int
    BY <1>5, <1>6
  <2>2. n < k \/ k < n \/ n = k
    BY <1>4
  <2>3. ~(n < k) /\ ~(k < n)
    BY <1>4, <2>1
  <2>4. QED
    BY <2>2, <2>3
<1>7. an \in Seq(Notes)
  <2>1. T \in SUBSET Notes
    BY DEF Notes
  <2> HIDE DEF T
  <2>2. QED
    BY <1>4, <2>1
<1>8. QED
  BY <1>5, <1>6, <1>7 DEF an

(* The pointer on annotation n finds it, alone but for the points; and a    *)
(* point has only points before it.                                         *)
Hits(n) == Found(chart, stat, pos, annotate, Middle(stat, pos, annotate[n]))
Points == {n \in DOMAIN annotate : annotate[n][1] = "POINT"}
Alone(n) ==
  /\ n \in Hits(n)
  /\ annotate[n][1] # "POINT" => Hits(n) \ Points = {n}
  /\ annotate[n][1] = "POINT" => \A k \in 1 .. n : k \in Points

(* The middle of a segment belongs to that segment alone. *)
LEMMA SegmentAlone ==
  ASSUME Prepared(chart), Round(chart), NEW S, stat = Touched(chart, S), annotate = Annotations(chart),
         NEW n \in 1 .. Len(annotate), Solid(annotate[n])
  PROVE  Alone(n)
<1> DEFINE an == annotate
           i == an[n][3]
           m == [angle |-> (2 * stat[i].startAngle + stat[i].segmentAngle) % (2 * Circle)]
<1>1. /\ an \in Seq(Notes)
      /\ \A k \in 1 .. Len(an) : an[k][1] = "ARC" /\ an[k][3] \in InPie(chart)
      /\ \A k \in 1 .. Len(an) : an[n][3] = an[k][3] => n = k
  BY PieAnnotations
<1>2. DOMAIN an = 1 .. Len(an)
  BY <1>1
<1>3. an[n][1] = "ARC" /\ i \in InPie(chart)
  BY <1>1
<1>4. Middle(stat, pos, an[n]) = m
  BY <1>3 DEF Middle
<1>5. Segment(chart, i) > 0
  <2>1. stat[i].segmentAngle > 0
    BY <1>3 DEF Solid
  <2>2. QED
    BY <1>3, <2>1, TouchedIs
<1>6. ASSUME NEW k \in 1 .. Len(an) PROVE InArc(stat[an[k][3]], m) <=> k = n
  <2>1. an[k][3] \in InPie(chart)
    BY <1>1
  <2>2. InArc(stat[an[k][3]], m) <=> i = an[k][3]
    <3> DEFINE j == an[k][3]
               st == Touched(chart, S)
    <3>1. i \in InPie(chart) /\ j \in InPie(chart) /\ Segment(chart, i) > 0
      BY <1>3, <1>5, <2>1
    <3> HIDE DEF i, j
    <3>2. Hit(st, i, j) <=> i = j
      BY <3>1, InArcIs
    <3>3. InArc(stat[j], m) <=> i = j
      BY <3>2 DEF Hit
    <3>4. QED
      BY <3>3 DEF j
  <2>3. i = an[k][3] <=> k = n
    BY <1>1
  <2> HIDE DEF m, i
  <2>4. QED
    BY <2>2, <2>3
<1> HIDE DEF m
<1>7. \A k : k \in Hits(n) <=> k \in 1 .. Len(an) /\ InArc(stat[an[k][3]], m)
  BY <1>1, <1>2, <1>4 DEF Hits, Found
<1>8. Hits(n) = {n}
  BY <1>6, <1>7
<1>9. Points = {}
  BY <1>1, <1>2 DEF Points
<1>10. QED
  BY <1>3, <1>8, <1>9 DEF Alone

(* A mouse event at an annotation that stands alone finds it. *)
LEMMA MouseAlone ==
  ASSUME annotate' = annotate, annotate \in Seq(Notes), NEW n \in 1 .. Len(annotate), Alone(n),
         NEW click \in BOOLEAN, doMouseAction(n, click)
  PROVE  MouseFinds'
<1> DEFINE hits == Hits(n)
           e == annotate[n]
           shown == FirstOf(hits)
<1>1. Len(annotate) \in Nat /\ DOMAIN annotate = 1 .. Len(annotate) /\ n # 0
  OBVIOUS
<1>2. hits \in SUBSET (1 .. Len(annotate))
  BY <1>1 DEF Hits, Found
<1>3. mouse' = [at |-> n, click |-> click, count |-> mouse.count + 1,
                shown |-> IF click THEN mouse.shown ELSE shown, called |-> IF click THEN hits ELSE {}]
  BY <1>1 DEF doMouseAction, Hits
<1>4. n \in hits /\ (e[1] # "POINT" => hits \ Points = {n}) /\ (e[1] = "POINT" => \A k \in 1 .. n : k \in Points)
  BY DEF Alone
<1> HIDE DEF hits
<1>5. shown \in hits /\ shown <= n /\ shown \in 1 .. Len(annotate)
  BY <1>1, <1>2, <1>4, FirstOfIs
<1> HIDE DEF shown
<1>6. /\ mouse'.at = n /\ mouse'.click = click
      /\ click => mouse'.called = hits
      /\ ~click => mouse'.shown = shown
  BY <1>3
<1>7. Points' = Points
  BY DEF Points
<1>8. shown = n \/ shown \in Points
  <2>1. CASE e[1] # "POINT"
    BY <1>4, <1>5, <2>1
  <2>2. CASE e[1] = "POINT"
    <3>1. shown \in 1 .. n
      BY <1>5
    <3>2. QED
      BY <1>4, <2>2, <3>1
  <2>3. QED
    BY <2>1, <2>2
<1>9. shown # 0
  BY <1>5
<1>10. CASE click
  <2>1. mouse'.click /\ n \in mouse'.called /\ (e[1] # "POINT" => mouse'.called \ Points = {n})
    BY <1>4, <1>6, <1>10
  <2>2. QED
    BY <1>6, <2>1 DEF MouseFinds, Points
<1>11. CASE ~click
  <2>1. ~mouse'.click /\ mouse'.shown # 0 /\ (mouse'.shown = n \/ mouse'.shown \in Points)
    BY <1>6, <1>8, <1>9, <1>11
  <2>2. QED
    BY <1>6, <2>1 DEF MouseFinds, Points
<1>12. QED
  BY <1>10, <1>11

-----------------------------------------------------------------------------
(* The mouse over bars. *)

(* A rectangle, and the pointer in the middle of it. *)
Rectangle(p) == p.left \in Int /\ p.right \in Int /\ p.bottom \in Int /\ p.top \in Int /\ p.left < p.right
Centre(p) == [x |-> p.left + p.right, y |-> p.bottom + p.top]

(* Inside a rectangle, without a choice of its greater and lesser sides. *)
LEMMA InRectIs ==
  ASSUME NEW q, Rectangle(q), NEW m
  PROVE  InRect(q, m) <=> /\ m.x > 2 * q.left /\ m.x < 2 * q.right
                          /\ m.y > 2 * (IF q.bottom >= q.top THEN q.top ELSE q.bottom)
                          /\ m.y < 2 * (IF q.bottom >= q.top THEN q.bottom ELSE q.top)
<1> DEFINE l == q.left
           r == q.right
           b == q.bottom
           t == q.top
<1>1. l \in Int /\ r \in Int /\ b \in Int /\ t \in Int /\ l < r
  BY DEF Rectangle
<1>2. InRect(q, m) <=> /\ m.x > 2 * Min({l, r}) /\ m.x < 2 * Max({l, r})
                       /\ m.y > 2 * Min({b, t}) /\ m.y < 2 * Max({b, t})
  BY DEF InRect
<1> HIDE DEF l, r, b, t
<1>3. Max({l, r}) = r /\ Min({l, r}) = l
  BY <1>1, MaxMinTwo
<1>4. Max({b, t}) = (IF b >= t THEN b ELSE t) /\ Min({b, t}) = (IF b >= t THEN t ELSE b)
  BY <1>1, MaxMinTwo
<1>5. QED
  BY <1>2, <1>3, <1>4 DEF l, r, b, t

(* The middle of a bar with an extent is inside. *)
LEMMA CentreInside ==
  ASSUME NEW p, Rectangle(p), p.bottom # p.top
  PROVE  InRect(p, Centre(p))
<1> DEFINE m == Centre(p)
<1>1. m.x = p.left + p.right /\ m.y = p.bottom + p.top
  BY DEF Centre
<1> HIDE DEF m
<1>2. InRect(p, m)
  BY <1>1, InRectIs DEF Rectangle
<1>3. QED
  BY <1>2 DEF m

(* It is not inside a bar to the side. *)
LEMMA CentreBeside ==
  ASSUME NEW p, Rectangle(p), NEW q, Rectangle(q), p.right <= q.left \/ q.right <= p.left
  PROVE  ~InRect(q, Centre(p))
<1> DEFINE m == Centre(p)
<1>1. m.x = p.left + p.right
  BY DEF Centre
<1> HIDE DEF m
<1>2. ~(m.x > 2 * q.left /\ m.x < 2 * q.right)
  BY <1>1 DEF Rectangle
<1>3. ~InRect(q, m)
  BY <1>2, InRectIs
<1>4. QED
  BY <1>3 DEF m

(* Nor is it inside a bar above or below. *)
LEMMA CentreBeyond ==
  ASSUME NEW p, Rectangle(p), NEW q, Rectangle(q), p.bottom # p.top,
         \/ p.bottom <= q.bottom /\ p.bottom <= q.top /\ p.top <= q.bottom /\ p.top <= q.top
         \/ q.bottom <= p.bottom /\ q.bottom <= p.top /\ q.top <= p.bottom /\ q.top <= p.top
  PROVE  ~InRect(q, Centre(p))
<1> DEFINE m == Centre(p)
<1>1. m.y = p.bottom + p.top
  BY DEF Centre
<1> HIDE DEF m
<1>2. ~(/\ m.y > 2 * (IF q.bottom >= q.top THEN q.top ELSE q.bottom)
        /\ m.y < 2 * (IF q.bottom >= q.top THEN q.bottom ELSE q.top))
  BY <1>1 DEF Rectangle
<1>3. ~InRect(q, m)
  BY <1>2, InRectIs
<1>4. QED
  BY <1>3 DEF m

(* A chart whose data are placed on scales with steps. *)
Laid ==
  /\ Placing(pos) /\ availableHeight(chart) >= 0 /\ axis \in {1, 2} /\ (dbAxis => axis = 2)
  /\ \A a \in 1 .. axis : Rising(scales[a])

(* The scale a datum is placed on has steps. *)
LEMMA ScaleOfDatum ==
  ASSUME Laid, NEW i \in Rows(chart), NEW j \in Defined(chart, i)
  PROVE  /\ Rising(scales[1]) /\ chart.data[i][j] \in Int /\ j \in 1 .. chart.labels
         /\ chart.type \in {"Line", "Bar"} => Rising(scales[chart.axis[i]])
<1>1. Prepared(chart)
  BY DEF Laid, Placing
<1>2. chart.axis[i] \in 1 .. 2 /\ j \in 1 .. chart.labels /\ chart.data[i][j] \in Int
  BY <1>1 DEF Prepared, Defined
<1>3. Rising(scales[1])
  BY DEF Laid
<1>4. ASSUME chart.type \in {"Line", "Bar"} PROVE Rising(scales[chart.axis[i]])
  <2>1. CASE chart.axis[i] = 1
    BY <1>3, <2>1
  <2>2. CASE chart.axis[i] = 2
    <3>1. i \in OnAxis(chart, 2)
      BY <2>2 DEF OnAxis
    <3>2. chart.data[i][j] \in AxisValues(chart, 2)
      BY <3>1 DEF AxisValues
    <3>3. dbAxis
      BY <1>4, <3>2 DEF dbAxis
    <3>4. QED
      BY <2>2, <3>3 DEF Laid
  <2>3. QED
    BY <1>2, <2>1, <2>2
<1>5. QED
  BY <1>2, <1>3, <1>4

(* A position along the bars. *)
LEMMA HeightIs ==
  ASSUME Laid, NEW s, Rising(s), NEW x \in Int
  PROVE  Height(chart, s, x) \in Nat
<1>1. Prepared(chart) /\ availableHeight(chart) >= 0 /\ x <= x
  BY DEF Laid, Placing
<1>2. QED
  BY <1>1, HeightGrows

(* Where the bars start. *)
LEMMA ZeroIs ==
  ASSUME Laid, NEW s, Rising(s), NEW b
  PROVE  zeroY(chart, s, b) \in Int
<1>1. Height(chart, s, 0) \in Nat
  BY HeightIs
<1>2. QED
  BY <1>1 DEF zeroY

(* The sides of a bar are numbers, the width of a bar apart. *)
LEMMA BarSides ==
  ASSUME Placing(pos), barWidth(chart) > 0, NEW j \in 1 .. chart.labels, NEW i \in Bars(j)
  PROVE  pos[i][j].left \in Int /\ pos[i][j].right \in Int /\ pos[i][j].left < pos[i][j].right
<1> DEFINE n == nrOfBars(chart)
           v == valueHop(chart)
           w == barWidth(chart)
           X == XUnit(chart)
           r == realbars(chart, i)
           p == pos[i][j]
<1>1. i \in Rows(chart) /\ tpdraw(chart, i) # "Line" /\ chart.type # "Line" /\ Prepared(chart) /\ j \in Int
  BY PosIs DEF Placing
<1>2. n \in Nat \ {0} /\ r \in Nat
  BY <1>1, RealBars
<1>3. v \in Int /\ w \in Nat \ {0} /\ X = 2 * n
  BY <1>1, <1>2, BarWidthIs
<1>4. i \in Int
  BY <1>1 DEF Prepared, Rows
<1> DEFINE left == X * (barValueSpacing + v * (j - 1) + (barDatasetSpacing + barStrokeWidth) * r) + w * r
           upper == X * (v * j - barValueSpacing - (barDatasetSpacing + barStrokeWidth) * (i - 1)) - w * (i - 1)
           sleft == X * (barValueSpacing + v * (j - 1))
           supper == X * (v * j - barValueSpacing)
<1>5. left \in Int /\ upper \in Int /\ sleft \in Int /\ supper \in Int
  <2> HIDE DEF n, v, w, X, r
  <2>1. QED
    BY <1>1, <1>2, <1>3, <1>4 DEF barValueSpacing, barDatasetSpacing, barStrokeWidth
<1>6. \/ p.left = left /\ p.right = left + w
      \/ p.left = upper - w /\ p.right = upper
      \/ p.left = sleft /\ p.right = sleft + w
      \/ p.left = supper - w /\ p.right = supper
  <2>1. CASE chart.type = "Bar"
    <3>1. p = BarPos(chart, scales, bounds, i, j)
      BY <2>1, PosIs
    <3>2. QED
      BY <3>1 DEF BarPos
  <2>2. CASE chart.type = "HorizontalBar"
    <3>1. p = HorizontalPos(chart, scales, bounds, i, j)
      BY <2>2, PosIs
    <3>2. QED
      BY <3>1 DEF HorizontalPos
  <2>3. CASE chart.type = "StackedBar"
    <3> DEFINE q == StackPos(chart, scales, i, j)
    <3>1. p = q
      BY <2>3, PosIs
    <3>2. q.left = sleft /\ q.right = sleft + w
      BY DEF StackPos
    <3> HIDE DEF q, p, sleft, w, left, upper, supper
    <3>3. QED
      BY <3>1, <3>2
  <2>4. CASE chart.type = "HorizontalStackedBar"
    <3> DEFINE u == StackPos(chart, scales, i, j)
               q == HorizontalStackPos(chart, scales, i, j)
    <3>1. p = q
      BY <2>4, PosIs
    <3>2. q = [u EXCEPT !.left = supper - w, !.right = supper]
      BY DEF HorizontalStackPos
    <3>3. DOMAIN u = {"left", "right", "bottom", "top"}
      BY DEF StackPos
    <3> HIDE DEF q, p, sleft, w, left, upper, supper, u
    <3>4. q.left = supper - w /\ q.right = supper
      BY <3>2, <3>3
    <3>5. QED
      BY <3>1, <3>4
  <2>5. QED
    BY <2>1, <2>2, <2>3, <2>4, PosIs
<1> HIDE DEF p, w, left, upper, sleft, supper
<1>7. p.left \in Int /\ p.right \in Int /\ p.left < p.right
  BY <1>3, <1>5, <1>6
<1>8. QED
  BY <1>7 DEF p

(* Stacked bars grow away from zero. *)
LEMMA StackEnds ==
  ASSUME Laid, Stacked(chart), NEW j \in 1 .. chart.labels, NEW i \in Bars(j)
  PROVE  LET p == pos[i][j]
             z == Height(chart, scales[1], 0)
         IN  /\ p.bottom \in Int /\ p.top \in Int /\ z \in Int
             /\ Sign(i, j) < 0 => p.bottom <= z /\ p.top <= p.bottom
             /\ ~(Sign(i, j) < 0) => p.bottom >= z /\ p.top >= p.bottom
<1> DEFINE p == pos[i][j]
           q == StackPos(chart, scales, i, j)
           z == Height(chart, scales[1], 0)
           v == chart.data[i][j]
           b == Bottom(chart, i, j)
           h == Height(chart, scales[1], b)
<1>1. Placing(pos) /\ Prepared(chart) /\ availableHeight(chart) >= 0 /\ Rising(scales[1])
  BY DEF Laid, Placing
<1>2. i \in Column(chart, j)
  BY <1>1, PosIs
<1>3. v \in Int /\ b \in Int /\ (v >= 0 => b >= 0) /\ (v < 0 => b <= 0)
  BY <1>1, <1>2, BottomGrows
<1>4. /\ q.top \in Int /\ q.bottom \in Int
      /\ v < 0 => q.bottom <= h /\ q.top <= q.bottom
      /\ ~(v < 0) => q.bottom >= h /\ q.top >= q.bottom
  BY <1>1, <1>2, StackIs
<1>5. p.top = q.top /\ p.bottom = q.bottom
  <2>1. CASE chart.type = "StackedBar"
    BY <1>1, <2>1, PosIs
  <2>2. CASE chart.type = "HorizontalStackedBar"
    <3>1. p = HorizontalStackPos(chart, scales, i, j)
      BY <1>1, <2>2, PosIs
    <3>2. HorizontalStackPos(chart, scales, i, j).top = q.top /\ HorizontalStackPos(chart, scales, i, j).bottom = q.bottom
      BY DEF HorizontalStackPos, StackPos
    <3>3. QED
      BY <3>1, <3>2
  <2>3. QED
    BY <2>1, <2>2 DEF Stacked
<1>6. Sign(i, j) < 0 <=> v < 0
  BY DEF Sign
<1> HIDE DEF p, q, v, b
<1>7. h \in Int /\ z \in Int /\ (b >= 0 => h >= z) /\ (b <= 0 => h <= z)
  <2>1. CASE b >= 0
    <3>1. 0 <= b /\ 0 \in Int
      BY <1>3, <2>1
    <3>2. Height(chart, scales[1], 0) \in Nat /\ Height(chart, scales[1], b) \in Nat
          /\ Height(chart, scales[1], 0) <= Height(chart, scales[1], b)
      BY <1>1, <1>3, <3>1, HeightGrows
    <3>3. b <= 0 => b = 0
      BY <1>3, <2>1
    <3>4. QED
      BY <3>2, <3>3
  <2>2. CASE ~(b >= 0)
    <3>1. b <= 0 /\ 0 \in Int
      BY <1>3, <2>2
    <3>2. Height(chart, scales[1], b) \in Nat /\ Height(chart, scales[1], 0) \in Nat
          /\ Height(chart, scales[1], b) <= Height(chart, scales[1], 0)
      BY <1>1, <1>3, <3>1, HeightGrows
    <3>3. QED
      BY <2>2, <3>2
  <2>3. QED
    BY <2>1, <2>2
<1> HIDE DEF h, z
<1>8. /\ p.bottom \in Int /\ p.top \in Int /\ z \in Int
      /\ v < 0 => p.bottom <= z /\ p.top <= p.bottom
      /\ ~(v < 0) => p.bottom >= z /\ p.top >= p.bottom
  BY <1>3, <1>4, <1>5, <1>7
<1>9. QED
  BY <1>6, <1>8 DEF p, z

(* The bars are rectangles. *)
LEMMA BarRectangle ==
  ASSUME Laid, barWidth(chart) > 0, NEW j \in 1 .. chart.labels, NEW i \in Bars(j)
  PROVE  Rectangle(pos[i][j])
<1> DEFINE p == pos[i][j]
           a == chart.axis[i]
           x == chart.data[i][j]
<1>1. Placing(pos)
  BY DEF Laid
<1>2. p.left \in Int /\ p.right \in Int /\ p.left < p.right
  BY <1>1, BarSides
<1>3. i \in Rows(chart) /\ j \in Defined(chart, i) /\ x # Missing
  BY DEF Bars, Column, Defined
<1>4. Rising(scales[1]) /\ x \in Int /\ (chart.type \in {"Line", "Bar"} => Rising(scales[a]))
  BY <1>3, ScaleOfDatum
<1>5. p.bottom \in Int /\ p.top \in Int
  <2>1. CASE chart.type = "Bar"
    <3>1. p = BarPos(chart, scales, bounds, i, j) /\ Rising(scales[a])
      BY <1>1, <1>4, <2>1, PosIs
    <3> DEFINE z == zeroY(chart, scales[a], bounds[a])
               h == Height(chart, scales[a], x)
    <3>2. h \in Nat
      BY <1>4, <3>1, HeightIs
    <3>3. z \in Int
      BY <3>1, ZeroIs
    <3>4. p.bottom = z /\ p.top = z + (h - z) - 5 * barStrokeWidth
      BY <1>3, <3>1 DEF BarPos
    <3> HIDE DEF z, h, p
    <3>5. QED
      BY <3>2, <3>3, <3>4 DEF barStrokeWidth
  <2>2. CASE chart.type = "HorizontalBar"
    <3>1. p = HorizontalPos(chart, scales, bounds, i, j)
      BY <1>1, <2>2, PosIs
    <3> DEFINE z == zeroY(chart, scales[1], bounds[1])
               h == Height(chart, scales[1], x)
    <3>2. h \in Nat
      BY <1>4, HeightIs
    <3>3. z \in Int
      BY <1>4, ZeroIs
    <3>4. p.bottom = z /\ p.top = h
      BY <1>3, <3>1 DEF HorizontalPos
    <3> HIDE DEF z, h, p
    <3>5. QED
      BY <3>2, <3>3, <3>4
  <2>3. CASE Stacked(chart)
    BY <2>3, StackEnds
  <2>4. QED
    BY <1>1, <2>1, <2>2, <2>3, PosIs DEF Stacked
<1>6. QED
  BY <1>2, <1>5 DEF Rectangle

(* Bars of two columns. *)
LEMMA ColumnsApart ==
  ASSUME Laid, barWidth(chart) > 0, Fitting(chart), NEW j \in 1 .. chart.labels, NEW i \in Bars(j),
         NEW l \in 1 .. chart.labels, NEW k \in Bars(l), j < l
  PROVE  pos[i][j].right <= pos[k][l].left
<1> DEFINE p == pos[i][j]
           q == pos[k][l]
           c == XUnit(chart) * valueHop(chart)
<1>1. Placing(pos)
  BY DEF Laid
<1>2. Rectangle(p) /\ Rectangle(q)
  BY BarRectangle
<1>3. Inside(p, j) /\ Inside(q, l)
  BY <1>1, BarsInside
<1>4. p.left >= c * (j - 1) /\ p.right <= c * j /\ q.left >= c * (l - 1)
  BY <1>3 DEF Inside
<1>5. c \in Int
  <2>1. /\ i \in Rows(chart) /\ tpdraw(chart, i) # "Line" /\ chart.type # "Line" /\ Prepared(chart)
    BY <1>1, PosIs DEF Placing
  <2>2. nrOfBars(chart) \in Nat \ {0}
    BY <2>1, RealBars
  <2>3. valueHop(chart) \in Int /\ XUnit(chart) = 2 * nrOfBars(chart)
    BY <2>1, <2>2, BarWidthIs
  <2>4. QED
    BY <2>2, <2>3
<1> HIDE DEF p, q, c
<1>6. p.left \in Int /\ p.right \in Int /\ q.left \in Int /\ p.left < p.right
  BY <1>2 DEF Rectangle
<1>7. j \in Int /\ l \in Int /\ j <= l - 1
  BY DEF Laid, Placing, Prepared
<1>8. c * (j - 1) = c * j - c /\ c * j \in Int /\ c * (l - 1) \in Int
  BY <1>5, <1>7
<1>9. c > 0
  BY <1>4, <1>5, <1>6, <1>8
<1>10. c * j <= c * (l - 1)
  <2> DEFINE m == l - 1
  <2>1. m \in Int /\ j <= m /\ c \in Nat
    BY <1>5, <1>7, <1>9
  <2> HIDE DEF m
  <2>2. c * j <= c * m
    BY <1>7, <2>1
  <2>3. QED
    BY <2>2 DEF m
<1>11. p.right <= q.left
  BY <1>4, <1>6, <1>8, <1>10
<1>12. QED
  BY <1>11 DEF p, q

(* The middle of a bar is in no other bar. *)
LEMMA BarAlone ==
  ASSUME Laid, barWidth(chart) > 0, Fitting(chart), NEW j \in 1 .. chart.labels, NEW i \in Bars(j),
         NEW l \in 1 .. chart.labels, NEW k \in Bars(l), i # k \/ j # l, pos[i][j].bottom # pos[i][j].top
  PROVE  ~InRect(pos[k][l], Centre(pos[i][j]))
<1> DEFINE p == pos[i][j]
           q == pos[k][l]
<1>1. Placing(pos) /\ availableHeight(chart) >= 0 /\ Rising(scales[1])
  BY DEF Laid
<1>2. Rectangle(p) /\ Rectangle(q)
  BY BarRectangle
<1>3. j \in Int /\ l \in Int
  BY DEF Laid, Placing, Prepared
<1>4. i \in Int /\ k \in Int
  BY <1>1 DEF Bars, Column, Rows, Placing, Prepared
<1>5. CASE j # l
  <2>1. p.right <= q.left \/ q.right <= p.left
    BY <1>3, <1>5, ColumnsApart
  <2> HIDE DEF p, q
  <2>2. ~InRect(q, Centre(p))
    BY <1>2, <2>1, CentreBeside
  <2>3. QED
    BY <2>2 DEF p, q
<1>6. CASE j = l /\ ~Stacked(chart)
  <2>1. Beside(p, q) \/ Beside(q, p)
    <3>1. i < k \/ k < i
      BY <1>4, <1>6
    <3>2. QED
      BY <1>1, <1>6, <3>1, BarsBeside
  <2> HIDE DEF p, q
  <2>2. p.right <= q.left \/ q.right <= p.left
    BY <1>2, <2>1 DEF Beside, Rectangle
  <2>3. ~InRect(q, Centre(p))
    BY <1>2, <2>2, CentreBeside
  <2>4. QED
    BY <2>3 DEF p, q
<1>7. CASE j = l /\ Stacked(chart)
  <2> DEFINE z == Height(chart, scales[1], 0)
             s == Sign(i, j)
             t == Sign(k, j)
  <2>1. /\ p.bottom \in Int /\ p.top \in Int /\ z \in Int
        /\ s < 0 => p.bottom <= z /\ p.top <= p.bottom
        /\ ~(s < 0) => p.bottom >= z /\ p.top >= p.bottom
    BY <1>7, StackEnds
  <2>2. /\ q.bottom \in Int /\ q.top \in Int
        /\ t < 0 => q.bottom <= z /\ q.top <= q.bottom
        /\ ~(t < 0) => q.bottom >= z /\ q.top >= q.bottom
    BY <1>7, StackEnds
  <2>3. s \in {-1, 1} /\ t \in {-1, 1}
    BY DEF Sign
  <2>4. s = t => (i < k /\ Beyond(p, q, t)) \/ (k < i /\ Beyond(q, p, s))
    <3>1. i < k \/ k < i
      BY <1>4, <1>7
    <3>2. QED
      BY <1>1, <1>7, <3>1, BarsBeyond
  <2>5. p.bottom # p.top
    OBVIOUS
  <2> HIDE DEF p, q, z, s, t
  <2>6. \/ p.bottom <= q.bottom /\ p.bottom <= q.top /\ p.top <= q.bottom /\ p.top <= q.top
        \/ q.bottom <= p.bottom /\ q.bottom <= p.top /\ q.top <= p.bottom /\ q.top <= p.top
    <3>1. CASE s = t
      <4>1. CASE i < k /\ Beyond(p, q, t)
        BY <2>1, <2>2, <3>1, <4>1 DEF Beyond
      <4>2. CASE k < i /\ Beyond(q, p, s)
        BY <2>1, <2>2, <3>1, <4>2 DEF Beyond
      <4>3. QED
        BY <2>4, <3>1, <4>1, <4>2
    <3>2. CASE s # t
      BY <2>1, <2>2, <2>3, <3>2
    <3>3. QED
      BY <3>1, <3>2
  <2>7. ~InRect(q, Centre(p))
    BY <1>2, <2>5, <2>6, CentreBeyond
  <2>8. QED
    BY <2>7 DEF p, q
<1>8. QED
  BY <1>5, <1>6, <1>7

-----------------------------------------------------------------------------
(* The mouse over points. *)

(* A scale that is not logarithmic cuts values off at its ends. *)
LEMMA HeightEnds ==
  ASSUME Laid, NEW s, Rising(s), ~s.logarithmic, NEW x \in Int
  PROVE  Height(chart, s, x) <= 10 * availableHeight(chart)
<1> DEFINE A == availableHeight(chart)
           n == s.steps
           v == s.stepValue
           h == scaleHop(chart, s)
           c == CapValue(x - s.graphMin, n * v, 0)
           d == h * c
           l == (10 * d) \div v
<1>1. n \in Nat \ {0} /\ v \in Nat \ {0} /\ s.graphMin \in Int
  BY DEF Rising
<1>2. A \in Nat
  <2>1. chart.width \in Int /\ chart.height \in Int
    BY DEF Laid, Placing, Prepared, Framed
  <2>2. A \in Int
    BY <2>1 DEF availableHeight, scaleTickSize
  <2>3. A >= 0
    BY DEF Laid
  <2>4. QED
    BY <2>2, <2>3
<1>3. h = A \div n
  BY DEF scaleHop
<1>4. Height(chart, s, x) = l
  BY DEF Height, calculateOffset
<1>5. n * v \in Nat
  BY <1>1
<1>6. c \in Nat /\ c <= n * v
  <2> DEFINE g == s.graphMin
             m == n * v
  <2>1. g \in Int /\ m \in Nat
    BY <1>1, <1>5
  <2> HIDE DEF g, m
  <2>2. CapValue(x - g, m, 0) \in Nat /\ CapValue(x - g, m, 0) <= m
    BY <2>1 DEF CapValue
  <2>3. QED
    BY <2>2 DEF g, m
<1> HIDE DEF A, n, v, h, c
<1>7. h \in Nat /\ n * h <= A
  <2>1. n * 0 <= A
    BY <1>1, <1>2
  <2>2. QED
    BY <1>1, <1>2, <1>3, <2>1, DivParts, DivAtLeast
<1>8. d \in Nat /\ d <= v * (h * n)
  <2>1. n \in Nat /\ v \in Nat
    BY <1>1
  <2>2. h * c <= v * (h * n)
    BY <1>6, <1>7, <2>1, ProductGrows
  <2>3. QED
    BY <1>6, <1>7, <2>2
<1> HIDE DEF d
<1> DEFINE e == h * n
<1>9. e \in Nat /\ e <= A /\ d <= v * e
  BY <1>1, <1>2, <1>7, <1>8
<1> HIDE DEF e
<1>10. l \in Int /\ v * l <= 10 * d
  BY <1>1, <1>8, DivParts
<1> HIDE DEF l
<1>11. l <= 10 * e
  <2>1. v * l <= v * (10 * e)
    BY <1>1, <1>8, <1>9, <1>10
  <2> DEFINE f == 10 * e
  <2>2. f \in Int
    BY <1>9
  <2> HIDE DEF f
  <2>3. v * l <= v * f
    BY <2>1 DEF f
  <2>4. l <= f
    BY <1>1, <1>10, <2>2, <2>3
  <2>5. QED
    BY <2>4 DEF f
<1>12. l <= 10 * A
  BY <1>2, <1>9, <1>10, <1>11
<1>13. QED
  BY <1>4, <1>12 DEF A

(* The unit across the bars. *)
LEMMA XUnitIs ==
  ASSUME NEW ch, Prepared(ch)
  PROVE  XUnit(ch) \in Nat \ {0}
<1> DEFINE n == nrOfBars(ch)
           S == {i \in Rows(ch) : tpdraw(ch, i) # "Line"}
<1>1. Len(ch.data) \in Nat /\ S \subseteq 1 .. Len(ch.data)
  BY DEF Prepared, Rows
<1>2. IsFiniteSet(1 .. Len(ch.data))
  BY <1>1, FS_Interval
<1>3. n \in Nat
  <2> HIDE DEF S
  <2>1. Cardinality(S) \in Nat
    BY <1>1, <1>2, FS_Subset, FS_CardinalityType
  <2>2. QED
    BY <2>1 DEF nrOfBars, S
<1>4. XUnit(ch) = 2 * Max({1, n})
  BY DEF XUnit
<1> HIDE DEF n
<1>5. Max({1, n}) = IF 1 >= n THEN 1 ELSE n
  BY <1>3, MaxMinTwo
<1>6. QED
  BY <1>3, <1>4, <1>5

(* The pointer at a point. *)
At(q) == [x |-> 2 * q.x, y |-> 2 * q.y]

(* Where a point is. *)
LEMMA PointIs ==
  ASSUME Laid, NEW i \in Rows(chart), tpdraw(chart, i) = "Line", NEW j \in Defined(chart, i)
  PROVE  LET q == pos[i][j]
         IN  /\ q.x \in Int /\ q.y \in Nat /\ chart.axis[i] \in 1 .. axis
             /\ ~scales[chart.axis[i]].logarithmic => q.y <= 10 * availableHeight(chart)
<1> DEFINE q == pos[i][j]
           a == chart.axis[i]
           X == XUnit(chart)
           V == valueHop(chart)
           half == IF chart.type = "Bar" THEN (X \div 2) * V ELSE 0
           val == chart.data[i][j]
<1>1. Prepared(chart) /\ pos = initPassVariableData_part2(chart, scales, bounds)
  BY DEF Laid, Placing
<1>2. j \in 1 .. chart.labels /\ val \in Int /\ val # Missing /\ chart.labels \in Nat /\ a \in 1 .. 2
  BY <1>1, ScaleOfDatum DEF Prepared, Defined
<1>3. chart.type \in {"Line", "Bar"}
  BY DEF tpdraw
<1>4. Rising(scales[a]) /\ a \in 1 .. axis
  <2>1. Rising(scales[a])
    BY <1>3, ScaleOfDatum
  <2>2. a = 2 => dbAxis
    <3>1. a = 2 => val \in AxisValues(chart, 2)
      BY DEF AxisValues, OnAxis
    <3>2. QED
      BY <1>3, <3>1 DEF dbAxis
  <2>3. QED
    BY <1>2, <2>1, <2>2 DEF Laid
<1>5. q = LinePos(chart, scales, bounds, i, j)
  BY <1>1, <1>2 DEF initPassVariableData_part2
<1>6. q.x = X * V * (j - 1) + half /\ q.y = Height(chart, LineScale(chart, scales[a]), val)
  BY <1>2, <1>5 DEF LinePos
<1>7. X \in Nat \ {0}
  BY <1>1, XUnitIs
<1>8. V \in Int
  <2> DEFINE n == IF chart.type = "Line" THEN chart.labels - 1 ELSE chart.labels
             w == availableWidth(chart)
  <2>1. chart.type = "Line" => chart.labels # 1
    BY <1>1 DEF Prepared
  <2>2. n \in Nat \ {0}
    BY <1>2, <2>1
  <2>3. w \in Int
    BY <1>1 DEF Prepared, Framed, availableWidth, scaleTickSize
  <2>4. V = w \div n
    BY DEF valueHop
  <2> HIDE DEF n, w, V
  <2>5. QED
    BY <2>2, <2>3, <2>4, DivParts
<1>9. q.y \in Nat /\ (~scales[a].logarithmic => q.y <= 10 * availableHeight(chart))
  BY <1>2, <1>4, <1>6, LineRises, HeightIs, HeightEnds
<1> HIDE DEF q, X, V
<1>10. q.x \in Int
  BY <1>2, <1>6, <1>7, <1>8
<1>11. QED
  BY <1>4, <1>9, <1>10 DEF q

(* A point is found where it is drawn. *)
LEMMA PointFound ==
  ASSUME Laid, NEW i \in Rows(chart), tpdraw(chart, i) = "Line", NEW j \in Defined(chart, i),
         chart.opts.detectAnnotateOnFullLine => \A a \in 1 .. axis : ~scales[a].logarithmic
  PROVE  NearPoint(chart, pos[i][j], At(pos[i][j]))
<1> DEFINE q == pos[i][j]
           x == q.x
           y == q.y
           m == At(q)
           X == XUnit(chart)
           A == availableHeight(chart)
           full == chart.opts.detectAnnotateOnFullLine
<1>1. x \in Int /\ y \in Nat /\ (full => y <= 10 * A)
  BY PointIs
<1>2. X \in Nat \ {0} /\ A \in Int
  <2>1. Prepared(chart)
    BY DEF Laid, Placing
  <2>2. A \in Int
    BY <2>1 DEF Prepared, Framed, availableHeight, scaleTickSize
  <2>3. QED
    BY <2>1, <2>2, XUnitIs
<1>3. m.x = 2 * x /\ m.y = 2 * y
  BY DEF At
<1> DEFINE dx == (10 * (m.x - 2 * x)) \div (2 * X)
           dy == (m.y - 2 * y) \div 2
           r == 100
<1>4. NearPoint(chart, q, m) <=>
        IF full THEN dx < r /\ -dx < r /\ m.y >= -2 * r /\ m.y <= 2 * (10 * A + r)
        ELSE dx * dx + dy * dy < r * r
  BY DEF NearPoint, pointHitDetectionRadius
<1> HIDE DEF m, x, y, X, A, q, full
<1>5. dx = 0
  <2> DEFINE c == 2 * X
             e == 10 * (m.x - 2 * x)
  <2>1. c \in Nat \ {0} /\ e = 0
    BY <1>1, <1>2, <1>3
  <2> HIDE DEF c, e
  <2>2. e \div c = 0
    BY <2>1
  <2>3. QED
    BY <2>2 DEF c, e
<1>6. dy = 0
  BY <1>1, <1>3
<1> HIDE DEF dx, dy
<1>7. NearPoint(chart, q, m)
  BY <1>1, <1>2, <1>3, <1>4, <1>5, <1>6
<1>8. QED
  BY <1>7 DEF q, m

-----------------------------------------------------------------------------
(* The annotations of lines and bars. *)

(* The data drawn as points of a line, and the data drawn as bars. *)
PointData(ch) == UNION {{i} \X Defined(ch, i) : i \in {k \in Rows(ch) : tpdraw(ch, k) = "Line"}}
BarData(ch) == UNION {{i} \X Defined(ch, i) : i \in {k \in Rows(ch) : tpdraw(ch, k) # "Line"}}

(* An annotation belongs to a datum of its kind. *)
Marks(ch, e) ==
  /\ e \in Notes /\ e[1] \in {"POINT", "RECT"} /\ e[2] \in Rows(ch) /\ e[3] \in Defined(ch, e[2])
  /\ e[1] = "POINT" <=> tpdraw(ch, e[2]) = "Line"

(* One list of annotations. *)
LEMMA ListMarks ==
  ASSUME NEW ch, Prepared(ch), NEW kind \in {"POINT", "RECT"},
         NEW S, S = IF kind = "POINT" THEN PointData(ch) ELSE BarData(ch)
  PROVE  LET s == Listed(ch, kind, S)
         IN  /\ s \in Seq(Notes) /\ Len(s) \in Nat
             /\ \A n \in 1 .. Len(s) : s[n][1] = kind /\ Marks(ch, s[n])
             /\ \A n \in 1 .. Len(s) : \A k \in 1 .. Len(s) : s[n] = s[k] => n = k
<1> DEFINE s == Listed(ch, kind, S)
           T == {kind} \X Nat \X Nat
<1>1. ch.labels \in Nat /\ Len(ch.data) \in Nat
  BY DEF Prepared
<1>2. PICK m \in Nat : Ordered(ch, kind, S, m, s)
  BY <1>1, ListedIs
<1> HIDE DEF s
<1>3. /\ s \in Seq(T) /\ Len(s) \in Nat
      /\ \A n \in 1 .. Len(s) : <<s[n][2], s[n][3]>> \in S
      /\ \A k \in 1 .. Len(s) : \A l \in 1 .. Len(s) : k < l => Rank(ch, s[k]) < Rank(ch, s[l])
  BY <1>2 DEF Ordered
<1>4. T \in SUBSET Notes
  BY DEF Notes
<1>5. ASSUME NEW n \in 1 .. Len(s) PROVE s[n][1] = kind /\ Marks(ch, s[n])
  <2> DEFINE e == s[n]
  <2>1. e \in T /\ <<e[2], e[3]>> \in S
    BY <1>3
  <2>2. e[1] = kind /\ e \in Notes
    BY <1>4, <2>1
  <2> HIDE DEF e
  <2>3. CASE kind = "POINT"
    <3>1. <<e[2], e[3]>> \in PointData(ch)
      BY <2>1, <2>3
    <3>2. e[2] \in Rows(ch) /\ tpdraw(ch, e[2]) = "Line" /\ e[3] \in Defined(ch, e[2])
      BY <3>1 DEF PointData
    <3>3. QED
      BY <2>2, <2>3, <3>2 DEF Marks, e
  <2>4. CASE kind = "RECT"
    <3>1. <<e[2], e[3]>> \in BarData(ch)
      BY <2>1, <2>4
    <3>2. e[2] \in Rows(ch) /\ tpdraw(ch, e[2]) # "Line" /\ e[3] \in Defined(ch, e[2])
      BY <3>1 DEF BarData
    <3>3. QED
      BY <2>2, <2>4, <3>2 DEF Marks, e
  <2>5. QED
    BY <2>3, <2>4
<1>6. ASSUME NEW n \in 1 .. Len(s), NEW k \in 1 .. Len(s), s[n] = s[k] PROVE n = k
  <2> DEFINE e == s[n]
  <2>1. e \in T /\ Rank(ch, s[k]) = Rank(ch, e)
    BY <1>3, <1>6
  <2>2. Rank(ch, e) \in Int
    <3> HIDE DEF e
    <3>1. QED
      BY <1>1, <2>1, RankInt
  <2>3. ~(n < k) /\ ~(k < n)
    BY <1>3, <2>1, <2>2
  <2>4. QED
    BY <1>3, <2>3
<1>7. s \in Seq(Notes)
  <2> HIDE DEF T
  <2>1. QED
    BY <1>3, <1>4
<1>8. QED
  BY <1>3, <1>5, <1>6, <1>7 DEF s

(* The points come before the bars, and no datum twice. *)
LEMMA ChartAnnotations ==
  ASSUME NEW ch, Prepared(ch), ~Round(ch)
  PROVE  LET an == Annotations(ch)
         IN  /\ an \in Seq(Notes) /\ Len(an) \in Nat
             /\ \A n \in 1 .. Len(an) : Marks(ch, an[n])
             /\ \A n \in 1 .. Len(an) : an[n][1] = "POINT" => \A k \in 1 .. n : an[k][1] = "POINT"
             /\ \A n \in 1 .. Len(an) : \A k \in 1 .. Len(an) : an[n] = an[k] => n = k
<1> DEFINE P == Listed(ch, "POINT", PointData(ch))
           B == Listed(ch, "RECT", BarData(ch))
           an == Annotations(ch)
           l == Len(P)
<1>1. an = P \o B
  BY DEF Annotations, PointData, BarData
<1>2. /\ P \in Seq(Notes) /\ l \in Nat
      /\ \A n \in 1 .. Len(P) : P[n][1] = "POINT" /\ Marks(ch, P[n])
      /\ \A n \in 1 .. Len(P) : \A k \in 1 .. Len(P) : P[n] = P[k] => n = k
  BY ListMarks
<1>3. /\ B \in Seq(Notes) /\ Len(B) \in Nat
      /\ \A n \in 1 .. Len(B) : B[n][1] = "RECT" /\ Marks(ch, B[n])
      /\ \A n \in 1 .. Len(B) : \A k \in 1 .. Len(B) : B[n] = B[k] => n = k
  BY ListMarks
<1> HIDE DEF P, B, an
<1>4. /\ an \in Seq(Notes) /\ Len(an) = l + Len(B)
      /\ \A n \in 1 .. Len(an) : an[n] = IF n <= l THEN P[n] ELSE B[n - l]
  <2>1. an \in Seq(Notes) /\ Len(an) = l + Len(B)
    BY <1>1, <1>2, <1>3
  <2>2. \A n \in 1 .. (Len(P) + Len(B)) : (P \o B)[n] = IF n <= Len(P) THEN P[n] ELSE B[n - Len(P)]
    BY <1>2, <1>3
  <2>3. QED
    BY <1>1, <2>1, <2>2
<1>5. ASSUME NEW n \in 1 .. Len(an)
      PROVE  /\ n <= l => n \in 1 .. l /\ an[n] = P[n] /\ an[n][1] = "POINT" /\ Marks(ch, an[n])
             /\ ~(n <= l) => n - l \in 1 .. Len(B) /\ an[n] = B[n - l] /\ an[n][1] = "RECT" /\ Marks(ch, an[n])
  <2>1. n <= l => n \in 1 .. l
    BY <1>2, <1>4
  <2>2. ~(n <= l) => n - l \in 1 .. Len(B)
    BY <1>2, <1>3, <1>4
  <2>3. QED
    BY <1>2, <1>3, <1>4, <2>1, <2>2
<1>6. ASSUME NEW n \in 1 .. Len(an), an[n][1] = "POINT", NEW k \in 1 .. n PROVE an[k][1] = "POINT"
  <2>1. n <= l
    BY <1>5, <1>6
  <2>2. k \in 1 .. Len(an) /\ k <= l
    BY <1>2, <1>3, <1>4, <2>1
  <2>3. QED
    BY <1>5, <2>2
<1>7. ASSUME NEW n \in 1 .. Len(an), NEW k \in 1 .. Len(an), an[n] = an[k] PROVE n = k
  <2>1. CASE n <= l
    <3>1. k <= l
      BY <1>5, <1>7, <2>1
    <3>2. n \in 1 .. l /\ k \in 1 .. l /\ P[n] = P[k]
      BY <1>5, <1>7, <2>1, <3>1
    <3>3. QED
      BY <1>2, <3>2
  <2>2. CASE ~(n <= l)
    <3>1. ~(k <= l)
      BY <1>5, <1>7, <2>2
    <3>2. n - l \in 1 .. Len(B) /\ k - l \in 1 .. Len(B) /\ B[n - l] = B[k - l]
      BY <1>5, <1>7, <2>2, <3>1
    <3>3. n - l = k - l
      BY <1>3, <3>2
    <3>4. QED
      BY <1>2, <1>3, <1>4, <3>3
  <2>3. QED
    BY <2>1, <2>2
<1>8. QED
  BY <1>2, <1>3, <1>4, <1>5, <1>6, <1>7 DEF an

(* Two annotations of one datum are the same. *)
LEMMA MarksSame ==
  ASSUME NEW ch, NEW e, NEW f, Marks(ch, e), Marks(ch, f), e[2] = f[2], e[3] = f[3]
  PROVE  e = f
<1>1. e[1] = f[1]
  BY DEF Marks
<1>2. e \in Notes /\ f \in Notes
  BY DEF Marks
<1>3. e = <<e[1], e[2], e[3]>> /\ f = <<f[1], f[2], f[3]>>
  BY <1>2 DEF Notes
<1>4. QED
  BY <1>1, <1>3

(* The middle of a bar belongs to that bar alone, and a point is found. *)
LEMMA MarkAlone ==
  ASSUME Laid, nrOfBars(chart) > 0 => barWidth(chart) > 0 /\ Fitting(chart),
         chart.opts.detectAnnotateOnFullLine => \A a \in 1 .. axis : ~scales[a].logarithmic,
         annotate = Annotations(chart), NEW n \in 1 .. Len(annotate), Solid(annotate[n])
  PROVE  Alone(n)
<1> DEFINE an == annotate
           e == an[n]
           i == e[2]
           j == e[3]
<1>1. Prepared(chart) /\ ~Round(chart) /\ Placing(pos)
  BY DEF Laid, Placing
<1>2. /\ an \in Seq(Notes) /\ Len(an) \in Nat
      /\ \A k \in 1 .. Len(an) : Marks(chart, an[k])
      /\ \A k \in 1 .. Len(an) : an[k][1] = "POINT" => \A l \in 1 .. k : an[l][1] = "POINT"
      /\ \A k \in 1 .. Len(an) : \A l \in 1 .. Len(an) : an[k] = an[l] => k = l
  BY <1>1, ChartAnnotations
<1>3. DOMAIN an = 1 .. Len(an)
  BY <1>2
<1>4. Marks(chart, e)
  BY <1>2
<1>5. i \in Rows(chart) /\ j \in Defined(chart, i) /\ e[1] \in {"POINT", "RECT"} /\ (e[1] = "POINT" <=> tpdraw(chart, i) = "Line")
  BY <1>4 DEF Marks
<1>6. CASE e[1] = "POINT"
  <2>1. Middle(stat, pos, e) = At(pos[i][j])
    BY <1>6 DEF Middle, At
  <2>2. NearPoint(chart, pos[i][j], At(pos[i][j]))
    <3> HIDE DEF i, j
    <3>1. QED
      BY <1>5, <1>6, PointFound
  <2>3. n \in Hits(n)
    BY <1>3, <1>6, <2>1, <2>2 DEF Hits, Found
  <2>4. \A k \in 1 .. n : k \in Points
    BY <1>2, <1>3, <1>6 DEF Points
  <2>5. QED
    BY <1>6, <2>3, <2>4 DEF Alone
<1>7. CASE e[1] = "RECT"
  <2> DEFINE p == pos[i][j]
             m == Centre(p)
  <2>1. Middle(stat, pos, e) = m
    BY <1>7 DEF Middle, Centre
  <2>2. p.bottom # p.top
    BY <1>7 DEF Solid
  <2>3. \A k \in 1 .. Len(an) : an[k][1] = "RECT" =>
          LET c == an[k][2]
              d == an[k][3]
          IN  c \in Bars(d) /\ d \in 1 .. chart.labels
    <3> SUFFICES ASSUME NEW k \in 1 .. Len(an), an[k][1] = "RECT"
                 PROVE  an[k][2] \in Bars(an[k][3]) /\ an[k][3] \in 1 .. chart.labels
      OBVIOUS
    <3>1. Marks(chart, an[k])
      BY <1>2
    <3> DEFINE c == an[k][2]
               d == an[k][3]
    <3>2. c \in Rows(chart) /\ d \in Defined(chart, c) /\ tpdraw(chart, c) # "Line"
      BY <3>1 DEF Marks
    <3> HIDE DEF c, d
    <3>3. d \in 1 .. chart.labels
      BY <1>1, <3>2 DEF Prepared, Defined
    <3>4. c \in Bars(d)
      BY <3>2 DEF Bars, Column
    <3>5. QED
      BY <3>3, <3>4 DEF c, d
  <2>4. i \in Bars(j) /\ j \in 1 .. chart.labels
    BY <1>7, <2>3
  <2>5. barWidth(chart) > 0 /\ Fitting(chart)
    <3>1. i \in Rows(chart) /\ tpdraw(chart, i) # "Line"
      BY <1>5, <1>7
    <3> HIDE DEF i
    <3>2. nrOfBars(chart) \in Nat \ {0}
      BY <1>1, <3>1, RealBars
    <3>3. QED
      BY <3>2
  <2>6. InRect(p, m)
    <3>1. Rectangle(p)
      <4> HIDE DEF i, j
      <4>1. QED
        BY <2>4, <2>5, BarRectangle
    <3> HIDE DEF p
    <3>2. QED
      BY <2>2, <3>1, CentreInside
  <2>7. ASSUME NEW k \in 1 .. Len(an), an[k][1] = "RECT", k # n PROVE ~InRect(pos[an[k][2]][an[k][3]], m)
    <3> DEFINE c == an[k][2]
               d == an[k][3]
    <3>1. c \in Bars(d) /\ d \in 1 .. chart.labels
      BY <2>3, <2>7
    <3>2. i # c \/ j # d
      <4>1. Marks(chart, an[k]) /\ an[k] # e
        BY <1>2, <2>7
      <4> HIDE DEF e
      <4>2. QED
        BY <1>4, <4>1, MarksSame
    <3>3. pos[i][j].bottom # pos[i][j].top
      BY <2>2
    <3> HIDE DEF c, d, i, j
    <3>4. ~InRect(pos[c][d], Centre(pos[i][j]))
      BY <2>4, <2>5, <3>1, <3>2, <3>3, BarAlone
    <3>5. QED
      BY <3>4 DEF c, d
  <2> HIDE DEF m
  <2>8. n \in Hits(n)
    BY <1>3, <1>7, <2>1, <2>6 DEF Hits, Found
  <2>9. ASSUME NEW k, k \in Hits(n) \ Points PROVE k = n
    <3>1. k \in 1 .. Len(an) /\ an[k][1] # "POINT"
      BY <1>3, <2>9 DEF Hits, Found, Points
    <3>2. an[k][1] = "RECT"
      BY <1>2, <3>1 DEF Marks
    <3>3. InRect(pos[an[k][2]][an[k][3]], m)
      BY <2>1, <2>9, <3>2 DEF Hits, Found
    <3>4. QED
      BY <2>7, <3>1, <3>2, <3>3
  <2>10. n \notin Points
    BY <1>7 DEF Points
  <2>11. Hits(n) \ Points = {n}
    BY <2>8, <2>9, <2>10
  <2>12. QED
    BY <1>7, <2>8, <2>11 DEF Alone
<1>8. QED
  BY <1>5, <1>6, <1>7

-----------------------------------------------------------------------------
(* The invariant behind MouseFinds. *)

(* It holds before the drawing begins. *)
LEMMA FindStart == Init => FindIInv
  BY DEF Init, FindIInv, NoMouse

(* The annotations are a list. *)
LEMMA AnnotationsList ==
  ASSUME Prepared(chart)
  PROVE  Annotations(chart) \in Seq(Notes)
<1>1. CASE Round(chart)
  BY <1>1, PieAnnotations
<1>2. CASE ~Round(chart)
  BY <1>2, ChartAnnotations
<1>3. QED
  BY <1>1, <1>2

(* Where the mouse finds the parts of a chart does not change once the      *)
(* chart has its scales.                                                    *)
LEMMA FindableKept ==
  ASSUME UNCHANGED <<chart, bounds, axis, scales>>
  PROVE  Findable' <=> Findable
<1>1. (Round(chart)' <=> Round(chart)) /\ (Graded' <=> Graded)
  BY PlaceKept
<1>2. /\ availableHeight(chart)' = availableHeight(chart) /\ nrOfBars(chart)' = nrOfBars(chart)
      /\ barWidth(chart)' = barWidth(chart) /\ (Fitting(chart)' <=> Fitting(chart))
  OBVIOUS
<1>3. QED
  BY <1>1, <1>2 DEF Findable

(* Of a chart that is drawn, the mouse finds the part it is at. *)
LEMMA PartAlone ==
  ASSUME ScaleIInv, LinkIInv, PlaceIInv, FindIInv, pc = "done", Findable,
         NEW n \in 1 .. Len(annotate), Solid(annotate[n])
  PROVE  Alone(n)
<1>1. Prepared(chart) /\ annotate = Annotations(chart)
  BY DEF LinkIInv, FindIInv
<1>2. CASE Round(chart)
  <2>1. PICK S \in SUBSET (1 .. chart.labels) : stat = Touched(chart, S)
    BY <1>1, <1>2, LinkRound
  <2>2. QED
    BY <1>1, <1>2, <2>1, SegmentAlone
<1>3. CASE ~Round(chart)
  <2>1. pos # <<>>
    BY <1>3 DEF FindIInv
  <2>2. pos = initPassVariableData_part2(chart, scales, bounds)
    BY <2>1 DEF PlaceIInv
  <2>3. Placing(pos)
    BY <1>1, <1>3, <2>2 DEF Placing
  <2>4. /\ Graded /\ availableHeight(chart) >= 0
        /\ nrOfBars(chart) > 0 => barWidth(chart) > 0 /\ Fitting(chart)
        /\ chart.opts.detectAnnotateOnFullLine => \A a \in 1 .. axis : ~scales[a].logarithmic
    BY <1>3 DEF Findable
  <2>5. (dbAxis => axis = 2) /\ \A a \in 1 .. axis : Rising(scales[a])
    BY <1>3, <2>4 DEF PlaceIInv
  <2>6. Laid
    BY <2>3, <2>4, <2>5, AxisIs DEF Laid
  <2>7. QED
    BY <1>1, <2>4, <2>6, MarkAlone
<1>4. QED
  BY <1>2, <1>3

(* The mouse handler leaves the width of a segment alone. *)
LEMMA SolidBefore ==
  ASSUME LinkIInv, FindIInv, pc = "done", UNCHANGED <<chart, pos, annotate>>,
         NEW n \in 1 .. Len(annotate), NEW click, doMouseAction(n, click), Solid(annotate[n])'
  PROVE  Solid(annotate[n])
<1> DEFINE e == annotate[n]
           k == e[3]
<1>1. Prepared(chart) /\ annotate = Annotations(chart) /\ n # 0
  BY DEF LinkIInv, FindIInv
<1>2. CASE Round(chart)
  <2> DEFINE hits == IF n = 0 THEN {} ELSE Found(chart, stat, pos, annotate, Middle(stat, pos, annotate[n]))
             T == {annotate[l][3] : l \in Looked(hits, click)}
  <2>1. stat' = Rewritten(stat, T)
    BY <1>1, <1>2 DEF doMouseAction, Rewritten
  <2> HIDE DEF T
  <2>2. PICK S \in SUBSET (1 .. chart.labels) : stat = Touched(chart, S)
    BY <1>1, <1>2, LinkRound
  <2>3. PICK R \in SUBSET (1 .. chart.labels) : stat' = Touched(chart, R)
    BY <1>1, <2>1, <2>2, MouseTouches
  <2>4. e[1] = "ARC" /\ k \in InPie(chart)
    BY <1>1, <1>2, PieAnnotations
  <2>5. stat[k].segmentAngle = Segment(chart, k) /\ stat'[k].segmentAngle = Segment(chart, k)
    <3> HIDE DEF k
    <3>1. Touched(chart, S)[k].segmentAngle = Segment(chart, k) /\ Touched(chart, R)[k].segmentAngle = Segment(chart, k)
      BY <1>1, <2>4, TouchedIs
    <3>2. QED
      BY <2>2, <2>3, <3>1
  <2>6. stat'[k].segmentAngle > 0
    BY <2>4 DEF Solid
  <2>7. QED
    BY <2>4, <2>5, <2>6 DEF Solid
<1>3. CASE ~Round(chart)
  <2>1. stat' = stat
    BY <1>3 DEF doMouseAction
  <2>2. QED
    BY <2>1 DEF Solid
<1>4. QED
  BY <1>2, <1>3

(* A mouse event keeps the invariant. *)
LEMMA FindMouse ==
  ASSUME ScaleIInv, LinkIInv, PlaceIInv, FindIInv, pc \in {"frame", "done"},
         UNCHANGED <<chart, pc, bounds, axis, scales, pos, annotate>>,
         NEW n \in 0 .. Len(annotate), NEW click \in BOOLEAN, doMouseAction(n, click)
  PROVE  FindIInv'
<1>1. mouse'.at = n
  BY DEF doMouseAction
<1>2. Prepared(chart) /\ (Round(chart)' <=> Round(chart)) /\ (Findable' <=> Findable)
  BY FindableKept DEF LinkIInv, Round
<1>3. annotate' = IF pc' = "done" THEN Annotations(chart)' ELSE <<>>
  BY DEF FindIInv
<1>4. pc' \in {"frame", "done"} /\ ~Round(chart)' => pos' # <<>>
  BY <1>2 DEF FindIInv
<1>5. annotate \in Seq(Notes) /\ Len(annotate) \in Nat
  <2>1. Annotations(chart) \in Seq(Notes)
    BY <1>2, AnnotationsList
  <2>2. QED
    BY <2>1 DEF FindIInv
<1>6. n # 0 => pc = "done" /\ n \in 1 .. Len(annotate)
  <2>1. n # 0 => n \in 1 .. Len(annotate)
    BY <1>5
  <2>2. Len(<<>>) = 0
    OBVIOUS
  <2>3. pc # "done" => annotate = <<>>
    BY DEF FindIInv
  <2>4. QED
    BY <1>5, <2>1, <2>2, <2>3
<1>7. ASSUME n # 0, Findable PROVE MouseFinds'
  <2>1. pc = "done" /\ n \in 1 .. Len(annotate)
    BY <1>6, <1>7
  <2>2. CASE Solid(annotate[n])'
    <3>1. Solid(annotate[n])
      BY <2>1, <2>2, SolidBefore
    <3>2. Alone(n)
      BY <1>7, <2>1, <3>1, PartAlone
    <3>3. QED
      BY <1>5, <2>1, <3>2, MouseAlone
  <2>3. CASE ~Solid(annotate[n])'
    <3>1. ~Solid(annotate[mouse.at])'
      BY <1>1, <2>3
    <3>2. QED
      BY <3>1 DEF MouseFinds
  <2>4. QED
    BY <2>2, <2>3
<1>8. QED
  BY <1>1, <1>2, <1>3, <1>4, <1>6, <1>7 DEF FindIInv

(* Before the last frame there is nothing to find. *)
LEMMA FindQuiet ==
  ASSUME FindIInv, pc # "done", pc' # "done", UNCHANGED <<annotate, mouse>>,
         pc' = "frame" => Round(chart)' \/ pos' # <<>>
  PROVE  FindIInv'
<1>1. annotate' = <<>> /\ mouse'.at = 0
  BY DEF FindIInv
<1>2. QED
  BY <1>1 DEF FindIInv

(* Every step keeps the invariant. *)
LEMMA FindStep == ScaleIInv /\ LinkIInv /\ PlaceIInv /\ FindIInv /\ [Next]_vars => FindIInv'
<1> SUFFICES ASSUME ScaleIInv, LinkIInv, PlaceIInv, FindIInv, [Next]_vars PROVE FindIInv'
  OBVIOUS
<1>1. CASE Adapt \/ AdaptHorizontal \/ Pass1 \/ Bounds
  BY <1>1, FindQuiet DEF Adapt, AdaptHorizontal, Pass1, Bounds
<1>2. CASE Pass1Round
  <2>1. pc = "pass1" /\ pc' \in {"frame", "waiting"} /\ UNCHANGED <<chart, annotate, mouse>> /\ Round(chart)
    BY <1>2 DEF Pass1Round
  <2>2. Round(chart)'
    BY <2>1 DEF Round
  <2>3. QED
    BY <2>1, <2>2, FindQuiet
<1>3. CASE GivenScale \/ LogarithmicScale \/ FinishScale
  <2>1. pc \in {"scale", "adapt"} /\ pc' \in {"scale", "place"} /\ UNCHANGED <<annotate, mouse>>
    BY <1>3 DEF GivenScale, LogarithmicScale, FinishScale, ScaleIs
  <2>2. QED
    BY <2>1, FindQuiet
<1>4. CASE GuessScale \/ HalveStep \/ DoubleStep
  <2>1. pc \in {"scale", "adapt"} /\ pc' = "adapt" /\ UNCHANGED <<annotate, mouse>>
    BY <1>4 DEF GuessScale, HalveStep, DoubleStep
  <2>2. QED
    BY <2>1, FindQuiet
<1>5. CASE Place \/ PlaceHorizontal
  <2>1. pc = "place" /\ pc' = "frame" /\ UNCHANGED <<annotate, mouse>>
        /\ pos' = initPassVariableData_part2(chart, scales, bounds)
    BY <1>5 DEF Place, PlaceHorizontal, Placed
  <2>2. 1 \in Rows(chart)
    BY <2>1 DEF LinkIInv, Prepared, Rows
  <2>3. DOMAIN pos' = Rows(chart)
    BY <2>1 DEF initPassVariableData_part2
  <2>4. 1 \notin DOMAIN <<>>
    OBVIOUS
  <2>5. pos' # <<>>
    BY <2>2, <2>3, <2>4
  <2>6. QED
    BY <2>1, <2>5, FindQuiet
<1>6. CASE drawBars \/ drawPieSegments
  <2>1. /\ pc = "frame" /\ UNCHANGED <<chart, pos, mouse>>
        /\ annotate' = IF frame' = N THEN annotate \o Annotations(chart) ELSE annotate
        /\ pc' = IF frame' = N THEN "done" ELSE "frame"
    BY <1>6 DEF drawBars, drawPieSegments, FrameDrawn
  <2>2. annotate = <<>> /\ mouse.at = 0 /\ (~Round(chart) => pos # <<>>)
    BY <2>1 DEF FindIInv
  <2>3. Annotations(chart) \in Seq(Notes)
    BY <2>1, AnnotationsList DEF LinkIInv
  <2>4. <<>> \o Annotations(chart) = Annotations(chart)
    BY <2>3
  <2>5. Round(chart)' <=> Round(chart)
    BY <2>1 DEF Round
  <2>6. annotate' = IF pc' = "done" THEN Annotations(chart)' ELSE <<>>
    BY <2>1, <2>2, <2>4
  <2>7. mouse'.at = 0
    BY <2>1, <2>2
  <2>8. ~Round(chart)' => pos' # <<>>
    BY <2>1, <2>2, <2>5
  <2>9. QED
    BY <2>6, <2>7, <2>8 DEF FindIInv
<1>7. CASE MouseMove \/ MouseClick
  <2>1. pc \in {"frame", "done"} /\ UNCHANGED <<chart, pc, bounds, axis, scales, pos, annotate>>
    BY <1>7 DEF MouseMove, MouseClick
  <2>2. PICK n \in 0 .. Len(annotate), click \in BOOLEAN : doMouseAction(n, click)
    BY <1>7 DEF MouseMove, MouseClick
  <2>3. QED
    BY <2>1, <2>2, FindMouse
<1>8. CASE UNCHANGED vars
  <2>1. UNCHANGED <<chart, pc, stat, bounds, axis, scales, pos, annotate, mouse>>
    BY <1>8 DEF vars
  <2>2. (Findable' <=> Findable) /\ (Round(chart)' <=> Round(chart))
    BY <2>1, FindableKept DEF Round
  <2>3. Solid(annotate[mouse.at])' <=> Solid(annotate[mouse.at])
    BY <2>1 DEF Solid
  <2>4. MouseFinds' <=> MouseFinds
    BY <2>1, <2>3 DEF MouseFinds
  <2>5. Annotations(chart)' = Annotations(chart)
    BY <2>1
  <2>6. QED
    BY <2>1, <2>2, <2>4, <2>5 DEF FindIInv
<1>9. QED
  BY <1>1, <1>2, <1>3, <1>4, <1>5, <1>6, <1>7, <1>8 DEF Next, Pass, AdaptScale

(* Only the last frame leaves annotations, and what the mouse is at is      *)
(* found, whatever the mouse did before (drawBars, doMouseAction).          *)
THEOREM FindInvariant == Spec => []FindIInv
  BY FindStart, FindStep, ScaleInvariant, LinkInvariant, PlaceInvariant, PTL DEF Spec

(* The middle of a bar or of a segment belongs to it alone and a point is   *)
(* found where it is drawn, however often the mouse handler has rewritten   *)
(* the angles: for every pie, and for every chart whose scales can be laid  *)
(* out and whose bars fit into their columns, with any number of datasets   *)
(* and data (doMouseAction).                                                *)
THEOREM PartsAreFound == Spec => [](Findable => MouseFinds)
<1>1. FindIInv => (Findable => MouseFinds)
  BY DEF FindIInv, MouseFinds
<1>2. QED
  BY <1>1, FindInvariant, PTL

-----------------------------------------------------------------------------
(* The animation of a line. *)

(* The number of datasets or data before the first one that is animated. *)
LEMMA BeginIs ==
  ASSUME NEW x \in Int
  PROVE  Begin(x) \in Nat /\ \A i \in Nat \ {0} : i - 1 < Begin(x) <=> i < x
<1> DEFINE y == x - 1
<1>1. y \in Int /\ Begin(x) = Max({0, y})
  BY DEF Begin
<1>2. Max({0, y}) = IF 0 >= y THEN 0 ELSE y
  BY <1>1, MaxMinTwo
<1>3. QED
  BY <1>1, <1>2

(* What a frame shows of a datum: main of its value, and the line sub of    *)
(* the way to the next.                                                     *)
Showing(main, sub) == [main |-> main, sub |-> sub, anim |-> main + sub]
Idle(i, k) ==
  \/ ~Whole(i, k) /\ chart.opts.animationByDataset /\ Turns(i, k) < 0
  \/ Progress(i, k) # N /\ chart.labels - Begin(chart.opts.animationStartWithData) - 1 = 0

(* The cases of animationCorrection, by the progress of the dataset. *)
LEMMA AnimationIs ==
  ASSUME Prepared(chart), NEW i \in Rows(chart), NEW k \in 1 .. N, NEW j \in 1 .. chart.labels
  PROVE  LET v == Progress(i, k)
             sj == Begin(chart.opts.animationStartWithData)
             passed == v * (chart.labels - sj - 1) - (j - 1 - sj) * N
         IN  /\ v \in 0 .. N /\ sj \in Nat
             /\ Idle(i, k) => v # N
             /\ animationCorrection(chart, k, i, j) =
                  IF v = N \/ j <= sj THEN Showing(N, 0)
                  ELSE IF ~chart.opts.animationLeftToRight THEN Showing(v, 0)
                  ELSE IF Idle(i, k) \/ passed < 0 THEN Showing(0, 0)
                  ELSE Showing(N, IF passed <= N THEN passed ELSE 0)
<1> DEFINE v == Progress(i, k)
           o == chart.opts
           sd == Begin(o.animationStartWithDataset)
           sj == Begin(o.animationStartWithData)
           passed == v * (chart.labels - sj - 1) - (j - 1 - sj) * N
           own == Turns(i, k)
<1>0. N \in Nat \ {0} /\ k \in 1 .. N
  BY StepsAssumption DEF N
<1>1. /\ o.animationStartWithDataset \in Int /\ o.animationStartWithData \in Int
      /\ i \in Nat \ {0} /\ Len(chart.data) \in Nat /\ chart.labels \in Nat
  BY DEF Prepared, Framed, Rows
<1>2. /\ sd \in Nat /\ sj \in Nat
      /\ i - 1 < sd <=> i < o.animationStartWithDataset
  BY <1>1, BeginIs
<1>3. own \in Int
  BY <1>0, <1>1, <1>2 DEF Turns
<1>4. Whole(i, k) <=> k >= N \/ i - 1 < sd
  BY <1>0, <1>1, <1>2 DEF Whole
<1> DEFINE w == Whole(i, k)
           by == o.animationByDataset
           clamp == IF own < 0 THEN 0 ELSE IF own > N THEN N ELSE own
<1>5. v = IF w THEN N ELSE IF by THEN clamp ELSE k
  <2>1. Max({0, Min({N, own})}) = clamp
    <3> HIDE DEF own
    <3>1. Min({N, own}) = IF N <= own THEN N ELSE own
      BY <1>0, <1>3, MaxMinTwo
    <3> DEFINE m == Min({N, own})
    <3>2. m \in Int
      BY <1>0, <1>3, <3>1
    <3> HIDE DEF m
    <3>3. Max({0, m}) = IF 0 >= m THEN 0 ELSE m
      BY <3>2, MaxMinTwo
    <3>4. QED
      BY <1>0, <1>3, <3>1, <3>3 DEF m
  <2>2. QED
    BY <2>1 DEF Progress
<1> DEFINE none == chart.labels - sj - 1 = 0
<1>6. Idle(i, k) <=> (~w /\ by /\ own < 0) \/ (v # N /\ none)
  BY DEF Idle
<1> DEFINE ready == k >= N \/ i - 1 < sd \/ j - 1 < sj
           byDataset == ~ready /\ by
           started == ~byDataset \/ (own >= 0 /\ own < N)
           value == IF byDataset THEN own ELSE k
           late == value * (chart.labels - sj - 1) - (j - 1 - sj) * N
           over == byDataset /\ own >= N
           ac == animationCorrection(chart, k, i, j)
<1>7. ac = CASE ready \/ (byDataset /\ own >= N) -> Showing(N, 0)
             [] ~ready /\ ~started /\ ~(byDataset /\ own >= N) -> Showing(0, 0)
             [] ~ready /\ started /\ ~o.animationLeftToRight -> Showing(value, 0)
             [] ~ready /\ started /\ o.animationLeftToRight ->
                  IF none \/ late < 0 THEN Showing(0, 0) ELSE Showing(N, IF late <= N THEN late ELSE 0)
  BY DEF animationCorrection, Showing, Begin, Turns
<1> HIDE DEF own, sd, sj, w, v, ac, none
<1>8. ready <=> w \/ j <= sj
  BY <1>2, <1>4 DEF w
<1>9. v \in 0 .. N /\ (Idle(i, k) => v # N)
  BY <1>0, <1>3, <1>5, <1>6
<1> HIDE DEF ready
<1>10. (ready \/ over) <=> (v = N \/ j <= sj)
  BY <1>0, <1>3, <1>4, <1>5, <1>8 DEF w
<1>11. ~(ready \/ over) => (started => value = v /\ (none <=> Idle(i, k))) /\ (~started => v = 0 /\ Idle(i, k))
  <2> SUFFICES ASSUME ~(ready \/ over)
               PROVE  (started => value = v /\ (none <=> Idle(i, k))) /\ (~started => v = 0 /\ Idle(i, k))
    OBVIOUS
  <2>1. ~w /\ (byDataset <=> by) /\ (by => ~(own >= N)) /\ v # N
    BY <1>8, <1>10
  <2>2. CASE by
    BY <1>0, <1>3, <1>5, <1>6, <2>1, <2>2
  <2>3. CASE ~by
    BY <1>5, <1>6, <2>1, <2>3
  <2>4. QED
    BY <2>2, <2>3
<1> DEFINE ltr == o.animationLeftToRight
<1>12. ac = IF ready \/ over THEN Showing(N, 0)
            ELSE IF ~started THEN Showing(0, 0)
            ELSE IF ~ltr THEN Showing(value, 0)
            ELSE IF none \/ late < 0 THEN Showing(0, 0) ELSE Showing(N, IF late <= N THEN late ELSE 0)
  <2>1. over => ~started
    BY <1>0, <1>3
  <2> HIDE DEF started, late, value
  <2>2. QED
    BY <1>7, <2>1
<1>13. started /\ ~(ready \/ over) => late = passed
  BY <1>11
<1> HIDE DEF started, over, byDataset, value, late, passed, ltr
<1>14. ac = IF v = N \/ j <= sj THEN Showing(N, 0)
            ELSE IF ~ltr THEN Showing(v, 0)
            ELSE IF Idle(i, k) \/ passed < 0 THEN Showing(0, 0)
            ELSE Showing(N, IF passed <= N THEN passed ELSE 0)
  <2>1. CASE ready \/ over
    BY <1>10, <1>12, <2>1
  <2>2. CASE ~(ready \/ over) /\ ~started
    BY <1>10, <1>11, <1>12, <2>2
  <2>3. CASE ~(ready \/ over) /\ started
    BY <1>10, <1>11, <1>12, <1>13, <2>3
  <2>4. QED
    BY <2>1, <2>2, <2>3
<1>15. QED
  BY <1>2, <1>9, <1>14 DEF v, sj, ac, passed, ltr

(* The front of a line. *)
LEMMA FrontIs ==
  ASSUME NEW i, NEW k
  PROVE  LET v == Progress(i, k)
             sj == Begin(chart.opts.animationStartWithData)
             ltr == chart.opts.animationLeftToRight
             f == LineFront(i, k)
         IN  /\ (ltr /\ Idle(i, k)) \/ (~ltr /\ v = 0) => f = (sj - 1) * N
             /\ ltr /\ ~Idle(i, k) => f = sj * N + v * (chart.labels - 1 - sj)
             /\ ~ltr /\ v # 0 => f = (chart.labels - 1) * N
  BY DEF LineFront, Idle

(* What a frame shows of a datum, by the front of the line: all data up to  *)
(* the front are shown, and the last one before it leads up to it.          *)
Animates(i, k, j, main, sub) ==
  LET f == LineFront(i, k)
  IN  /\ main \in 0 .. N /\ sub \in 0 .. N
      /\ main > 0 <=> (j - 1) * N <= f
      /\ main = 0 => sub = 0
      /\ main > 0 => main = Part(i, k, j)
      /\ sub > 0 => f = (j - 1) * N + sub
      /\ j < chart.labels /\ main > 0 /\ sub = 0 => f = (j - 1) * N \/ f >= j * N

(* Every frame shows every datum that way. *)
LEMMA Animated ==
  ASSUME Prepared(chart), NEW i \in Rows(chart), NEW k \in 1 .. N, NEW j \in 1 .. chart.labels
  PROVE  /\ LineFront(i, k) \in Int
         /\ \E main, sub : /\ animationCorrection(chart, k, i, j) = Showing(main, sub)
                           /\ Animates(i, k, j, main, sub)
                           /\ sub > 0 => chart.opts.animationLeftToRight
<1> DEFINE v == Progress(i, k)
           sj == Begin(chart.opts.animationStartWithData)
           labels == chart.labels
           passed == v * (labels - sj - 1) - (j - 1 - sj) * N
           ltr == chart.opts.animationLeftToRight
           f == LineFront(i, k)
           ac == animationCorrection(chart, k, i, j)
           idle == Idle(i, k)
<1>1. N \in Nat \ {0} /\ labels \in Nat /\ j \in 1 .. labels
  BY StepsAssumption DEF N, Prepared
<1>2. /\ v \in 0 .. N /\ sj \in Nat
      /\ idle => v # N
      /\ ac = IF v = N \/ j <= sj THEN Showing(N, 0)
              ELSE IF ~ltr THEN Showing(v, 0)
              ELSE IF idle \/ passed < 0 THEN Showing(0, 0)
              ELSE Showing(N, IF passed <= N THEN passed ELSE 0)
  BY AnimationIs
<1>3. /\ (ltr /\ idle) \/ (~ltr /\ v = 0) => f = (sj - 1) * N
      /\ ltr /\ ~idle => f = sj * N + v * (labels - 1 - sj)
      /\ ~ltr /\ v # 0 => f = (labels - 1) * N
  BY FrontIs
<1>4. Part(i, k, j) = IF ltr \/ j <= sj THEN N ELSE v
  BY DEF Part
<1> DEFINE Is(main, sub) == ac = Showing(main, sub) /\ Animates(i, k, j, main, sub) /\ (sub > 0 => ltr)
<1> SUFFICES f \in Int /\ \E main, sub : Is(main, sub)
  OBVIOUS
<1> HIDE DEF v, sj, labels, ltr, f, ac, idle
<1>5. ASSUME NEW main \in 0 .. N, f \in Int, ac = Showing(main, 0), main > 0 <=> (j - 1) * N <= f,
             main > 0 => main = Part(i, k, j), j < labels /\ main > 0 => f = (j - 1) * N \/ f >= j * N
      PROVE  f \in Int /\ \E m, s : Is(m, s)
  <2>1. Animates(i, k, j, main, 0)
    BY <1>1, <1>5 DEF Animates, f, labels
  <2>2. Is(main, 0)
    BY <1>5, <2>1
  <2> HIDE DEF Is
  <2>3. QED
    BY <1>5, <2>2
<1>6. j \in Int /\ j >= 1 /\ j <= labels /\ j - 1 \in Int /\ labels - 1 \in Int
  BY <1>1
<1>7. (j - 1) * N <= (labels - 1) * N /\ (j < labels => j * N <= (labels - 1) * N)
  BY <1>1, <1>6, TimesGrows
<1>8. (labels - 1) * N \in Int /\ (sj - 1) * N \in Int /\ j * N \in Int /\ (j - 1) * N \in Int /\ sj * N \in Int
  BY <1>1, <1>2, <1>6
(* The line is complete. *)
<1>9. CASE f = (labels - 1) * N /\ v # 0 /\ (v = N \/ ~ltr)
  <2>1. v = N => Part(i, k, j) = N
    BY <1>4
  <2>2. ac = Showing(Part(i, k, j), 0) /\ Part(i, k, j) \in 0 .. N /\ Part(i, k, j) > 0
    BY <1>1, <1>2, <1>4, <1>9, <2>1
  <2>3. QED
    BY <1>5, <1>7, <1>8, <1>9, <2>2
(* The dataset has not begun. *)
<1>10. CASE f = (sj - 1) * N /\ ((~ltr /\ v = 0) \/ (ltr /\ idle))
  <2>1. v # N
    BY <1>1, <1>2, <1>10
  <2>2. j <= sj => (j - 1) * N <= (sj - 1) * N /\ (j < sj => j * N <= (sj - 1) * N)
    <3>1. sj \in Int /\ sj - 1 \in Int
      BY <1>2
    <3>2. QED
      BY <1>1, <1>6, <3>1, TimesGrows
  <2>3. CASE j <= sj
    <3>1. ac = Showing(N, 0) /\ Part(i, k, j) = N
      BY <1>2, <1>4, <2>3
    <3>2. j = sj \/ j < sj
      BY <1>2, <1>6, <2>3
    <3>3. N \in 0 .. N /\ N > 0
      BY <1>1
    <3>4. QED
      BY <1>5, <1>8, <1>10, <2>2, <2>3, <3>1, <3>2, <3>3
  <2>4. CASE ~(j <= sj)
    <3>1. ac = Showing(0, 0)
      BY <1>2, <1>10, <2>1, <2>4
    <3>2. sj * N <= (j - 1) * N /\ (sj - 1) * N < sj * N
      <4>1. sj <= j - 1 /\ sj \in Int
        BY <1>2, <1>6, <2>4
      <4>2. (sj - 1) * N = sj * N - N
        BY <1>1, <4>1
      <4>3. QED
        BY <1>1, <1>6, <1>8, <4>1, <4>2, TimesGrows
    <3>3. ~((j - 1) * N <= f)
      BY <1>8, <1>10, <3>2
    <3>4. 0 \in 0 .. N /\ ~(0 > 0)
      BY <1>1
    <3>5. QED
      BY <1>5, <1>8, <1>10, <3>1, <3>3, <3>4
  <2>5. QED
    BY <2>3, <2>4
(* The line moves from left to right. *)
<1>11. CASE ltr /\ ~idle
  <2>1. /\ f \in Int /\ f - (j - 1) * N = passed
        /\ j <= sj => (j - 1) * N <= f /\ (j < labels => j * N <= f)
        /\ v = N => f = (labels - 1) * N
    <3>1. f = sj * N + v * (labels - 1 - sj)
      BY <1>3, <1>11
    <3>2. QED
      BY <1>1, <1>2, <3>1, FrontMoves
  <2>2. Part(i, k, j) = N /\ N \in 0 .. N /\ N > 0
    BY <1>1, <1>4, <1>11
  <2>3. CASE j <= sj
    <3>1. ac = Showing(N, 0)
      BY <1>2, <2>3
    <3>2. QED
      BY <1>5, <2>1, <2>2, <2>3, <3>1
  <2>4. CASE v = N
    BY <1>9, <1>11, <2>1, <2>2, <2>4
  <2>5. CASE ~(j <= sj) /\ v # N
    <3> HIDE DEF passed
    <3>1. passed \in Int /\ f = (j - 1) * N + passed
      BY <1>8, <2>1
    <3>2. j * N = (j - 1) * N + N
      BY <1>1, <1>6
    <3>3. CASE passed < 0
      <4>1. ac = Showing(0, 0)
        BY <1>2, <1>11, <2>5, <3>3
      <4>2. ~((j - 1) * N <= f) /\ 0 \in 0 .. N /\ ~(0 > 0)
        BY <1>1, <1>8, <3>1, <3>3
      <4>3. QED
        BY <1>5, <2>1, <4>1, <4>2
    <3>4. CASE passed > N \/ passed = 0
      <4>1. ac = Showing(N, 0)
        BY <1>1, <1>2, <1>11, <2>5, <3>1, <3>4
      <4>2. (j - 1) * N <= f /\ (f = (j - 1) * N \/ f >= j * N)
        BY <1>1, <1>8, <3>1, <3>2, <3>4
      <4>3. QED
        BY <1>5, <2>1, <2>2, <4>1, <4>2
    <3>5. CASE passed > 0 /\ passed <= N
      <4>1. ac = Showing(N, passed)
        BY <1>1, <1>2, <1>11, <2>5, <3>1, <3>5
      <4>2. passed \in 0 .. N /\ (j - 1) * N <= f
        BY <1>1, <1>8, <3>1, <3>5
      <4>3. Animates(i, k, j, N, passed)
        BY <2>2, <3>1, <3>5, <4>2 DEF Animates, f
      <4>4. Is(N, passed)
        BY <1>11, <4>1, <4>3
      <4> HIDE DEF Is
      <4>5. QED
        BY <2>1, <4>4
    <3>6. QED
      BY <1>1, <3>1, <3>3, <3>4, <3>5
  <2>6. QED
    BY <2>3, <2>4, <2>5
<1> HIDE DEF Is, passed
<1>12. QED
  BY <1>1, <1>3, <1>9, <1>10, <1>11

(* What is behind a front that is not at the end is shown completely. *)
LEMMA ShownBehind ==
  ASSUME Prepared(chart), NEW i \in Rows(chart), NEW k \in 1 .. N, NEW j \in 1 .. chart.labels,
         (j - 1) * N <= LineFront(i, k),
         chart.opts.animationLeftToRight \/ LineFront(i, k) < (chart.labels - 1) * N
  PROVE  Part(i, k, j) = N
<1> DEFINE v == Progress(i, k)
           sj == Begin(chart.opts.animationStartWithData)
           ltr == chart.opts.animationLeftToRight
           f == LineFront(i, k)
<1>1. N \in Nat \ {0} /\ chart.labels \in Nat /\ j \in Int /\ v \in 0 .. N /\ sj \in Nat
  BY AnimationIs, StepsAssumption DEF N, Prepared
<1>2. Part(i, k, j) = IF ltr \/ j <= sj THEN N ELSE v
  BY DEF Part
<1>3. /\ ~ltr /\ v = 0 => f = (sj - 1) * N
      /\ ~ltr /\ v # 0 => f = (chart.labels - 1) * N
  BY FrontIs
<1> HIDE DEF v, sj, f, ltr
<1>4. CASE ltr
  BY <1>2, <1>4
<1>5. CASE ~ltr
  <2>1. f # (chart.labels - 1) * N
    <3>1. f < (chart.labels - 1) * N /\ (chart.labels - 1) * N \in Int
      BY <1>1, <1>5 DEF f, ltr
    <3>2. QED
      BY <3>1
  <2>2. f = (sj - 1) * N
    BY <1>3, <1>5, <2>1
  <2>3. j <= sj
    <3> SUFFICES ASSUME sj <= j - 1 PROVE FALSE
      BY <1>1
    <3>1. sj * N <= (j - 1) * N
      BY <1>1, TimesGrows
    <3>2. (sj - 1) * N = sj * N - N /\ sj * N \in Int /\ (j - 1) * N \in Int
      BY <1>1
    <3>3. (j - 1) * N <= (sj - 1) * N
      BY <2>2 DEF f
    <3>4. QED
      BY <1>1, <3>1, <3>2, <3>3
  <2>4. QED
    BY <1>2, <2>3
<1>6. QED
  BY <1>4, <1>5

-----------------------------------------------------------------------------
(* The points of a line. *)

(* The room of a label. *)
LEMMA HopIs ==
  ASSUME Prepared(chart), NEW i \in Rows(chart), NEW j \in Defined(chart, i)
  PROVE  valueHop(chart) \in Int
<1> DEFINE n == IF chart.type = "Line" THEN chart.labels - 1 ELSE chart.labels
           w == availableWidth(chart)
<1>1. chart.labels \in Nat \ {0} /\ (chart.type = "Line" => chart.labels # 1)
  BY DEF Prepared, Defined
<1>2. n \in Nat \ {0}
  BY <1>1
<1>3. w \in Int
  BY DEF Prepared, Framed, availableWidth, scaleTickSize
<1>4. valueHop(chart) = w \div n
  BY DEF valueHop
<1> HIDE DEF n, w
<1>5. QED
  BY <1>2, <1>3, <1>4, DivParts

(* A chart whose lines can be told apart, and one of its lines. *)
Hop == XUnit(chart) * valueHop(chart)
Lined(i, k) ==
  /\ Laid /\ valueHop(chart) # 0
  /\ i \in Rows(chart) /\ tpdraw(chart, i) = "Line" /\ Defined(chart, i) # {} /\ k \in 1 .. N

(* The points of a line are a hop apart. *)
LEMMA LineIs ==
  ASSUME NEW i, NEW k, Lined(i, k)
  PROVE  /\ Prepared(chart) /\ chart.labels \in Nat /\ N \in Nat \ {0} /\ Hop \in Int /\ Hop # 0
         /\ \A j \in 1 .. chart.labels : /\ pos[i][j].x \in Int /\ pos[i][j].y \in Int /\ pos[i][j].zero \in Int
                                         /\ pos[i][j].x = pos[i][1].x + Hop * (j - 1)
<1> USE DEF Lined
<1> DEFINE a == chart.axis[i]
           X == XUnit(chart)
           V == valueHop(chart)
           half == IF chart.type = "Bar" THEN (X \div 2) * V ELSE 0
<1>1. Prepared(chart) /\ pos = initPassVariableData_part2(chart, scales, bounds) /\ i \in Rows(chart)
  BY DEF Laid, Placing
<1>2. PICK d \in Defined(chart, i) : TRUE
  OBVIOUS
<1>3. chart.type \in {"Line", "Bar"}
  BY DEF tpdraw
<1>4. Rising(scales[a]) /\ d \in 1 .. chart.labels
  BY <1>1, <1>2, <1>3, ScaleOfDatum
<1>5. X \in Nat \ {0} /\ V \in Int /\ V # 0
  BY <1>1, <1>2, XUnitIs, HopIs
<1>6. Hop \in Int /\ Hop # 0
  <2> HIDE DEF X, V
  <2>1. X * V \in Int /\ X * V # 0
    BY <1>5
  <2>2. QED
    BY <2>1 DEF Hop, X, V
<1>7. half \in Int
  <2>1. X \div 2 \in Int
    BY <1>5
  <2> DEFINE h == X \div 2
  <2> HIDE DEF h, V
  <2>2. h * V \in Int
    BY <1>5, <2>1 DEF h
  <2>3. QED
    BY <2>2 DEF h
<1>8. ASSUME NEW j \in 1 .. chart.labels
      PROVE  /\ pos[i][j].x = Hop * (j - 1) + half
             /\ pos[i][j].y \in Int /\ pos[i][j].zero \in Int
  <2>1. pos[i][j] = LinePos(chart, scales, bounds, i, j)
    BY <1>1 DEF initPassVariableData_part2
  <2> DEFINE val == chart.data[i][j]
             z == zeroY(chart, scales[a], bounds[a])
             h == Height(chart, LineScale(chart, scales[a]), val)
  <2>2. val \in Int
    BY <1>1 DEF Prepared
  <2>3. z \in Int /\ h \in Nat
    BY <1>4, <2>2, ZeroIs, LineRises, HeightIs
  <2>4. /\ pos[i][j].x = Hop * (j - 1) + half /\ pos[i][j].zero = z
        /\ pos[i][j].y = IF val = Missing THEN 0 ELSE h
    BY <2>1 DEF LinePos, Hop
  <2> HIDE DEF val, z, h, half
  <2>5. QED
    BY <2>3, <2>4
<1>9. chart.labels \in Nat /\ 1 \in 1 .. chart.labels /\ N \in Nat \ {0}
  BY <1>1, <1>4, StepsAssumption DEF Prepared, N
<1> HIDE DEF half
<1>10. pos[i][1].x = half
  <2>1. pos[i][1].x = Hop * (1 - 1) + half
    BY <1>8, <1>9
  <2>2. QED
    BY <1>6, <1>7, <2>1
<1>11. ASSUME NEW j \in 1 .. chart.labels PROVE pos[i][j].x \in Int /\ pos[i][j].x = pos[i][1].x + Hop * (j - 1)
  <2>1. Hop * (j - 1) \in Int
    BY <1>6, <1>9
  <2>2. QED
    BY <1>7, <1>8, <1>10, <2>1
<1>12. QED
  BY <1>1, <1>6, <1>8, <1>9, <1>11

(* The point at the front f of the line from datum a to datum b. *)
Level(i, j) == PointAt(pos, i, j, N)[2]
FrontPoint(i, a, b, f) ==
  <<N * pos[i][1].x + Hop * f,
    Level(i, a) + ((f - (a - 1) * N) * (Level(i, b) - Level(i, a))) \div (N * (b - a))>>

(* A point of the line is at its place. *)
LEMMA PointPlace ==
  ASSUME NEW i, NEW k, Lined(i, k), NEW j \in 1 .. chart.labels, NEW m \in Int
  PROVE  /\ PointAt(pos, i, j, m) \in Int \X Int
         /\ PointAt(pos, i, j, m)[1] = N * pos[i][1].x + Hop * ((j - 1) * N)
         /\ Level(i, j) \in Int /\ PointAt(pos, i, j, N) = <<N * pos[i][1].x + Hop * ((j - 1) * N), Level(i, j)>>
<1> DEFINE p == pos[i][j]
           x == pos[i][1].x
           X == p.x
           Y == p.y
           Z == p.zero
           h == Hop
           n == N
<1>1. n \in Int /\ h \in Int /\ X \in Int /\ Y \in Int /\ Z \in Int /\ X = x + h * (j - 1)
  BY LineIs
<1>2. x \in Int /\ j \in Int
  <2>1. chart.labels \in Nat /\ 1 \in 1 .. chart.labels
    BY LineIs
  <2>2. QED
    BY <2>1, LineIs
<1>3. PointAt(pos, i, j, m) = <<n * X, 12 * (n * Z + m * (Y - Z))>>
  BY DEF PointAt
<1>4. PointAt(pos, i, j, N) = <<n * X, 12 * (n * Z + n * (Y - Z))>>
  BY DEF PointAt
<1> HIDE DEF X, Y, Z, x, h, n
<1>5. n * X = n * x + h * ((j - 1) * n) /\ n * X \in Int
  BY <1>1, <1>2
<1>6. 12 * (n * Z + m * (Y - Z)) \in Int /\ 12 * (n * Z + n * (Y - Z)) \in Int
  BY <1>1
<1>7. QED
  BY <1>3, <1>4, <1>5, <1>6 DEF Level, x, h, n

(* The front of a line is a point. *)
LEMMA FrontTyped ==
  ASSUME NEW i, NEW k, Lined(i, k), NEW a \in 1 .. chart.labels, NEW b \in 1 .. chart.labels, a < b, NEW f \in Int
  PROVE  FrontPoint(i, a, b, f) \in Int \X Int /\ FrontPoint(i, a, b, f)[1] = N * pos[i][1].x + Hop * f
<1> DEFINE u == Level(i, a)
           v == Level(i, b)
           n == N
           d == n * (b - a)
           e == (f - (a - 1) * n) * (v - u)
<1>1. u \in Int /\ v \in Int /\ n \in Nat \ {0} /\ pos[i][1].x \in Int /\ Hop \in Int /\ a \in Int /\ b \in Int
  <2>1. 1 \in 1 .. chart.labels
    BY LineIs
  <2>2. 0 \in Int
    OBVIOUS
  <2>3. u \in Int /\ v \in Int
    BY <2>2, PointPlace
  <2>4. QED
    BY <2>1, <2>3, LineIs
<1> HIDE DEF u, v, n
<1>2. d \in Nat \ {0} /\ e \in Int
  <2>1. b - a \in Nat \ {0}
    BY <1>1
  <2>2. d \in Nat \ {0}
    BY <1>1, <2>1
  <2>3. e \in Int
    BY <1>1
  <2>4. QED
    BY <2>2, <2>3
<1>3. FrontPoint(i, a, b, f) = <<n * pos[i][1].x + Hop * f, u + e \div d>>
  BY DEF FrontPoint, u, v, n
<1> HIDE DEF d, e
<1>4. e \div d \in Int
  BY <1>2, DivParts
<1>5. n * pos[i][1].x + Hop * f \in Int
  BY <1>1
<1>6. QED
  BY <1>1, <1>3, <1>4, <1>5 DEF n

(* Its ends are the two data. *)
LEMMA FrontEnds ==
  ASSUME NEW i, NEW k, Lined(i, k), NEW a \in 1 .. chart.labels, NEW b \in 1 .. chart.labels, a < b
  PROVE  /\ FrontPoint(i, a, b, (a - 1) * N) = PointAt(pos, i, a, N)
         /\ FrontPoint(i, a, b, (b - 1) * N) = PointAt(pos, i, b, N)
<1> DEFINE u == Level(i, a)
           v == Level(i, b)
           n == N
           d == n * (b - a)
<1>1. /\ u \in Int /\ v \in Int /\ n \in Nat \ {0} /\ a \in Int /\ b \in Int
      /\ PointAt(pos, i, a, N) = <<N * pos[i][1].x + Hop * ((a - 1) * N), u>>
      /\ PointAt(pos, i, b, N) = <<N * pos[i][1].x + Hop * ((b - 1) * N), v>>
  <2>1. 0 \in Int
    OBVIOUS
  <2>2. QED
    BY <2>1, PointPlace, LineIs
<1>2. ASSUME NEW f PROVE FrontPoint(i, a, b, f) = <<N * pos[i][1].x + Hop * f, u + ((f - (a - 1) * n) * (v - u)) \div d>>
  BY DEF FrontPoint
<1> HIDE DEF u, v, n
<1>3. d \in Nat \ {0}
  <2>1. b - a \in Nat \ {0}
    BY <1>1
  <2>2. QED
    BY <1>1, <2>1
<1>4. ((a - 1) * n - (a - 1) * n) * (v - u) = d * 0 /\ ((b - 1) * n - (a - 1) * n) * (v - u) = d * (v - u)
  BY <1>1
<1> HIDE DEF d
<1>5. (d * 0) \div d = 0
  BY <1>3
<1>6. (d * (v - u)) \div d = v - u
  <2> DEFINE q == v - u
  <2>1. q \in Int
    BY <1>1
  <2> HIDE DEF q
  <2>2. d * q <= d * q /\ d * q < d * q + d /\ d * q \in Int
    BY <1>3, <2>1
  <2>3. (d * q) \div d = q
    BY <1>3, <2>1, <2>2, DivIs
  <2>4. QED
    BY <2>3 DEF q
<1>7. u + 0 = u /\ u + (v - u) = v
  BY <1>1
<1>8. QED
  BY <1>1, <1>2, <1>4, <1>5, <1>6, <1>7 DEF n

(* A point between two data is that of its front. *)
LEMMA BetweenIs ==
  ASSUME NEW i, NEW k, Lined(i, k), NEW a \in 1 .. chart.labels, NEW b \in 1 .. chart.labels, a < b,
         NEW j \in 1 .. chart.labels, j < chart.labels, NEW s \in Int
  PROVE  PointBetween(pos, i, j, s, a, b, N) = FrontPoint(i, a, b, (j - 1) * N + s)
<1> DEFINE n == N
           x == pos[i][1].x
           h == Hop
           u == Level(i, a)
           v == Level(i, b)
<1>1. /\ n \in Int /\ x \in Int /\ h \in Int /\ a \in Int /\ j \in Int /\ chart.labels \in Nat
      /\ pos[i][j].x = x + h * (j - 1)
      /\ pos[i][j + 1].x = x + h * ((j + 1) - 1)
  <2>1. chart.labels \in Nat
    BY LineIs
  <2>2. 1 \in 1 .. chart.labels /\ j + 1 \in 1 .. chart.labels
    BY <2>1
  <2>3. QED
    BY <2>1, <2>2, LineIs
<1>2. PointBetween(pos, i, j, s, a, b, N) =
        <<n * pos[i][j].x + s * (pos[i][j + 1].x - pos[i][j].x),
          u + (((j - a) * n + s) * (v - u)) \div (n * (b - a))>>
  BY DEF PointBetween, Level
<1>3. FrontPoint(i, a, b, (j - 1) * N + s) =
        <<n * x + h * ((j - 1) * n + s),
          u + ((((j - 1) * n + s) - (a - 1) * n) * (v - u)) \div (n * (b - a))>>
  BY DEF FrontPoint
<1> DEFINE X == pos[i][j].x
           Z == pos[i][j + 1].x
<1> HIDE DEF n, x, h, u, v, X, Z
<1>4. n * X + s * (Z - X) = n * x + h * ((j - 1) * n + s)
  <2>1. X = x + h * (j - 1) /\ Z = x + h * ((j + 1) - 1)
    BY <1>1 DEF X, Z
  <2>2. QED
    BY <1>1, <2>1
<1>5. (j - a) * n + s = ((j - 1) * n + s) - (a - 1) * n
  BY <1>1
<1>6. QED
  BY <1>2, <1>3, <1>4, <1>5 DEF X, Z

(* A front beyond a datum is another point. *)
LEMMA FrontApart ==
  ASSUME NEW i, NEW k, Lined(i, k), NEW p \in Int \X Int, NEW j \in 1 .. chart.labels, NEW m \in Int, NEW f \in Int,
         p[1] = N * pos[i][1].x + Hop * f, f # (j - 1) * N
  PROVE  p # PointAt(pos, i, j, m)
<1> DEFINE g == (j - 1) * N
           x == N * pos[i][1].x
           h == Hop
<1>1. g \in Int /\ x \in Int /\ h \in Int /\ h # 0
  <2>1. chart.labels \in Nat /\ 1 \in 1 .. chart.labels
    BY LineIs
  <2>2. pos[i][1].x \in Int /\ N \in Int /\ Hop \in Int /\ Hop # 0 /\ j \in Int
    BY <2>1, LineIs
  <2>3. QED
    BY <2>2
<1>2. PointAt(pos, i, j, m)[1] = x + h * g
  BY PointPlace
<1> HIDE DEF g, x, h
<1>3. h * f # h * g
  <2>1. h * (f - g) # 0
    <3> DEFINE e == f - g
    <3>1. f # g
      BY Zenon DEF g
    <3>2. e \in Int /\ e # 0
      BY <1>1, <3>1
    <3> HIDE DEF e
    <3>3. h * e # 0
      BY <1>1, <3>2
    <3>4. QED
      BY <3>3 DEF e
  <2>2. h * f - h * g = h * (f - g) /\ h * f \in Int /\ h * g \in Int
    BY <1>1
  <2>3. QED
    BY <2>1, <2>2
<1>4. x + h * f # x + h * g
  BY <1>1, <1>3
<1>5. QED
  BY <1>2, <1>4 DEF x, h

-----------------------------------------------------------------------------
(* The data around a position of a line. *)

(* The last datum up to position j, and the first one after it. *)
Behind(i, j) == LastUp(Defined(chart, i), j)
Ahead(i, j) == FirstOf({m \in Defined(chart, i) : m > j})
FirstDatum(i) == FirstOf(Defined(chart, i))
LastDatum(i) == LastOf(Defined(chart, i))
OnLine(i, j) == j \in FirstDatum(i) .. LastDatum(i)

(* Where a line starts and ends. *)
LEMMA LineSpan ==
  ASSUME NEW i, NEW k, Lined(i, k)
  PROVE  /\ Defined(chart, i) \in SUBSET (1 .. chart.labels)
         /\ FirstDatum(i) \in Defined(chart, i) /\ LastDatum(i) \in Defined(chart, i)
         /\ \A c \in Defined(chart, i) : FirstDatum(i) <= c /\ c <= LastDatum(i)
         /\ chart.labels \in Nat /\ \A c \in Defined(chart, i) : c \in 1 .. chart.labels
         /\ FirstDatum(i) \in 1 .. chart.labels /\ LastDatum(i) \in 1 .. chart.labels
         /\ \A j : OnLine(i, j) => j \in 1 .. chart.labels /\ FirstDatum(i) <= j /\ j <= LastDatum(i)
<1> DEFINE d == Defined(chart, i)
<1>1. d \in SUBSET (1 .. chart.labels) /\ chart.labels \in Nat /\ d # {}
  BY LineIs, DefinedIs DEF Lined
<1> HIDE DEF d
<1>2. FirstOf(d) \in d /\ LastOf(d) \in d /\ \A c \in d : FirstOf(d) <= c /\ c <= LastOf(d)
  BY <1>1, FirstOfIs, LastOfIs
<1>3. \A c \in d : c \in 1 .. chart.labels
  BY <1>1
<1>4. FirstOf(d) \in 1 .. chart.labels /\ LastOf(d) \in 1 .. chart.labels
  BY <1>2, <1>3
<1>5. ASSUME NEW j \in FirstOf(d) .. LastOf(d)
      PROVE  j \in 1 .. chart.labels /\ FirstOf(d) <= j /\ j <= LastOf(d)
  <2> DEFINE f == FirstOf(d)
             l == LastOf(d)
  <2>1. f \in 1 .. chart.labels /\ l \in 1 .. chart.labels /\ j \in f .. l
    BY <1>4
  <2> HIDE DEF f, l
  <2>2. j \in 1 .. chart.labels /\ f <= j /\ j <= l
    BY <1>1, <2>1
  <2>3. QED
    BY <2>2 DEF f, l
<1>6. QED
  BY <1>1, <1>2, <1>3, <1>4, <1>5 DEF d, FirstDatum, LastDatum, OnLine

(* The data around a position, and what the statistics say of them. *)
LEMMA GapIs ==
  ASSUME NEW i, NEW k, Lined(i, k), NEW j, OnLine(i, j), j < LastDatum(i)
  PROVE  LET a == Behind(i, j)
             b == Ahead(i, j)
             d == Defined(chart, i)
         IN  /\ a \in d /\ b \in d /\ a <= j /\ j < b /\ a < b
             /\ \A c \in d : ~(a < c /\ c < b)
             /\ \A c \in d : c <= a \/ b <= c
<1> DEFINE d == Defined(chart, i)
           n == chart.labels
           S == {m \in d : m <= j}
           T == {m \in d : m > j}
<1>1. /\ d \in SUBSET (1 .. n) /\ n \in Nat /\ FirstDatum(i) \in d /\ LastDatum(i) \in d
  BY LineSpan
<1>2. j \in Int /\ (\A c \in d : c \in Int) /\ FirstDatum(i) <= j
  BY LineSpan
<1> HIDE DEF d
<1>3. S \in SUBSET (1 .. n) /\ T \in SUBSET (1 .. n) /\ FirstDatum(i) \in S /\ LastDatum(i) \in T
  BY <1>1, <1>2
<1>4. ASSUME NEW c \in d PROVE c \in S \/ c \in T
  BY <1>2
<1>5. (\A c \in S : c \in d /\ c <= j) /\ (\A c \in T : c \in d /\ c > j)
  OBVIOUS
<1> HIDE DEF S, T
<1>6. LastOf(S) \in S /\ (\A y \in S : y <= LastOf(S)) /\ FirstOf(T) \in T /\ (\A y \in T : FirstOf(T) <= y)
  BY <1>1, <1>3, FirstOfIs, LastOfIs
<1>7. Behind(i, j) = LastOf(S) /\ Ahead(i, j) = FirstOf(T)
  BY DEF Behind, Ahead, LastUp, S, T, d
<1>8. \A c \in d : c <= LastOf(S) \/ FirstOf(T) <= c
  BY <1>4, <1>6
<1>9. /\ LastOf(S) \in d /\ FirstOf(T) \in d /\ LastOf(S) <= j /\ j < FirstOf(T)
  BY <1>5, <1>6
<1> HIDE DEF n
<1>10. \A c \in d : ~(LastOf(S) < c /\ c < FirstOf(T))
  BY <1>2, <1>8, <1>9
<1>11. QED
  BY <1>2, <1>7, <1>8, <1>9, <1>10 DEF d

(* They move with the position. *)
LEMMA GapMoves ==
  ASSUME NEW i, NEW k, Lined(i, k), NEW j, OnLine(i, j)
  PROVE  /\ Behind(i, j) = IF j \in Defined(chart, i) THEN j ELSE Behind(i, j - 1)
         /\ Ahead(i, j - 1) = IF j \in Defined(chart, i) THEN j ELSE Ahead(i, j)
<1> DEFINE d == Defined(chart, i)
           n == chart.labels
<1>1. d \in SUBSET (1 .. n) /\ n \in Nat /\ FirstDatum(i) \in d /\ LastDatum(i) \in d
  BY LineSpan
<1> HIDE DEF d, n
<1>2. j \in 1 .. n /\ j \in Int /\ \A c \in d : c \in Int
  BY LineSpan DEF d, n
<1>3. LastUp(d, j) = IF j \in d THEN j ELSE LastUp(d, j - 1)
  BY <1>1, <1>2, LastUpTo
<1> DEFINE T == {m \in d : m > j - 1}
<1>4. CASE j \in d
  <2>0. (\A y \in d : y > j - 1 => j <= y) /\ j > j - 1
    BY <1>2
  <2>1. T \in SUBSET (1 .. n) /\ j \in T /\ \A y \in T : j <= y
    BY <1>1, <1>4, <2>0, Zenon
  <2> HIDE DEF T
  <2>2. FirstOf(T) = j
    BY <1>1, <2>1, FirstOfIs
  <2>3. QED
    BY <1>3, <1>4, <2>2 DEF Behind, Ahead, T, d
<1>5. CASE j \notin d
  <2>1. \A m \in d : m > j - 1 <=> m > j
    BY <1>2, <1>5
  <2>2. T = {m \in d : m > j}
    BY <2>1
  <2>3. QED
    BY <1>3, <1>5, <2>2 DEF Behind, Ahead, d
<1>6. QED
  BY <1>4, <1>5

(* What the statistics say of the data around a position. *)
LEMMA GapLinked ==
  ASSUME NEW i, NEW k, Lined(i, k), stat = PassData(chart), NEW j, OnLine(i, j)
  PROVE  /\ j < LastDatum(i) => stat[i][j + 1].prev = Behind(i, j) /\ stat[i][j].next = Ahead(i, j)
         /\ j = LastDatum(i) => stat[i][j].next = 0
         /\ stat[i][1].first = FirstDatum(i) /\ stat[i][1].last = LastDatum(i)
<1> DEFINE d == Defined(chart, i)
           n == chart.labels
<1>1. /\ d \in SUBSET (1 .. n) /\ n \in Nat /\ FirstDatum(i) \in d /\ LastDatum(i) \in d
      /\ \A c \in d : FirstDatum(i) <= c /\ c <= LastDatum(i)
  BY LineSpan
<1>2. Prepared(chart) /\ i \in Rows(chart) /\ tpdraw(chart, i) = "Line"
  BY LineIs DEF Lined
<1>3. ASSUME NEW l \in 1 .. n
      PROVE  /\ stat[i][l].first = FirstDatum(i) /\ stat[i][l].last = LastDatum(i)
             /\ stat[i][l].prev = LastUp(d, l - 1) /\ stat[i][l].next = NextUpTo(d, l, n)
  <2>1. FieldsRight(chart, Sets(chart, i - 1), i, l, stat[i][l])
    BY <1>2, DataLinked
  <2>2. Ends(chart, i, l) = d
    BY <1>2 DEF Ends
  <2>3. QED
    BY <2>1, <2>2 DEF FieldsRight, FirstDatum, LastDatum
<1> HIDE DEF d, n
<1>4. 1 \in 1 .. n /\ j \in 1 .. n /\ j \in Int /\ (j < LastDatum(i) => j + 1 \in 1 .. n) /\ \A c \in d : c \in Int
  <2>1. /\ j \in 1 .. n /\ (\A c \in d : c \in 1 .. n) /\ LastDatum(i) \in 1 .. n
        /\ FirstDatum(i) <= j /\ FirstDatum(i) \in 1 .. n
    BY LineSpan DEF d, n
  <2>2. QED
    BY <1>1, <2>1
<1>5. stat[i][j].next = FirstOf({m \in d : m > j})
  <2>1. j \in d \/ LastUp(d, j - 1) # 0
    <3> SUFFICES ASSUME j \notin d PROVE LastUp(d, j - 1) # 0
      OBVIOUS
    <3> DEFINE S == {m \in d : m <= j - 1}
    <3>1. FirstDatum(i) \in Int /\ FirstDatum(i) # j /\ FirstDatum(i) <= j
      BY <1>1, <1>4, LineSpan
    <3>0. FirstDatum(i) <= j - 1
      BY <1>4, <3>1
    <3>2. S \in SUBSET (1 .. n) /\ FirstDatum(i) \in S
      BY <1>1, <3>0, Zenon
    <3> HIDE DEF S
    <3>3. LastOf(S) \in S
      BY <1>1, <3>2, LastOfIs
    <3>4. LastOf(S) # 0
      BY <1>1, <3>2, <3>3
    <3>5. QED
      BY <3>4 DEF LastUp, S
  <2>2. {m \in d : j < m /\ m <= n} = {m \in d : m > j}
    <3>1. \A m \in d : (j < m /\ m <= n) <=> m > j
      BY <1>1, <1>4
    <3>2. QED
      BY <3>1
  <2>3. QED
    BY <1>3, <1>4, <2>1, <2>2 DEF NextUpTo, FirstIn
<1>6. ASSUME j = LastDatum(i) PROVE stat[i][j].next = 0
  <2>0. \A m \in d : m <= j
    BY <1>1, <1>6
  <2>1. \A m \in d : ~(m > j)
    BY <1>4, <2>0
  <2>3. {m \in d : m > j} = {}
    BY <2>1, Zenon
  <2>2. QED
    BY <1>5, <2>3 DEF FirstOf
<1>7. ASSUME j < LastDatum(i) PROVE stat[i][j + 1].prev = Behind(i, j)
  <2>1. stat[i][j + 1].prev = LastUp(d, (j + 1) - 1)
    BY <1>3, <1>4, <1>7
  <2>2. (j + 1) - 1 = j
    BY <1>4
  <2>3. QED
    BY <2>1, <2>2 DEF Behind, d
<1>8. QED
  BY <1>3, <1>4, <1>5, <1>6, <1>7 DEF Ahead, d

-----------------------------------------------------------------------------
(* The pieces of a line. *)

(* The place of a datum on the way of the front. *)
Way(j) == (j - 1) * N

(* The ways of two data are in their order, N apart for neighbours. *)
LEMMA WayIs ==
  ASSUME NEW j \in Int, NEW l \in Int
  PROVE  /\ N \in Nat \ {0} /\ Way(j) \in Int /\ Way(l) \in Int
         /\ (j < l) <=> (Way(j) < Way(l))
         /\ (j <= l) <=> (Way(j) <= Way(l))
         /\ Way(j + 1) = Way(j) + N
<1>1. N \in Nat \ {0}
  BY StepsAssumption DEF N
<1> DEFINE n == N
<1>2. (j - 1) * n \in Int /\ (l - 1) * n \in Int /\ ((j + 1) - 1) * n = (j - 1) * n + n
  BY <1>1
<1>3. ASSUME NEW a \in Int, NEW b \in Int, a < b PROVE (a - 1) * n < (b - 1) * n
  <2>1. (b - a) * n > 0
    <3> DEFINE e == b - a
    <3>1. e \in Nat \ {0}
      BY <1>3
    <3> HIDE DEF e, n
    <3>2. e * n > 0
      BY <1>1, <3>1 DEF n
    <3>3. QED
      BY <3>2 DEF e
  <2>2. (b - 1) * n - (a - 1) * n = (b - a) * n /\ (b - 1) * n \in Int /\ (a - 1) * n \in Int
    BY <1>1
  <2>3. QED
    BY <2>1, <2>2
<1> DEFINE A == (j - 1) * n
           B == (l - 1) * n
<1>4. (j < l => A < B) /\ (l < j => B < A) /\ (j = l => A = B)
  BY <1>3
<1>5. A \in Int /\ B \in Int
  BY <1>2
<1> HIDE DEF A, B
<1>6. ((j < l) <=> (A < B)) /\ ((j <= l) <=> (A <= B))
  BY <1>4, <1>5
<1>7. QED
  BY <1>1, <1>2, <1>6 DEF Way, A, B

(* The pieces up to position j that the front has reached. *)
Reached(i, k) == {q \in Joined(i) : LineFront(i, k) > Way(q[1])}
Drawn(i, k, j) == {Piece(i, k, p) : p \in {q \in Reached(i, k) : q[2] <= j}}

(* A pair that is joined. *)
LEMMA JoinedIs ==
  ASSUME NEW i, NEW k, Lined(i, k), NEW q \in Joined(i)
  PROVE  /\ q = <<q[1], q[2]>> /\ q[1] \in Defined(chart, i) /\ q[2] \in Defined(chart, i)
         /\ q[1] \in Int /\ q[2] \in Int /\ q[1] < q[2]
         /\ \A c \in Defined(chart, i) : c <= q[1] \/ q[2] <= c
<1> DEFINE d == Defined(chart, i)
<1>1. \A c \in d : c \in Int
  BY LineSpan
<1>2. q \in d \X d /\ q[1] < q[2] /\ ~\E c \in d : q[1] < c /\ c < q[2]
  BY DEF Joined
<1> HIDE DEF d
<1>3. q = <<q[1], q[2]>> /\ q[1] \in d /\ q[2] \in d
  BY <1>2
<1>4. q[1] \in Int /\ q[2] \in Int
  BY <1>1, <1>3
<1>5. \A c \in d : c <= q[1] \/ q[2] <= c
  BY <1>1, <1>2, <1>4
<1>6. QED
  BY <1>2, <1>3, <1>4, <1>5 DEF d

(* The data around a position are joined if they are next to each other, or *)
(* if the missing ones are extrapolated.                                    *)
LEMMA JoinedGap ==
  ASSUME NEW i, NEW k, Lined(i, k), NEW j, OnLine(i, j), j < LastDatum(i)
  PROVE  <<Behind(i, j), Ahead(i, j)>> \in Joined(i)
           <=> (Ahead(i, j) = Behind(i, j) + 1 \/ chart.opts.extrapolateMissingData)
<1> DEFINE a == Behind(i, j)
           b == Ahead(i, j)
           d == Defined(chart, i)
           q == <<a, b>>
<1>1. a \in d /\ b \in d /\ a < b /\ \A c \in d : ~(a < c /\ c < b)
  BY GapIs
<1> HIDE DEF a, b, d
<1>2. q \in d \X d /\ q[1] = a /\ q[2] = b
  BY <1>1
<1> HIDE DEF q
<1>3. q \in Joined(i) <=> (b = a + 1 \/ chart.opts.extrapolateMissingData)
  BY <1>1, <1>2 DEF Joined, d
<1>4. QED
  BY <1>3 DEF q, a, b

(* A pair that is joined is before a position, after it, or around it. *)
LEMMA JoinedWhere ==
  ASSUME NEW i, NEW k, Lined(i, k), NEW j, OnLine(i, j), j < LastDatum(i), NEW q \in Joined(i)
  PROVE  q[2] <= j \/ q[1] >= Ahead(i, j) \/ q = <<Behind(i, j), Ahead(i, j)>>
<1> DEFINE a == Behind(i, j)
           b == Ahead(i, j)
           d == Defined(chart, i)
<1>1. a \in d /\ b \in d /\ a <= j /\ j < b /\ \A c \in d : c <= a \/ b <= c
  BY GapIs
<1>2. /\ q = <<q[1], q[2]>> /\ q[1] \in d /\ q[2] \in d /\ q[1] \in Int /\ q[2] \in Int /\ q[1] < q[2]
      /\ \A c \in d : c <= q[1] \/ q[2] <= c
  BY JoinedIs
<1>3. a \in Int /\ b \in Int /\ j \in Int
  BY <1>1, LineSpan
<1> HIDE DEF a, b, d
<1>4. (q[1] <= a \/ b <= q[1]) /\ (q[2] <= a \/ b <= q[2]) /\ (a <= q[1] \/ q[2] <= a) /\ (b <= q[1] \/ q[2] <= b)
  BY <1>1, <1>2
<1> DEFINE x == q[1]
           y == q[2]
<1> HIDE DEF x, y
<1>5. y <= j \/ x >= b \/ (x = a /\ y = b)
  BY <1>1, <1>2, <1>3, <1>4 DEF x, y
<1>6. QED
  BY <1>2, <1>5 DEF x, y, a, b

(* No piece ends at the first datum, all at the last one. *)
LEMMA DrawnEnds ==
  ASSUME NEW i, NEW k, Lined(i, k)
  PROVE  Drawn(i, k, FirstDatum(i)) = {} /\ Drawn(i, k, LastDatum(i)) = LineSeen(i, k)
<1>1. ASSUME NEW q \in Joined(i) PROVE ~(q[2] <= FirstDatum(i)) /\ q[2] <= LastDatum(i)
  <2>1. q[1] \in Defined(chart, i) /\ q[2] \in Defined(chart, i) /\ q[1] \in Int /\ q[2] \in Int /\ q[1] < q[2]
    BY JoinedIs
  <2>2. FirstDatum(i) <= q[1] /\ q[2] <= LastDatum(i) /\ FirstDatum(i) \in Int /\ LastDatum(i) \in Int
    BY <2>1, LineSpan
  <2>3. QED
    BY <2>1, <2>2
<1>2. Reached(i, k) \subseteq Joined(i)
  BY DEF Reached
<1>3. {q \in Reached(i, k) : q[2] <= FirstDatum(i)} = {} /\ {q \in Reached(i, k) : q[2] <= LastDatum(i)} = Reached(i, k)
  BY <1>1, <1>2
<1>4. LineSeen(i, k) = {Piece(i, k, p) : p \in Reached(i, k)}
  BY DEF LineSeen, Reached, Way
<1>5. QED
  BY <1>3, <1>4 DEF Drawn

(* A missing datum ends no piece. *)
LEMMA DrawnMissing ==
  ASSUME NEW i, NEW k, Lined(i, k), NEW j, OnLine(i, j), j \notin Defined(chart, i)
  PROVE  Drawn(i, k, j) = Drawn(i, k, j - 1)
<1>1. j \in Int
  BY LineSpan
<1>2. ASSUME NEW q \in Joined(i) PROVE q[2] <= j <=> q[2] <= j - 1
  <2>1. q[2] \in Int /\ q[2] # j
    BY JoinedIs
  <2>2. QED
    BY <1>1, <2>1
<1>3. Reached(i, k) \subseteq Joined(i)
  BY DEF Reached
<1>4. {q \in Reached(i, k) : q[2] <= j} = {q \in Reached(i, k) : q[2] <= j - 1}
  BY <1>2, <1>3
<1>5. QED
  BY <1>4 DEF Drawn

(* What a piece adds. *)
With(S, i, k, q) == IF q \in Reached(i, k) THEN S \union {Piece(i, k, q)} ELSE S

(* A datum ends the piece from the one before it. *)
LEMMA DrawnDatum ==
  ASSUME NEW i, NEW k, Lined(i, k), NEW j, OnLine(i, j), j \in Defined(chart, i), j # FirstDatum(i)
  PROVE  Drawn(i, k, j) = With(Drawn(i, k, j - 1), i, k, <<Behind(i, j - 1), j>>)
<1> DEFINE g == <<Behind(i, j - 1), j>>
           R == Reached(i, k)
           S == {q \in R : q[2] <= j}
           T == {q \in R : q[2] <= j - 1}
<1>1. j \in Int /\ FirstDatum(i) <= j /\ j <= LastDatum(i) /\ FirstDatum(i) \in Int /\ LastDatum(i) \in Int
  BY LineSpan
<1>2. OnLine(i, j - 1) /\ j - 1 < LastDatum(i) /\ j - 1 \in Int
  BY <1>1 DEF OnLine
<1>3. Ahead(i, j - 1) = j
  BY GapMoves
<1>4. ASSUME NEW q \in Joined(i) PROVE q[2] <= j <=> (q[2] <= j - 1 \/ q = g)
  <2>1. q[2] <= j - 1 \/ q[1] >= j \/ q = g
    BY <1>2, <1>3, JoinedWhere
  <2>2. q[1] \in Int /\ q[2] \in Int /\ q[1] < q[2]
    BY JoinedIs
  <2>3. q = g => q[2] = j
    OBVIOUS
  <2> HIDE DEF g
  <2>4. QED
    BY <1>1, <2>1, <2>2, <2>3
<1>5. R \subseteq Joined(i)
  BY DEF Reached
<1> HIDE DEF g, R
<1>6. CASE g \in R
  <2>1. S = T \union {g}
    BY <1>4, <1>5, <1>6
  <2>2. QED
    BY <1>6, <2>1 DEF Drawn, With, R, g
<1>7. CASE g \notin R
  <2>1. S = T
    BY <1>4, <1>5, <1>7
  <2>2. QED
    BY <1>7, <2>1 DEF Drawn, With, R, g
<1>8. QED
  BY <1>6, <1>7

(* A front before a position cuts the line off in the piece around it. *)
LEMMA DrawnCut ==
  ASSUME NEW i, NEW k, Lined(i, k), NEW j, OnLine(i, j), j # FirstDatum(i),
         LineFront(i, k) \in Int, LineFront(i, k) < Way(j)
  PROVE  LineSeen(i, k) = With(Drawn(i, k, j - 1), i, k, <<Behind(i, j - 1), Ahead(i, j - 1)>>)
<1> DEFINE g == <<Behind(i, j - 1), Ahead(i, j - 1)>>
           R == Reached(i, k)
           T == {q \in R : q[2] <= j - 1}
           F == LineFront(i, k)
<1>1. j \in Int /\ FirstDatum(i) <= j /\ j <= LastDatum(i) /\ FirstDatum(i) \in Int /\ LastDatum(i) \in Int
  BY LineSpan
<1>2. OnLine(i, j - 1) /\ j - 1 < LastDatum(i) /\ j - 1 \in Int
  BY <1>1 DEF OnLine
<1>3. Ahead(i, j - 1) \in Int /\ j - 1 < Ahead(i, j - 1)
  BY <1>2, GapIs, LineSpan
<1>4. ASSUME NEW q \in R PROVE q[2] <= j - 1 \/ q = g
  <2>1. q \in Joined(i) /\ F > Way(q[1])
    BY DEF Reached
  <2>2. q[2] <= j - 1 \/ q[1] >= Ahead(i, j - 1) \/ q = g
    BY <1>2, <2>1, JoinedWhere
  <2>3. q[1] \in Int
    BY <2>1, JoinedIs
  <2>4. ~(q[1] >= Ahead(i, j - 1))
    <3> SUFFICES ASSUME j <= q[1] PROVE FALSE
      BY <1>1, <1>3, <2>3
    <3>1. Way(j) <= Way(q[1]) /\ Way(j) \in Int /\ Way(q[1]) \in Int
      BY <1>1, <2>3, WayIs
    <3> HIDE DEF F
    <3>2. F \in Int /\ F < Way(j)
      BY DEF F
    <3>3. QED
      BY <2>1, <3>1, <3>2
  <2>5. QED
    BY <2>2, <2>4
<1>5. LineSeen(i, k) = {Piece(i, k, p) : p \in R}
  BY DEF LineSeen, Reached, Way
<1>6. (g)[2] > j - 1
  BY <1>2, <1>3
<1> HIDE DEF g, R
<1>7. CASE g \in R
  <2>1. R = T \union {g}
    BY <1>4, <1>7
  <2>2. QED
    BY <1>5, <1>7, <2>1 DEF Drawn, With, R, g
<1>8. CASE g \notin R
  <2>1. R = T
    BY <1>4, <1>8
  <2>2. QED
    BY <1>5, <1>8, <2>1 DEF Drawn, With, R, g
<1>9. QED
  BY <1>7, <1>8

(* A front before the first datum shows nothing. *)
LEMMA NothingSeen ==
  ASSUME NEW i, NEW k, Lined(i, k), LineFront(i, k) \in Int, LineFront(i, k) < Way(FirstDatum(i))
  PROVE  LineSeen(i, k) = {}
<1> DEFINE F == LineFront(i, k)
<1>1. ASSUME NEW q \in Joined(i) PROVE ~(F > Way(q[1]))
  <2>1. q[1] \in Int /\ FirstDatum(i) \in Int /\ FirstDatum(i) <= q[1]
    BY JoinedIs, LineSpan
  <2>2. Way(FirstDatum(i)) <= Way(q[1]) /\ Way(FirstDatum(i)) \in Int /\ Way(q[1]) \in Int
    BY <2>1, WayIs
  <2> HIDE DEF F
  <2>3. F \in Int /\ F < Way(FirstDatum(i))
    BY DEF F
  <2>4. QED
    BY <2>2, <2>3
<1>2. {q \in Joined(i) : F > Way(q[1])} = {}
  BY <1>1
<1>3. QED
  BY <1>2 DEF LineSeen, Way

(* A piece ends at the front, or at its second datum. *)
LEMMA PieceEnd ==
  ASSUME NEW i, NEW k, Lined(i, k), NEW a \in 1 .. chart.labels, NEW b \in 1 .. chart.labels, a < b,
         LineFront(i, k) \in Int
  PROVE  /\ Way(b) <= LineFront(i, k) =>
              Piece(i, k, <<a, b>>) = <<PointAt(pos, i, a, Part(i, k, a)), PointAt(pos, i, b, Part(i, k, b))>>
         /\ /\ Way(a) <= LineFront(i, k) /\ LineFront(i, k) <= Way(b)
            /\ LineFront(i, k) = Way(b) => Part(i, k, b) = N
            => Piece(i, k, <<a, b>>) =
                 <<PointAt(pos, i, a, Part(i, k, a)), FrontPoint(i, a, b, LineFront(i, k))>>
<1> DEFINE F == LineFront(i, k)
           A == PointAt(pos, i, a, Part(i, k, a))
           B == PointAt(pos, i, b, Part(i, k, b))
           g == <<a, b>>
           n == N
           C == PointBetween(pos, i, 1 + F \div n, F % n, a, b, n)
<1>1. Piece(i, k, g) = <<A, IF F < Way(b) THEN C ELSE B>>
  BY DEF Piece, Way
<1>2. n \in Nat \ {0} /\ a \in Int /\ b \in Int /\ a >= 1 /\ b >= 1 /\ b <= chart.labels /\ chart.labels \in Nat /\ F \in Int
  BY LineIs
<1>3. Way(a) \in Int /\ Way(b) \in Int
  BY <1>2, WayIs
<1>4. ASSUME Way(b) <= F PROVE Piece(i, k, g) = <<A, B>>
  <2> HIDE DEF F, A, B, C, g
  <2>1. ~(F < Way(b))
    BY <1>2, <1>3, <1>4
  <2>2. QED
    BY <1>1, <2>1
<1>5. ASSUME Way(a) <= F, F < Way(b) PROVE C = FrontPoint(i, a, b, F)
  <2> DEFINE q == F \div n
             r == F % n
  <2> HIDE DEF F, n, A, B
  <2>1. q \in Int /\ r \in Int /\ F = n * q + r /\ n * q <= F /\ F < n * q + n
    BY <1>2
  <2> HIDE DEF q, r
  <2>2. Way(1) <= Way(a)
    BY <1>2, WayIs
  <2>3. Way(1) = 0
    BY <1>2 DEF Way, n
  <2>4. 0 <= q
    <3> SUFFICES ASSUME q + 1 <= 0 PROVE FALSE
      BY <2>1
    <3>1. (q + 1) * n <= 0 * n
      BY <1>2, <2>1, TimesGrows
    <3>2. (q + 1) * n = n * q + n /\ 0 * n = 0 /\ n * q \in Int
      BY <1>2, <2>1
    <3>3. QED
      BY <1>2, <1>3, <1>5, <2>1, <2>2, <2>3, <3>1, <3>2
  <2>5. q < b - 1
    <3> SUFFICES ASSUME b - 1 <= q PROVE FALSE
      BY <1>2, <2>1
    <3>1. (b - 1) * n <= q * n
      BY <1>2, <2>1, TimesGrows
    <3>2. q * n = n * q /\ n * q \in Int /\ (b - 1) * n = Way(b)
      BY <1>2, <2>1 DEF Way, n
    <3>3. QED
      BY <1>2, <1>3, <1>5, <2>1, <3>1, <3>2
  <2> DEFINE l == 1 + q
  <2>6. l \in 1 .. chart.labels /\ l < chart.labels
    BY <1>2, <2>1, <2>4, <2>5
  <2>7. (l - 1) * n + r = F
    BY <1>2, <2>1
  <2> HIDE DEF l
  <2>8. PointBetween(pos, i, l, r, a, b, N) = FrontPoint(i, a, b, (l - 1) * N + r)
    BY <2>1, <2>6, BetweenIs
  <2>9. QED
    BY <2>7, <2>8 DEF l, q, r, n
<1>6. ASSUME Way(a) <= F, F <= Way(b), F = Way(b) => Part(i, k, b) = N
      PROVE  Piece(i, k, g) = <<A, FrontPoint(i, a, b, F)>>
  <2>1. CASE F < Way(b)
    <3> HIDE DEF A, B, C, F, g
    <3>1. QED
      BY <1>1, <1>5, <1>6, <2>1
  <2>2. CASE F = Way(b)
    <3>1. FrontPoint(i, a, b, F) = PointAt(pos, i, b, N)
      BY <2>2, FrontEnds DEF Way
    <3>2. B = PointAt(pos, i, b, N)
      BY <1>6, <2>2
    <3>3. ~(F < Way(b))
      BY <1>3, <2>2
    <3> HIDE DEF A, B, C, F, g
    <3>4. QED
      BY <1>1, <3>1, <3>2, <3>3
  <2>3. QED
    BY <1>2, <1>3, <1>6, <2>1, <2>2
<1>7. QED
  BY <1>4, <1>6

-----------------------------------------------------------------------------
(* What a frame shows of a datum, along the way of the front. *)
Now(i, k, j) == animationCorrection(chart, k, i, j)

(* It is shown once the front is at the datum, and leads up to the front.   *)
LEMMA NowIs ==
  ASSUME NEW i, NEW k, Lined(i, k), NEW j \in 1 .. chart.labels
  PROVE  LET F == LineFront(i, k)
             now == Now(i, k, j)
         IN  /\ F \in Int /\ Way(j) \in Int /\ now = Showing(now.main, now.sub) /\ now.sub \in 0 .. N
             /\ F < Way(j) => now = Showing(0, 0)
             /\ Way(j) <= F => now.main = Part(i, k, j) /\ now.main \in 1 .. N /\ now.anim # 0
             /\ now.sub > 0 => F = Way(j) + now.sub /\ chart.opts.animationLeftToRight
             /\ j < chart.labels /\ Way(j) <= F /\ now.sub = 0 => F = Way(j) \/ F >= Way(j + 1)
<1> DEFINE F == LineFront(i, k)
           now == Now(i, k, j)
<1>1. Prepared(chart) /\ i \in Rows(chart) /\ k \in 1 .. N /\ N \in Nat \ {0} /\ chart.labels \in Nat
  BY LineIs DEF Lined
<1>2. F \in Int
  BY <1>1, Animated
<1>3. PICK main, sub : /\ animationCorrection(chart, k, i, j) = Showing(main, sub)
                       /\ Animates(i, k, j, main, sub)
                       /\ sub > 0 => chart.opts.animationLeftToRight
  BY <1>1, Animated
<1>4. now.main = main /\ now.sub = sub /\ now.anim = main + sub /\ now = Showing(main, sub)
  BY <1>3 DEF Now, Showing
<1>5. Way(j) \in Int
  BY <1>1, WayIs
<1>6. (j - 1) * N = Way(j) /\ j * N = Way(j + 1)
  <2>1. j = (j + 1) - 1
    BY <1>1
  <2>2. QED
    BY <2>1 DEF Way
<1>7. /\ main \in 0 .. N /\ sub \in 0 .. N
      /\ main > 0 <=> Way(j) <= F
      /\ main = 0 => sub = 0
      /\ main > 0 => main = Part(i, k, j)
      /\ sub > 0 => F = Way(j) + sub
      /\ j < chart.labels /\ main > 0 /\ sub = 0 => F = Way(j) \/ F >= Way(j + 1)
  BY <1>3, <1>6 DEF Animates
<1> HIDE DEF F, now
<1>8. F < Way(j) => main = 0 /\ sub = 0
  BY <1>1, <1>2, <1>5, <1>7
<1>9. Way(j) <= F => main \in 1 .. N /\ main + sub # 0
  BY <1>1, <1>7
<1>10. /\ now = Showing(now.main, now.sub) /\ now.sub \in 0 .. N
       /\ F < Way(j) => now = Showing(0, 0)
  BY <1>4, <1>7, <1>8
<1>11. Way(j) <= F => now.main = Part(i, k, j) /\ now.main \in 1 .. N /\ now.anim # 0
  BY <1>4, <1>7, <1>9
<1>12. now.sub > 0 => F = Way(j) + now.sub /\ chart.opts.animationLeftToRight
  BY <1>3, <1>4, <1>7
<1>13. j < chart.labels /\ Way(j) <= F /\ now.sub = 0 => F = Way(j) \/ F >= Way(j + 1)
  BY <1>4, <1>7
<1>14. QED
  BY <1>2, <1>5, <1>10, <1>11, <1>12, <1>13 DEF F, now

(* Behind a front that has not come to the end the data are shown whole. *)
LEMMA WholeBehind ==
  ASSUME NEW i, NEW k, Lined(i, k), NEW j \in 1 .. chart.labels, NEW l \in 1 .. chart.labels,
         Way(j) <= LineFront(i, k), LineFront(i, k) < Way(l)
  PROVE  Part(i, k, j) = N
<1> DEFINE F == LineFront(i, k)
           L == chart.labels
<1>1. Prepared(chart) /\ i \in Rows(chart) /\ k \in 1 .. N /\ chart.labels \in Nat
  BY LineIs DEF Lined
<1>2. F \in Int
  BY NowIs
<1>3. Way(l) <= Way(L) /\ Way(l) \in Int /\ Way(L) \in Int
  <2>1. l \in Int /\ L \in Int /\ l <= L
    BY <1>1
  <2> HIDE DEF L
  <2>2. QED
    BY <2>1, WayIs
<1>4. F < Way(L)
  <2> HIDE DEF F, L
  <2>1. F < Way(l)
    BY DEF F
  <2>2. QED
    BY <1>2, <1>3, <2>1
<1>5. QED
  BY <1>1, <1>4, ShownBehind DEF Way

-----------------------------------------------------------------------------
(* The steps of the path. *)

Acc(S, p, f, m) == [segments |-> S, at |-> p, firstpt |-> f, prev |-> m]
Traced(S, p, q) == IF p = q THEN S ELSE S \union {<<p, q>>}
Broken == [main |-> 0, sub |-> 0, anim |-> NotSet]

(* A change of what was shown last. *)
LEMMA AccPrev ==
  ASSUME NEW S, NEW p, NEW f, NEW m, NEW n
  PROVE  [Acc(S, p, f, m) EXCEPT !.prev = n] = Acc(S, p, f, n)
  BY DEF Acc

(* A change of where the line began. *)
LEMMA AccFirst ==
  ASSUME NEW S, NEW p, NEW f, NEW m, NEW n
  PROVE  [Acc(S, p, f, m) EXCEPT !.firstpt = n] = Acc(S, p, n, m)
  BY DEF Acc

(* A change of the point the path is at. *)
LEMMA AccAt ==
  ASSUME NEW S, NEW p, NEW f, NEW m, NEW n
  PROVE  [Acc(S, p, f, m) EXCEPT !.at = n] = Acc(S, n, f, m)
  BY DEF Acc

(* A change of the segments. *)
LEMMA AccSegments ==
  ASSUME NEW S, NEW p, NEW f, NEW m, NEW n
  PROVE  [Acc(S, p, f, m) EXCEPT !.segments = n] = Acc(n, p, f, m)
  BY DEF Acc

(* The parts of a path. *)
LEMMA AccIs ==
  ASSUME NEW S, NEW p, NEW f, NEW m
  PROVE  /\ Acc(S, p, f, m).segments = S /\ Acc(S, p, f, m).at = p
         /\ Acc(S, p, f, m).firstpt = f /\ Acc(S, p, f, m).prev = m
  BY DEF Acc

(* A trace adds a segment, unless it leads nowhere. *)
LEMMA TraceIs ==
  ASSUME NEW S, NEW p, NEW f, NEW m, NEW q
  PROVE  TraceLine(Acc(S, p, f, m), q) = Acc(Traced(S, p, q), q, f, m)
<1> DEFINE x == Acc(S, p, f, m)
           y == Acc(S, q, f, m)
<1>1. x.at = p /\ x.segments = S /\ [x EXCEPT !.at = q] = y
  BY AccIs, AccAt
<1> HIDE DEF x
<1>2. TraceLine(x, q) = [y EXCEPT !.segments = IF x.at = q THEN x.segments ELSE x.segments \union {<<x.at, q>>}]
  BY <1>1, Zenon DEF TraceLine
<1>3. TraceLine(x, q) = [y EXCEPT !.segments = Traced(S, p, q)]
  BY <1>1, <1>2, Zenon DEF Traced
<1>4. [y EXCEPT !.segments = Traced(S, p, q)] = Acc(Traced(S, p, q), q, f, m)
  BY AccSegments
<1>5. QED
  BY <1>3, <1>4 DEF x

(* A move adds no segment. *)
LEMMA MoveIs ==
  ASSUME NEW S, NEW p, NEW f, NEW m, NEW q, NEW j
  PROVE  MoveTo(Acc(S, p, f, m), q, j) = Acc(S, q, j, m)
<1> DEFINE x == Acc(S, p, f, m)
           y == Acc(S, q, f, m)
<1>1. [x EXCEPT !.at = q] = y
  BY AccAt
<1> HIDE DEF x
<1>2. MoveTo(x, q, j) = [y EXCEPT !.firstpt = j]
  BY <1>1, Zenon DEF MoveTo
<1>3. [y EXCEPT !.firstpt = j] = Acc(S, q, j, m)
  BY AccFirst
<1>4. QED
  BY <1>2, <1>3 DEF x

(* The line has ended. *)
LEMMA StepEnded ==
  ASSUME NEW i, NEW k, NEW j, NEW S, NEW p, NEW f, NEW m, m.anim = 0, j > stat[i][1].first, ~(m.main > 0)
  PROVE  LineStep(chart, stat, pos, k, i, Acc(S, p, f, m), j) = Acc(S, p, f, m)
<1> DEFINE x == Acc(S, p, f, m)
<1>1. x.prev = m
  BY AccIs
<1> HIDE DEF x
<1>2. LineStep(chart, stat, pos, k, i, x, j) = x
  BY <1>1 DEF LineStep
<1>3. QED
  BY <1>2 DEF x

(* The line ends before datum j. *)
LEMMA StepFront ==
  ASSUME NEW i, NEW k, NEW j, NEW S, NEW p, NEW f, NEW m,
         m.anim # 0, m.main > 0, f # 0, Now(i, k, j).main = 0
  PROVE  LET q == PointBetween(pos, i, j - 1, m.sub, stat[i][j].prev, stat[i][j - 1].next, m.main)
         IN  LineStep(chart, stat, pos, k, i, Acc(S, p, f, m), j) =
               IF chart.opts.extrapolateMissingData THEN Acc(Traced(S, p, q), q, 0, Now(i, k, j))
               ELSE Acc(S, p, f, Now(i, k, j))
<1> DEFINE x == Acc(S, p, f, m)
           now == Now(i, k, j)
           q == PointBetween(pos, i, j - 1, m.sub, stat[i][j].prev, stat[i][j - 1].next, m.main)
<1>1. x.prev = m /\ x.firstpt = f
  BY AccIs
<1> HIDE DEF x
<1>2. LineStep(chart, stat, pos, k, i, x, j) = FrontStep(chart, stat, pos, i, j, now, x)
  BY <1>1 DEF LineStep, Now
<1>3. FrontStep(chart, stat, pos, i, j, now, x) =
        IF chart.opts.extrapolateMissingData THEN [TraceLine(x, q) EXCEPT !.firstpt = 0, !.prev = now]
        ELSE [x EXCEPT !.prev = now]
  BY <1>1 DEF FrontStep
<1> HIDE DEF now, q
<1>4. /\ TraceLine(x, q) = Acc(Traced(S, p, q), q, f, m)
      /\ [x EXCEPT !.prev = now] = Acc(S, p, f, now)
  BY TraceIs, AccPrev DEF x
<1>5. [TraceLine(x, q) EXCEPT !.firstpt = 0, !.prev = now] = Acc(Traced(S, p, q), q, 0, now)
  <2> DEFINE y == Acc(Traced(S, p, q), q, f, m)
             z == Acc(Traced(S, p, q), q, 0, m)
  <2>1. [y EXCEPT !.firstpt = 0] = z /\ [z EXCEPT !.prev = now] = Acc(Traced(S, p, q), q, 0, now)
    BY AccFirst, AccPrev
  <2> HIDE DEF y, z
  <2>2. [y EXCEPT !.firstpt = 0, !.prev = now] = [z EXCEPT !.prev = now]
    BY ONLY <2>1, Zenon
  <2>3. QED
    BY <1>4, <2>1, <2>2, Zenon DEF y
<1>6. QED
  BY <1>2, <1>3, <1>4, <1>5 DEF x, now, q

(* The path goes on. *)
GoesOn(i, k, j, f, m) ==
  ~(m.anim = 0 /\ j > stat[i][1].first) /\ ~(Now(i, k, j).main = 0 /\ m.main > 0 /\ f # 0)

(* A missing datum. *)
LEMMA StepMissing ==
  ASSUME NEW i, NEW k, NEW j, NEW S, NEW p, NEW f, NEW m, GoesOn(i, k, j, f, m), chart.data[i][j] = Missing
  PROVE  LET now == Now(i, k, j)
             q == PointBetween(pos, i, j, now.sub, stat[i][j + 1].prev, stat[i][j].next, N)
             X == chart.opts.extrapolateMissingData
             y == LineStep(chart, stat, pos, k, i, Acc(S, p, f, m), j)
         IN  /\ X /\ now.sub > 0 => y = Acc(Traced(S, p, q), q, f, now)
             /\ X /\ ~(now.sub > 0) => y = Acc(S, p, f, now)
             /\ ~X /\ f # 0 => y = Acc(S, p, 0, Broken)
             /\ ~X /\ f = 0 => y = Acc(S, p, f, now)
<1> DEFINE x == Acc(S, p, f, m)
           now == Now(i, k, j)
           q == PointBetween(pos, i, j, now.sub, stat[i][j + 1].prev, stat[i][j].next, N)
           X == chart.opts.extrapolateMissingData
           y == LineStep(chart, stat, pos, k, i, x, j)
<1>1. x.prev = m /\ x.firstpt = f
  BY AccIs
<1> HIDE DEF x
<1>2. y = MissingStep(chart, stat, pos, i, j, now, x)
  BY <1>1 DEF LineStep, Now, GoesOn
<1>3. MissingStep(chart, stat, pos, i, j, now, x) =
        CASE X /\ now.sub > 0 -> [TraceLine(x, q) EXCEPT !.prev = now]
          [] ~X /\ x.firstpt # 0 -> [x EXCEPT !.prev = Broken, !.firstpt = 0]
          [] OTHER -> [x EXCEPT !.prev = now]
  BY DEF MissingStep, Broken
<1> HIDE DEF now, q, X, y
<1>4. /\ TraceLine(x, q) = Acc(Traced(S, p, q), q, f, m)
      /\ [x EXCEPT !.prev = now] = Acc(S, p, f, now)
  BY TraceIs, AccPrev DEF x
<1>8. [x EXCEPT !.prev = Broken, !.firstpt = 0] = Acc(S, p, 0, Broken)
  <2> DEFINE z == Acc(S, p, f, Broken)
  <2>1. [x EXCEPT !.prev = Broken] = z /\ [z EXCEPT !.firstpt = 0] = Acc(S, p, 0, Broken)
    BY AccFirst, AccPrev DEF x
  <2> HIDE DEF z
  <2>2. [x EXCEPT !.prev = Broken, !.firstpt = 0] = [z EXCEPT !.firstpt = 0]
    BY ONLY <2>1, Zenon
  <2>3. QED
    BY <2>1, <2>2, Zenon
<1>5. [Acc(Traced(S, p, q), q, f, m) EXCEPT !.prev = now] = Acc(Traced(S, p, q), q, f, now)
  BY AccPrev
<1>6. /\ X /\ now.sub > 0 => y = Acc(Traced(S, p, q), q, f, now)
      /\ X /\ ~(now.sub > 0) => y = Acc(S, p, f, now)
      /\ ~X /\ f # 0 => y = Acc(S, p, 0, Broken)
      /\ ~X /\ f = 0 => y = Acc(S, p, f, now)
  BY <1>1, <1>2, <1>3, <1>4, <1>5, <1>8
<1>7. QED
  BY <1>6 DEF x, y, X, q, now

(* A datum. *)
LEMMA StepValue ==
  ASSUME NEW i, NEW k, NEW j, NEW S, NEW p, NEW f, NEW m, GoesOn(i, k, j, f, m), chart.data[i][j] # Missing
  PROVE  LET now == Now(i, k, j)
             P == PointAt(pos, i, j, now.main)
             q == PointBetween(pos, i, j, now.sub, stat[i][j + 1].prev, j + 1, N)
             T == IF f = 0 THEN S ELSE Traced(S, p, P)
             g == IF f = 0 THEN j ELSE f
             y == LineStep(chart, stat, pos, k, i, Acc(S, p, f, m), j)
         IN  y = IF now.sub > 0 /\ stat[i][j].next = j + 1 THEN Acc(Traced(T, P, q), q, g, now)
                 ELSE Acc(T, P, g, now)
<1> DEFINE x == Acc(S, p, f, m)
           now == Now(i, k, j)
           P == PointAt(pos, i, j, now.main)
           q == PointBetween(pos, i, j, now.sub, stat[i][j + 1].prev, j + 1, N)
           T == IF f = 0 THEN S ELSE Traced(S, p, P)
           g == IF f = 0 THEN j ELSE f
           y == LineStep(chart, stat, pos, k, i, x, j)
           on == now.sub > 0 /\ stat[i][j].next = j + 1
           z == IF x.firstpt = 0 THEN MoveTo(x, P, j) ELSE TraceLine(x, P)
<1>1. x.prev = m /\ x.firstpt = f
  BY AccIs
<1> HIDE DEF x
<1>2. y = ValueStep(chart, stat, pos, i, j, now, x)
  BY <1>1 DEF LineStep, Now, GoesOn
<1>3. ValueStep(chart, stat, pos, i, j, now, x) = [(IF on THEN TraceLine(z, q) ELSE z) EXCEPT !.prev = now]
  BY DEF ValueStep
<1> HIDE DEF now, P, q, y, on
<1>4. z = Acc(T, P, g, m)
  BY <1>1, TraceIs, MoveIs DEF x
<1> HIDE DEF T, g, z
<1>5. TraceLine(z, q) = Acc(Traced(T, P, q), q, g, m)
  BY <1>4, TraceIs
<1>6. /\ [Acc(T, P, g, m) EXCEPT !.prev = now] = Acc(T, P, g, now)
      /\ [Acc(Traced(T, P, q), q, g, m) EXCEPT !.prev = now] = Acc(Traced(T, P, q), q, g, now)
  BY AccPrev
<1>7. y = IF on THEN Acc(Traced(T, P, q), q, g, now) ELSE Acc(T, P, g, now)
  BY <1>2, <1>3, <1>4, <1>5, <1>6
<1>8. QED
  BY <1>7 DEF x, y, q, now, P, T, g, on

-----------------------------------------------------------------------------
(* The path after position j.  It is at the last datum, at the front beyond *)
(* it, in a gap that ends the line, or the line has ended for good.         *)

Extrapolated == chart.opts.extrapolateMissingData
Around(i, j) == <<Behind(i, j), Ahead(i, j)>>
Met(i, k, j) == PointAt(pos, i, Behind(i, j), Part(i, k, Behind(i, j)))
Cut(i, k, j) == FrontPoint(i, Behind(i, j), Ahead(i, j), LineFront(i, k))

HereIf(i, k, j) ==
  /\ Extrapolated \/ j \in Defined(chart, i)
  /\ ~(j \in Defined(chart, i) /\ j + 1 \in Defined(chart, i) /\ Now(i, k, j).sub > 0)
Here(i, k, j) ==
  {x \in {Acc(Drawn(i, k, j), Met(i, k, j), f, Now(i, k, j)) : f \in Nat \ {0}} : HereIf(i, k, j)}

ThereIf(i, k, j) ==
  /\ j < LastDatum(i) /\ Around(i, j) \in Reached(i, k)
  /\ LineFront(i, k) <= Way(j + 1) /\ chart.opts.animationLeftToRight
  /\ Extrapolated \/ j \in Defined(chart, i)
There(i, k, j) ==
  {x \in {Acc(Drawn(i, k, j) \union {Piece(i, k, Around(i, j))}, Cut(i, k, j), f, Now(i, k, j)) : f \in Nat \ {0}} :
     ThereIf(i, k, j)}

GapIf(i, j) == ~Extrapolated /\ j \notin Defined(chart, i)
Gap(i, k, j) ==
  {x \in {Acc(Drawn(i, k, j), p, 0, m) : p \in Int \X Int, m \in {Now(i, k, j), Broken}} : GapIf(i, j)}

Gone(i, k) == {Acc(LineSeen(i, k), p, f, Showing(0, 0)) : p \in Int \X Int, f \in Nat}

PathAt(i, k, j) ==
  IF Way(j) <= LineFront(i, k) THEN Here(i, k, j) \union There(i, k, j) \union Gap(i, k, j) ELSE Gone(i, k)

(* A position of a line, and the one before it. *)
After(i, k, j) == Lined(i, k) /\ stat = PassData(chart) /\ OnLine(i, j) /\ j # FirstDatum(i)

(* The data around the position before. *)
LEMMA AfterIs ==
  ASSUME NEW i, NEW k, NEW j, After(i, k, j)
  PROVE  /\ j \in Int /\ j \in 1 .. chart.labels /\ j - 1 \in 1 .. chart.labels /\ (j - 1) + 1 = j
         /\ Lined(i, k) /\ OnLine(i, j) /\ OnLine(i, j - 1) /\ j - 1 < LastDatum(i) /\ j > stat[i][1].first
         /\ Behind(i, j - 1) \in 1 .. chart.labels /\ Ahead(i, j - 1) \in 1 .. chart.labels
         /\ Behind(i, j - 1) < Ahead(i, j - 1) /\ Behind(i, j - 1) <= j - 1 /\ j <= Ahead(i, j - 1)
         /\ stat[i][j].prev = Behind(i, j - 1) /\ stat[i][j - 1].next = Ahead(i, j - 1)
<1> USE DEF After
<1> DEFINE l == j - 1
<1>1. /\ j \in 1 .. chart.labels /\ FirstDatum(i) <= j /\ j <= LastDatum(i) /\ chart.labels \in Nat
      /\ FirstDatum(i) \in 1 .. chart.labels /\ LastDatum(i) \in 1 .. chart.labels
      /\ \A c \in Defined(chart, i) : c \in 1 .. chart.labels
  BY LineSpan
<1>2. j \in Int /\ l \in Int /\ l + 1 = j /\ FirstDatum(i) < j /\ l < LastDatum(i) /\ l \in 1 .. chart.labels
  BY <1>1
<1>3. OnLine(i, l)
  BY <1>1, <1>2 DEF OnLine
<1> HIDE DEF l
<1>4. /\ Behind(i, l) \in Defined(chart, i) /\ Ahead(i, l) \in Defined(chart, i)
      /\ Behind(i, l) <= l /\ l < Ahead(i, l) /\ Behind(i, l) < Ahead(i, l)
  BY <1>2, <1>3, GapIs
<1>5. stat[i][l + 1].prev = Behind(i, l) /\ stat[i][l].next = Ahead(i, l) /\ stat[i][1].first = FirstDatum(i)
  BY <1>2, <1>3, GapLinked
<1>6. j > stat[i][1].first
  BY <1>1, <1>2, <1>5
<1>7. Behind(i, l) \in 1 .. chart.labels /\ Ahead(i, l) \in 1 .. chart.labels
  BY <1>1, <1>4
<1>8. j <= Ahead(i, l)
  BY <1>1, <1>2, <1>4, <1>7
<1>9. QED
  BY <1>1, <1>2, <1>3, <1>4, <1>5, <1>6, <1>7, <1>8 DEF l

(* The datum before. *)
LEMMA BehindIs ==
  ASSUME NEW i, NEW k, NEW j, After(i, k, j)
  PROVE  /\ j - 1 \in Defined(chart, i) => Behind(i, j - 1) = j - 1
         /\ j - 1 \notin Defined(chart, i) => Behind(i, j - 1) < j - 1
         /\ Behind(i, j) = IF j \in Defined(chart, i) THEN j ELSE Behind(i, j - 1)
         /\ Ahead(i, j - 1) = IF j \in Defined(chart, i) THEN j ELSE Ahead(i, j)
         /\ j \in Defined(chart, i) <=> Ahead(i, j - 1) = j
         /\ j \notin Defined(chart, i) => j < LastDatum(i)
<1>1. /\ Lined(i, k) /\ OnLine(i, j) /\ OnLine(i, j - 1) /\ j - 1 < LastDatum(i) /\ j \in Int
  BY AfterIs
<1>2. Behind(i, j - 1) \in Defined(chart, i) /\ Ahead(i, j - 1) \in Defined(chart, i) /\ Behind(i, j - 1) <= j - 1
  BY <1>1, GapIs
<1>3. Behind(i, j - 1) \in Int
  BY <1>1, <1>2, LineSpan
<1>4. /\ Behind(i, j) = IF j \in Defined(chart, i) THEN j ELSE Behind(i, j - 1)
      /\ Ahead(i, j - 1) = IF j \in Defined(chart, i) THEN j ELSE Ahead(i, j)
  BY <1>1, GapMoves
<1>5. j - 1 \in Defined(chart, i) => Behind(i, j - 1) = j - 1
  BY <1>1, GapMoves
<1>6. j - 1 \notin Defined(chart, i) => Behind(i, j - 1) < j - 1
  <2> DEFINE a == Behind(i, j - 1)
             l == j - 1
  <2>1. l \in Int
    BY <1>1
  <2> HIDE DEF a, l
  <2>2. a <= l /\ a \in Int /\ (l \notin Defined(chart, i) => a # l)
    BY <1>2, <1>3 DEF a, l
  <2>3. l \notin Defined(chart, i) => a < l
    BY <2>1, <2>2
  <2>4. QED
    BY <2>3 DEF a, l
<1>7. j \in Defined(chart, i) <=> Ahead(i, j - 1) = j
  BY <1>2, <1>4
<1>8. j \notin Defined(chart, i) => j < LastDatum(i)
  <2>1. j <= LastDatum(i) /\ LastDatum(i) \in Defined(chart, i) /\ LastDatum(i) \in Int
    BY <1>1, LineSpan
  <2>2. j # LastDatum(i) => j < LastDatum(i)
    BY <1>1, <2>1
  <2>3. QED
    BY <2>1, <2>2
<1>9. QED
  BY <1>4, <1>5, <1>6, <1>7, <1>8

(* The line has ended. *)
LEMMA StaysGone ==
  ASSUME NEW i, NEW k, NEW j, After(i, k, j), NEW x \in Gone(i, k)
  PROVE  LineStep(chart, stat, pos, k, i, x, j) \in Gone(i, k)
<1>1. PICK p \in Int \X Int, f \in Nat : x = Acc(LineSeen(i, k), p, f, Showing(0, 0))
  BY DEF Gone
<1>2. Showing(0, 0).anim = 0 /\ ~(Showing(0, 0).main > 0)
  BY DEF Showing
<1>3. j > stat[i][1].first
  BY AfterIs
<1>4. LineStep(chart, stat, pos, k, i, x, j) = x
  BY <1>1, <1>2, <1>3, StepEnded
<1>5. QED
  BY <1>4

(* A piece that is reached. *)
LEMMA ReachedIs ==
  ASSUME NEW i, NEW k, NEW j, After(i, k, j)
  PROVE  Around(i, j - 1) \in Reached(i, k)
           <=> /\ Extrapolated \/ Ahead(i, j - 1) = Behind(i, j - 1) + 1
               /\ LineFront(i, k) > Way(Behind(i, j - 1))
<1> DEFINE g == Around(i, j - 1)
<1>1. Lined(i, k) /\ OnLine(i, j - 1) /\ j - 1 < LastDatum(i)
  BY AfterIs
<1>2. g \in Joined(i) <=> (Ahead(i, j - 1) = Behind(i, j - 1) + 1 \/ Extrapolated)
  BY <1>1, JoinedGap DEF Around, Extrapolated
<1>3. g[1] = Behind(i, j - 1)
  BY DEF Around
<1> HIDE DEF g
<1>4. g \in Reached(i, k) <=> g \in Joined(i) /\ LineFront(i, k) > Way(g[1])
  BY DEF Reached
<1>5. QED
  BY <1>2, <1>3, <1>4 DEF g

(* The front lies between position j - 1 and position j. *)
LEMMA CutIs ==
  ASSUME NEW i, NEW k, NEW j, After(i, k, j), Way(j - 1) <= LineFront(i, k), LineFront(i, k) < Way(j)
  PROVE  LET l == j - 1
             now == Now(i, k, l)
             F == LineFront(i, k)
         IN  /\ Now(i, k, j) = Showing(0, 0) /\ now.main = N /\ now.main > 0 /\ now.anim # 0
             /\ now.sub \in Nat /\ F = Way(l) + now.sub
             /\ Met(i, k, l) \in Int \X Int /\ Cut(i, k, l) \in Int \X Int
             /\ F > Way(Behind(i, l)) => Met(i, k, l) # Cut(i, k, l)
             /\ ~(F > Way(Behind(i, l))) => Met(i, k, l) = Cut(i, k, l)
             /\ Piece(i, k, Around(i, l)) = <<Met(i, k, l), Cut(i, k, l)>>
             /\ PointBetween(pos, i, l, now.sub, stat[i][j].prev, stat[i][l].next, now.main) = Cut(i, k, l)
             /\ LineSeen(i, k) = With(Drawn(i, k, l), i, k, Around(i, l))
<1> DEFINE l == j - 1
           now == Now(i, k, l)
           F == LineFront(i, k)
           a == Behind(i, l)
           b == Ahead(i, l)
<1>1. /\ j \in Int /\ j \in 1 .. chart.labels /\ l \in 1 .. chart.labels /\ l + 1 = j
      /\ Lined(i, k) /\ OnLine(i, j)
      /\ a \in 1 .. chart.labels /\ b \in 1 .. chart.labels /\ a < b /\ a <= l /\ j <= b
      /\ stat[i][j].prev = a /\ stat[i][l].next = b
  BY AfterIs
<1>2. chart.labels \in Nat /\ N \in Nat \ {0}
  BY <1>1, LineIs
<1>3. /\ F \in Int /\ Way(l) \in Int /\ now.sub \in 0 .. N
      /\ now.main = Part(i, k, l) /\ now.anim # 0
      /\ now.sub > 0 => F = Way(l) + now.sub
      /\ l < chart.labels /\ now.sub = 0 => F = Way(l) \/ F >= Way(l + 1)
  BY <1>1, NowIs
<1>4. Now(i, k, j) = Showing(0, 0) /\ Way(j) \in Int
  BY <1>1, NowIs
<1> HIDE DEF l, a, b
<1>5. now.main = N
  <2>1. Part(i, k, l) = N
    BY <1>1, WholeBehind DEF l
  <2>2. QED
    BY <1>3, <2>1
<1>6. now.sub \in Nat /\ F = Way(l) + now.sub
  <2> DEFINE s == now.sub
  <2>1. Way(l + 1) = Way(j) /\ l < chart.labels
    BY <1>1, <1>2
  <2>2. F < Way(j)
    OBVIOUS
  <2> HIDE DEF s, F, now
  <2>3. s \in Nat
    BY <1>2, <1>3 DEF s
  <2>4. CASE s = 0
    BY <1>3, <1>4, <2>1, <2>2, <2>4 DEF s
  <2>5. CASE s > 0
    BY <1>3, <2>5 DEF s
  <2>6. QED
    BY <2>3, <2>4, <2>5 DEF s
<1>7. a \in Int /\ b \in Int /\ l \in Int
  BY <1>1
<1>8. Way(a) <= Way(l) /\ Way(j) <= Way(b) /\ Way(a) \in Int /\ Way(b) \in Int
  BY <1>1, <1>7, WayIs
<1>9. Way(a) <= F /\ F < Way(b) /\ F <= Way(b) /\ F # Way(b)
  <2> HIDE DEF F
  <2>1. Way(l) <= F /\ F < Way(j)
    BY DEF F, l
  <2>2. QED
    BY <1>3, <1>4, <1>8, <2>1
<1>10. Part(i, k, a) = N
  BY <1>1, <1>9, WholeBehind
<1> DEFINE M == Met(i, k, l)
           C == Cut(i, k, l)
<1>11. M = PointAt(pos, i, a, N) /\ C = FrontPoint(i, a, b, F)
  BY <1>10 DEF Met, Cut, a, b
<1>12. C \in Int \X Int /\ C[1] = N * pos[i][1].x + Hop * F
  BY <1>1, <1>3, <1>11, FrontTyped
<1>13. M \in Int \X Int
  BY <1>1, <1>2, <1>11, PointPlace
<1>14. F > Way(a) => M # C
  <2> SUFFICES ASSUME F > Way(a) PROVE M # C
    OBVIOUS
  <2>1. F # (a - 1) * N
    BY <1>3, <1>8 DEF Way
  <2>2. C # PointAt(pos, i, a, N)
    BY <1>1, <1>2, <1>3, <1>12, <2>1, FrontApart
  <2>3. QED
    BY <1>11, <2>2
<1>15. ~(F > Way(a)) => M = C
  <2> SUFFICES ASSUME ~(F > Way(a)) PROVE M = C
    OBVIOUS
  <2>1. F = (a - 1) * N
    BY <1>3, <1>8, <1>9 DEF Way
  <2>2. FrontPoint(i, a, b, (a - 1) * N) = PointAt(pos, i, a, N)
    BY <1>1, FrontEnds
  <2>3. QED
    BY <1>11, <2>1, <2>2
<1>16. Piece(i, k, Around(i, l)) = <<M, C>>
  <2>1. Piece(i, k, <<a, b>>) = <<PointAt(pos, i, a, Part(i, k, a)), FrontPoint(i, a, b, F)>>
    BY <1>1, <1>3, <1>9, PieceEnd
  <2>2. QED
    BY <1>10, <1>11, <2>1 DEF Around, a, b
<1>17. PointBetween(pos, i, l, now.sub, stat[i][j].prev, stat[i][l].next, now.main) = C
  <2>1. now.sub \in Int /\ l < chart.labels
    BY <1>1, <1>2, <1>6
  <2>2. PointBetween(pos, i, l, now.sub, a, b, N) = FrontPoint(i, a, b, (l - 1) * N + now.sub)
    BY <1>1, <2>1, BetweenIs
  <2>3. (l - 1) * N + now.sub = F
    BY <1>6 DEF Way
  <2>4. QED
    BY <1>1, <1>5, <1>11, <2>2, <2>3
<1>18. LineSeen(i, k) = With(Drawn(i, k, l), i, k, Around(i, l))
  <2>1. j # FirstDatum(i)
    BY DEF After
  <2>2. QED
    BY <1>1, <1>3, <2>1, DrawnCut DEF Around, l
<1>19. now.main > 0
  BY <1>2, <1>5
<1> HIDE DEF M, C, F, now
<1>20. QED
  BY <1>3, <1>4, <1>5, <1>6, <1>12, <1>13, <1>14, <1>15, <1>16, <1>17, <1>18, <1>19 DEF M, C, F, now, l, a

(* From the last datum the line is drawn up to the front. *)
LEMMA CutHere ==
  ASSUME NEW i, NEW k, NEW j, After(i, k, j), Way(j - 1) <= LineFront(i, k), LineFront(i, k) < Way(j),
         NEW x \in Here(i, k, j - 1)
  PROVE  LineStep(chart, stat, pos, k, i, x, j) \in Gone(i, k)
<1> DEFINE l == j - 1
           now == Now(i, k, l)
           F == LineFront(i, k)
           S == Drawn(i, k, l)
           M == Met(i, k, l)
           C == Cut(i, k, l)
           g == Around(i, l)
           y == LineStep(chart, stat, pos, k, i, x, j)
<1>1. HereIf(i, k, l) /\ \E f \in Nat \ {0} : x = Acc(S, M, f, now)
  BY DEF Here
<1>2. PICK f \in Nat \ {0} : x = Acc(S, M, f, now)
  BY <1>1
<1>3. /\ Now(i, k, j) = Showing(0, 0) /\ now.main > 0 /\ now.anim # 0
      /\ now.sub \in Nat /\ F = Way(l) + now.sub
      /\ M \in Int \X Int /\ C \in Int \X Int
      /\ F > Way(Behind(i, l)) => M # C
      /\ ~(F > Way(Behind(i, l))) => M = C
      /\ Piece(i, k, g) = <<M, C>>
      /\ PointBetween(pos, i, l, now.sub, stat[i][j].prev, stat[i][l].next, now.main) = C
      /\ LineSeen(i, k) = With(S, i, k, g)
  BY CutIs
<1>4. g \in Reached(i, k) <=> /\ Extrapolated \/ Ahead(i, l) = Behind(i, l) + 1
                              /\ F > Way(Behind(i, l))
  BY ReachedIs
<1>5. Now(i, k, j).main = 0 /\ f # 0
  BY <1>3 DEF Showing
<1>6. y = IF Extrapolated THEN Acc(Traced(S, M, C), C, 0, Showing(0, 0)) ELSE Acc(S, M, f, Showing(0, 0))
  <2> DEFINE q == PointBetween(pos, i, l, now.sub, stat[i][j].prev, stat[i][l].next, now.main)
             m == now
  <2>1. q = C
    BY <1>3
  <2> HIDE DEF S, M, C, now, g
  <2>2. y = IF Extrapolated THEN Acc(Traced(S, M, q), q, 0, Now(i, k, j)) ELSE Acc(S, M, f, Now(i, k, j))
    BY <1>2, <1>3, <1>5, StepFront DEF Extrapolated
  <2>3. QED
    BY <1>3, <2>1, <2>2
<1>7. CASE Extrapolated
  <2>1. With(S, i, k, g) = Traced(S, M, C)
    BY <1>3, <1>4, <1>7 DEF With, Traced
  <2>2. y = Acc(LineSeen(i, k), C, 0, Showing(0, 0))
    BY <1>3, <1>6, <1>7, <2>1
  <2>3. QED
    BY <1>3, <2>2 DEF Gone
<1>8. CASE ~Extrapolated
  <2>1. l \in Defined(chart, i)
    BY <1>1, <1>8 DEF HereIf
  <2>2. Behind(i, l) = l /\ (j \in Defined(chart, i) <=> Ahead(i, l) = j)
    BY <2>1, BehindIs
  <2>3. l + 1 = j /\ Way(l) \in Int /\ F \in Int
    <3>1. /\ l \in 1 .. chart.labels /\ Lined(i, k) /\ l + 1 = j
      BY AfterIs
    <3>2. QED
      BY <3>1, NowIs
  <2>4. g \notin Reached(i, k)
    <3> SUFFICES ASSUME Ahead(i, l) = l + 1, F > Way(l) PROVE FALSE
      BY <1>4, <1>8, <2>2
    <3>1. l + 1 \in Defined(chart, i)
      BY <2>2, <2>3
    <3>2. now.sub > 0
      <4> DEFINE s == now.sub
      <4> HIDE DEF s, F, now
      <4>1. s \in Nat /\ F = Way(l) + s /\ F > Way(l)
        BY <1>3 DEF s
      <4>2. s > 0
        BY <2>3, <4>1
      <4>3. QED
        BY <4>2 DEF s
    <3>3. QED
      BY <1>1, <2>1, <3>1, <3>2 DEF HereIf
  <2>5. y = Acc(LineSeen(i, k), M, f, Showing(0, 0))
    BY <1>3, <1>6, <1>8, <2>4 DEF With
  <2>6. QED
    BY <1>3, <2>5 DEF Gone
<1>9. QED
  BY <1>7, <1>8

(* At the front the line is complete. *)
LEMMA CutThere ==
  ASSUME NEW i, NEW k, NEW j, After(i, k, j), Way(j - 1) <= LineFront(i, k), LineFront(i, k) < Way(j),
         NEW x \in There(i, k, j - 1)
  PROVE  LineStep(chart, stat, pos, k, i, x, j) \in Gone(i, k)
<1> DEFINE l == j - 1
           now == Now(i, k, l)
           C == Cut(i, k, l)
           g == Around(i, l)
           S == Drawn(i, k, l) \union {Piece(i, k, g)}
           y == LineStep(chart, stat, pos, k, i, x, j)
<1>1. ThereIf(i, k, l) /\ \E f \in Nat \ {0} : x = Acc(S, C, f, now)
  BY DEF There
<1>2. PICK f \in Nat \ {0} : x = Acc(S, C, f, now)
  BY <1>1
<1>3. /\ Now(i, k, j) = Showing(0, 0) /\ now.main > 0 /\ now.anim # 0
      /\ C \in Int \X Int
      /\ PointBetween(pos, i, l, now.sub, stat[i][j].prev, stat[i][l].next, now.main) = C
      /\ LineSeen(i, k) = With(Drawn(i, k, l), i, k, g)
  BY CutIs
<1>4. LineSeen(i, k) = S
  BY <1>1, <1>3 DEF ThereIf, With
<1>5. Now(i, k, j).main = 0 /\ f # 0
  BY <1>3 DEF Showing
<1>6. y = IF Extrapolated THEN Acc(Traced(S, C, C), C, 0, Showing(0, 0)) ELSE Acc(S, C, f, Showing(0, 0))
  <2> DEFINE q == PointBetween(pos, i, l, now.sub, stat[i][j].prev, stat[i][l].next, now.main)
  <2>1. q = C
    BY <1>3
  <2> HIDE DEF S, C, now, g
  <2>2. y = IF Extrapolated THEN Acc(Traced(S, C, q), q, 0, Now(i, k, j)) ELSE Acc(S, C, f, Now(i, k, j))
    BY <1>2, <1>3, <1>5, StepFront DEF Extrapolated
  <2>3. QED
    BY <1>3, <2>1, <2>2
<1>7. Traced(S, C, C) = S
  BY DEF Traced
<1> HIDE DEF S, C
<1>8. y = Acc(LineSeen(i, k), C, 0, Showing(0, 0)) \/ y = Acc(LineSeen(i, k), C, f, Showing(0, 0))
  BY <1>4, <1>6, <1>7
<1>9. QED
  BY <1>3, <1>8 DEF Gone

(* The data of a line are those that are not missing. *)
LEMMA LineDatum ==
  ASSUME NEW i, NEW k, Lined(i, k), NEW j \in 1 .. chart.labels
  PROVE  j \in Defined(chart, i) <=> chart.data[i][j] # Missing
<1>1. Prepared(chart) /\ i \in Rows(chart)
  BY LineIs DEF Lined
<1>2. DOMAIN chart.data[i] = 1 .. chart.labels
  BY <1>1 DEF Prepared
<1>3. QED
  BY <1>2 DEF Defined

(* A broken line has not ended. *)
LEMMA BrokenIs ==
  Broken.anim # 0 /\ ~(Broken.main > 0)
<1>1. NotSet # 0
  BY SMTT(30) DEF NotSet, Missing
<1>2. QED
  BY <1>1 DEF Broken

(* The path goes on from position j - 1. *)
LEMMA GoesOnAfter ==
  ASSUME NEW i, NEW k, NEW j, After(i, k, j), Way(j - 1) <= LineFront(i, k), NEW f,
         NEW m \in {Now(i, k, j - 1), Broken}, f = 0 \/ Way(j) <= LineFront(i, k)
  PROVE  GoesOn(i, k, j, f, m)
<1>1. Lined(i, k) /\ j \in 1 .. chart.labels /\ j - 1 \in 1 .. chart.labels
  BY AfterIs
<1>2. Now(i, k, j - 1).anim # 0
  BY <1>1, NowIs
<1>3. m.anim # 0
  BY <1>2, BrokenIs
<1>4. Way(j) <= LineFront(i, k) => Now(i, k, j).main # 0
  <2> SUFFICES ASSUME Way(j) <= LineFront(i, k) PROVE Now(i, k, j).main # 0
    OBVIOUS
  <2>1. Now(i, k, j).main \in 1 .. N /\ N \in Nat
    BY <1>1, NowIs, LineIs
  <2> DEFINE y == Now(i, k, j).main
  <2> HIDE DEF y
  <2>2. y # 0
    BY <2>1 DEF y
  <2>3. QED
    BY <2>2 DEF y
<1>5. QED
  BY <1>3, <1>4 DEF GoesOn

(* In a gap nothing is drawn. *)
LEMMA CutGap ==
  ASSUME NEW i, NEW k, NEW j, After(i, k, j), Way(j - 1) <= LineFront(i, k), LineFront(i, k) < Way(j),
         NEW x \in Gap(i, k, j - 1)
  PROVE  LineStep(chart, stat, pos, k, i, x, j) \in Gone(i, k)
<1> DEFINE l == j - 1
           now == Now(i, k, j)
           g == Around(i, l)
           S == Drawn(i, k, l)
           y == LineStep(chart, stat, pos, k, i, x, j)
<1>1. GapIf(i, l) /\ \E p \in Int \X Int : \E m \in {Now(i, k, l), Broken} : x = Acc(S, p, 0, m)
  BY DEF Gap
<1>2. PICK p \in Int \X Int, m \in {Now(i, k, l), Broken} : x = Acc(S, p, 0, m)
  BY <1>1
<1>3. now = Showing(0, 0) /\ LineSeen(i, k) = With(S, i, k, g)
  BY CutIs
<1>4. g \notin Reached(i, k)
  <2>1. l \notin Defined(chart, i) /\ ~Extrapolated
    BY <1>1 DEF GapIf
  <2> DEFINE a == Behind(i, l)
             b == Ahead(i, l)
  <2>2. a < l
    BY <2>1, BehindIs
  <2>3. j <= b /\ a \in 1 .. chart.labels /\ b \in 1 .. chart.labels /\ j \in Int
    BY AfterIs
  <2>4. g \in Reached(i, k) => b = a + 1
    BY <2>1, ReachedIs
  <2> HIDE DEF a, b, g
  <2>5. b # a + 1
    BY <2>2, <2>3
  <2>6. QED
    BY <2>4, <2>5
<1>5. LineSeen(i, k) = S
  BY <1>3, <1>4 DEF With
<1>6. Lined(i, k) /\ j \in 1 .. chart.labels /\ j \in Nat
  BY AfterIs
<1>7. GoesOn(i, k, j, 0, m)
  BY GoesOnAfter
<1>8. now.sub = 0 /\ ~(now.sub > 0) /\ now.main = 0
  BY <1>3 DEF Showing
<1> HIDE DEF S, now, g
<1>9. CASE j \notin Defined(chart, i)
  <2>1. chart.data[i][j] = Missing
    BY <1>6, <1>9, LineDatum
  <2>2. ~Extrapolated
    BY <1>1 DEF GapIf
  <2>3. y = Acc(S, p, 0, now)
    BY <1>2, <1>7, <2>1, <2>2, StepMissing DEF Extrapolated, now
  <2>4. QED
    BY <1>3, <1>5, <2>3 DEF Gone
<1>10. CASE j \in Defined(chart, i)
  <2>1. chart.data[i][j] # Missing
    BY <1>6, <1>10, LineDatum
  <2> DEFINE P == PointAt(pos, i, j, now.main)
  <2>2. P \in Int \X Int
    BY <1>6, <1>8, PointPlace
  <2> HIDE DEF P
  <2>3. y = Acc(S, P, j, now)
    BY <1>2, <1>7, <1>8, <2>1, StepValue DEF now, P
  <2>4. QED
    BY <1>3, <1>5, <1>6, <2>2, <2>3 DEF Gone
<1>11. QED
  BY <1>9, <1>10

(* The front is at position j or beyond it, and datum j is missing. *)
LEMMA PassedIs ==
  ASSUME NEW i, NEW k, NEW j, After(i, k, j), Way(j) <= LineFront(i, k), j \notin Defined(chart, i)
  PROVE  LET l == j - 1
             a == Behind(i, l)
             b == Ahead(i, l)
         IN  /\ Lined(i, k) /\ j \in 1 .. chart.labels /\ j < chart.labels /\ j < LastDatum(i)
             /\ Behind(i, j) = a /\ Ahead(i, j) = b /\ a < j /\ j + 1 <= b
             /\ a \in 1 .. chart.labels /\ b \in 1 .. chart.labels /\ a < b
             /\ Around(i, j) = Around(i, l) /\ Met(i, k, j) = Met(i, k, l) /\ Cut(i, k, j) = Cut(i, k, l)
             /\ Drawn(i, k, j) = Drawn(i, k, l)
             /\ stat[i][j + 1].prev = a /\ stat[i][j].next = b
             /\ Met(i, k, l) \in Int \X Int /\ Way(l) <= LineFront(i, k)
             /\ chart.data[i][j] = Missing
<1> DEFINE l == j - 1
           a == Behind(i, l)
           b == Ahead(i, l)
           F == LineFront(i, k)
<1>1. /\ j \in Int /\ j \in 1 .. chart.labels /\ l \in 1 .. chart.labels /\ Lined(i, k) /\ OnLine(i, j)
      /\ a \in 1 .. chart.labels /\ b \in 1 .. chart.labels /\ a < b /\ a <= l /\ j <= b
  BY AfterIs
<1>2. Behind(i, j) = a /\ Ahead(i, j) = b /\ j < LastDatum(i) /\ b # j
  BY BehindIs
<1>3. Drawn(i, k, j) = Drawn(i, k, l)
  BY <1>1, DrawnMissing
<1>4. stat[i][j + 1].prev = Behind(i, j) /\ stat[i][j].next = Ahead(i, j)
  BY <1>1, <1>2, GapLinked DEF After
<1>5. chart.data[i][j] = Missing
  BY <1>1, LineDatum
<1>6. LastDatum(i) \in 1 .. chart.labels /\ chart.labels \in Nat
  BY <1>1, LineSpan
<1>7. a \in Int /\ b \in Int /\ l \in Int /\ a < j /\ j + 1 <= b /\ j < chart.labels
  <2> HIDE DEF a, b
  <2>1. QED
    BY <1>1, <1>2, <1>6
<1>8. F \in Int
  BY <1>1, NowIs
<1>9. Way(l) <= Way(j) /\ Way(a) <= Way(j) /\ Way(l) \in Int /\ Way(j) \in Int /\ Way(a) \in Int
  <2>1. l <= j /\ a <= j
    BY <1>1, <1>7
  <2> HIDE DEF l, a
  <2>2. QED
    BY <1>1, <1>7, <2>1, WayIs
<1>10. Way(l) <= F /\ Way(a) <= F
  <2> HIDE DEF F, a, l
  <2>1. Way(j) <= F
    BY DEF F
  <2>2. QED
    BY <1>8, <1>9, <2>1
<1>11. Part(i, k, a) \in Int
  <2>1. Now(i, k, a).main = Part(i, k, a) /\ Now(i, k, a).main \in 1 .. N
    BY <1>1, <1>10, NowIs
  <2>2. N \in Nat
    BY <1>1, LineIs
  <2> DEFINE y == Part(i, k, a)
  <2> HIDE DEF y
  <2>3. y \in 1 .. N
    BY <2>1 DEF y
  <2>4. y \in Int
    BY <2>2, <2>3
  <2>5. QED
    BY <2>4 DEF y
<1>12. Met(i, k, l) \in Int \X Int
  BY <1>1, <1>11, PointPlace DEF Met
<1> HIDE DEF l, a, b
<1>13. Around(i, j) = Around(i, l) /\ Met(i, k, j) = Met(i, k, l) /\ Cut(i, k, j) = Cut(i, k, l)
  BY <1>2 DEF Around, Met, Cut, a, b
<1>14. QED
  BY <1>1, <1>2, <1>3, <1>4, <1>5, <1>7, <1>10, <1>12, <1>13 DEF l, a, b

(* The front that comes over from left to right. *)
LEMMA FrontCome ==
  ASSUME NEW i, NEW k, Lined(i, k), NEW a \in 1 .. chart.labels, NEW b \in 1 .. chart.labels, a < b,
         NEW j \in 1 .. chart.labels, j < chart.labels, a <= j, j + 1 <= b, Now(i, k, j).sub > 0
  PROVE  LET F == LineFront(i, k)
             P == PointAt(pos, i, a, Part(i, k, a))
             C == FrontPoint(i, a, b, F)
         IN  /\ PointBetween(pos, i, j, Now(i, k, j).sub, a, b, N) = C
             /\ P # C /\ Piece(i, k, <<a, b>>) = <<P, C>>
             /\ F > Way(a) /\ F <= Way(j + 1) /\ chart.opts.animationLeftToRight
             /\ P \in Int \X Int /\ C \in Int \X Int
<1> DEFINE F == LineFront(i, k)
           P == PointAt(pos, i, a, Part(i, k, a))
           C == FrontPoint(i, a, b, F)
           s == Now(i, k, j).sub
<1>1. F \in Int /\ Way(j) \in Int /\ s \in 0 .. N /\ F = Way(j) + s /\ chart.opts.animationLeftToRight /\ s > 0
  BY NowIs
<1>2. N \in Nat \ {0} /\ chart.labels \in Nat /\ s \in Int
  BY <1>1, LineIs
<1>3. Part(i, k, a) = N /\ Part(i, k, b) = N
  BY <1>1 DEF Part
<1>4. a \in Int /\ b \in Int /\ j \in Int /\ j + 1 \in Int
  OBVIOUS
<1>5. /\ Way(a) <= Way(j) /\ Way(j + 1) <= Way(b) /\ Way(j + 1) = Way(j) + N
      /\ Way(a) \in Int /\ Way(b) \in Int /\ Way(j + 1) \in Int
  BY <1>4, WayIs
<1>6. F > Way(a) /\ F <= Way(j + 1) /\ Way(a) <= F /\ F <= Way(b)
  <2> HIDE DEF F, s
  <2>1. QED
    BY <1>1, <1>2, <1>5
<1>7. PointBetween(pos, i, j, s, a, b, N) = C
  <2>1. PointBetween(pos, i, j, s, a, b, N) = FrontPoint(i, a, b, (j - 1) * N + s)
    BY <1>2, BetweenIs
  <2>2. (j - 1) * N + s = F
    BY <1>1 DEF Way
  <2>3. QED
    BY <2>1, <2>2
<1>8. C \in Int \X Int /\ C[1] = N * pos[i][1].x + Hop * F
  BY <1>1, FrontTyped
<1>9. P = PointAt(pos, i, a, N) /\ P \in Int \X Int
  <2>1. P = PointAt(pos, i, a, N)
    BY <1>3
  <2>2. N \in Int
    BY <1>2
  <2>3. PointAt(pos, i, a, N) \in Int \X Int
    BY <2>2, PointPlace
  <2>4. QED
    BY <2>1, <2>3
<1>10. P # C
  <2>1. F # (a - 1) * N
    BY <1>1, <1>5, <1>6 DEF Way
  <2>2. N \in Int
    BY <1>2
  <2>3. C # PointAt(pos, i, a, N)
    BY <1>1, <1>8, <2>1, <2>2, FrontApart
  <2>4. QED
    BY <1>9, <2>3
<1>11. Piece(i, k, <<a, b>>) = <<P, C>>
  BY <1>1, <1>3, <1>6, PieceEnd
<1> HIDE DEF F, P, C, s
<1>12. QED
  BY <1>1, <1>6, <1>7, <1>8, <1>9, <1>10, <1>11 DEF F, P, C, s

(* A missing datum after a datum. *)
LEMMA PassHere ==
  ASSUME NEW i, NEW k, NEW j, After(i, k, j), Way(j) <= LineFront(i, k), j \notin Defined(chart, i),
         NEW x \in Here(i, k, j - 1)
  PROVE  LineStep(chart, stat, pos, k, i, x, j) \in Here(i, k, j) \union There(i, k, j) \union Gap(i, k, j)
<1> DEFINE l == j - 1
           now == Now(i, k, j)
           a == Behind(i, l)
           b == Ahead(i, l)
           g == Around(i, j)
           S == Drawn(i, k, j)
           M == Met(i, k, j)
           C == Cut(i, k, j)
           y == LineStep(chart, stat, pos, k, i, x, j)
<1>1. /\ Lined(i, k) /\ j \in 1 .. chart.labels /\ j < chart.labels /\ j < LastDatum(i)
      /\ Behind(i, j) = a /\ Ahead(i, j) = b /\ a < j /\ j + 1 <= b
      /\ a \in 1 .. chart.labels /\ b \in 1 .. chart.labels /\ a < b
      /\ g = Around(i, l) /\ M = Met(i, k, l) /\ C = Cut(i, k, l) /\ S = Drawn(i, k, l)
      /\ stat[i][j + 1].prev = a /\ stat[i][j].next = b
      /\ M \in Int \X Int /\ Way(l) <= LineFront(i, k)
      /\ chart.data[i][j] = Missing
  BY PassedIs
<1>2. PICK f \in Nat \ {0} : x = Acc(S, M, f, Now(i, k, l))
  BY <1>1 DEF Here
<1>3. GoesOn(i, k, j, f, Now(i, k, l))
  BY <1>1, GoesOnAfter
<1> DEFINE q == PointBetween(pos, i, j, now.sub, stat[i][j + 1].prev, stat[i][j].next, N)
<1> HIDE DEF S, M, C, g, now, l, a, b
<1>4. /\ Extrapolated /\ now.sub > 0 => y = Acc(Traced(S, M, q), q, f, now)
      /\ Extrapolated /\ ~(now.sub > 0) => y = Acc(S, M, f, now)
      /\ ~Extrapolated /\ f # 0 => y = Acc(S, M, 0, Broken)
  BY <1>1, <1>2, <1>3, StepMissing DEF Extrapolated, now
<1>5. CASE Extrapolated /\ now.sub > 0
  <2>1. /\ q = FrontPoint(i, a, b, LineFront(i, k))
        /\ PointAt(pos, i, a, Part(i, k, a)) # FrontPoint(i, a, b, LineFront(i, k))
        /\ Piece(i, k, <<a, b>>) = <<PointAt(pos, i, a, Part(i, k, a)), FrontPoint(i, a, b, LineFront(i, k))>>
        /\ LineFront(i, k) > Way(a) /\ LineFront(i, k) <= Way(j + 1) /\ chart.opts.animationLeftToRight
    <3>1. a <= j
      BY <1>1
    <3>2. QED
      BY <1>1, <1>5, <3>1, FrontCome DEF now
  <2>2. q = C /\ M # C /\ Piece(i, k, g) = <<M, C>>
    BY <1>1, <2>1 DEF Met, Cut, Around, M, C, g
  <2>3. y = Acc(S \union {Piece(i, k, g)}, C, f, now)
    BY <1>4, <1>5, <2>2 DEF Traced
  <2>4. g \in Reached(i, k)
    BY <1>1, <1>5, <2>1, ReachedIs DEF l, a
  <2>5. ThereIf(i, k, j)
    BY <1>1, <1>5, <2>1, <2>4 DEF ThereIf, g
  <2>6. y \in There(i, k, j)
    BY <2>3, <2>5 DEF There, S, C, g, now
  <2>7. QED
    BY <2>6
<1>6. CASE Extrapolated /\ ~(now.sub > 0)
  <2>1. HereIf(i, k, j)
    BY <1>6 DEF HereIf
  <2>2. y = Acc(S, M, f, now)
    BY <1>4, <1>6
  <2>3. y \in Here(i, k, j)
    BY <2>1, <2>2 DEF Here, S, M, now
  <2>4. QED
    BY <2>3
<1>7. CASE ~Extrapolated
  <2>1. y = Acc(S, M, 0, Broken)
    BY <1>4, <1>7
  <2>2. GapIf(i, j)
    BY <1>7 DEF GapIf
  <2>3. y \in Gap(i, k, j)
    BY <1>1, <2>1, <2>2 DEF Gap, S
  <2>4. QED
    BY <2>3
<1>8. QED
  BY <1>5, <1>6, <1>7

(* A missing datum at the front. *)
LEMMA PassThere ==
  ASSUME NEW i, NEW k, NEW j, After(i, k, j), Way(j) <= LineFront(i, k), j \notin Defined(chart, i),
         NEW x \in There(i, k, j - 1)
  PROVE  LineStep(chart, stat, pos, k, i, x, j) \in There(i, k, j)
<1> DEFINE l == j - 1
           now == Now(i, k, j)
           F == LineFront(i, k)
           g == Around(i, j)
           S == Drawn(i, k, j) \union {Piece(i, k, g)}
           C == Cut(i, k, j)
           y == LineStep(chart, stat, pos, k, i, x, j)
<1>1. /\ Lined(i, k) /\ j \in 1 .. chart.labels /\ j < chart.labels /\ j < LastDatum(i)
      /\ g = Around(i, l) /\ C = Cut(i, k, l) /\ Drawn(i, k, j) = Drawn(i, k, l)
      /\ Way(l) <= F /\ chart.data[i][j] = Missing
  BY PassedIs
<1>2. ThereIf(i, k, l)
  BY DEF There
<1>3. PICK f \in Nat \ {0} : x = Acc(S, C, f, Now(i, k, l))
  BY <1>1 DEF There
<1>4. GoesOn(i, k, j, f, Now(i, k, l))
  BY <1>1, GoesOnAfter
<1>5. l + 1 = j /\ j \in Int
  BY AfterIs
<1>6. g \in Reached(i, k) /\ F <= Way(j) /\ chart.opts.animationLeftToRight
  BY <1>1, <1>2, <1>5 DEF ThereIf
<1>7. Extrapolated
  <2> SUFFICES ASSUME ~Extrapolated PROVE FALSE
    OBVIOUS
  <2>1. l \in Defined(chart, i)
    BY <1>2 DEF ThereIf
  <2>2. Behind(i, l) = l /\ Ahead(i, l) # j
    BY <2>1, BehindIs
  <2>3. Ahead(i, l) = Behind(i, l) + 1
    BY <1>1, <1>6, ReachedIs
  <2>4. QED
    BY <1>5, <2>2, <2>3
<1>8. /\ F \in Int /\ Way(j) \in Int /\ now.sub \in 0 .. N
      /\ now.sub > 0 => F = Way(j) + now.sub
  BY <1>1, NowIs
<1>9. N \in Nat
  BY <1>1, LineIs
<1>10. ~(now.sub > 0)
  <2> DEFINE s == now.sub
  <2> HIDE DEF F, s, now
  <2>1. s \in Int /\ (s > 0 => F = Way(j) + s)
    BY <1>8, <1>9 DEF s
  <2>2. ~(s > 0)
    BY <1>6, <1>8, <2>1
  <2>3. QED
    BY <2>2 DEF s
<1> HIDE DEF S, C, now
<1>11. y = Acc(S, C, f, now)
  BY <1>1, <1>3, <1>4, <1>7, <1>10, StepMissing DEF Extrapolated, now
<1>12. F <= Way(j + 1)
  <2>1. Way(j) <= Way(j + 1) /\ Way(j + 1) \in Int
    <3>1. j + 1 \in Int /\ j <= j + 1
      BY <1>5
    <3>2. QED
      BY <1>5, <3>1, WayIs
  <2> HIDE DEF F
  <2>2. QED
    BY <1>6, <1>8, <2>1
<1>13. ThereIf(i, k, j)
  BY <1>1, <1>6, <1>7, <1>12 DEF ThereIf
<1>14. QED
  BY <1>11, <1>13 DEF There, S, C, now

(* A missing datum in a gap. *)
LEMMA PassGap ==
  ASSUME NEW i, NEW k, NEW j, After(i, k, j), Way(j) <= LineFront(i, k), j \notin Defined(chart, i),
         NEW x \in Gap(i, k, j - 1)
  PROVE  LineStep(chart, stat, pos, k, i, x, j) \in Gap(i, k, j)
<1> DEFINE l == j - 1
           now == Now(i, k, j)
           S == Drawn(i, k, j)
           y == LineStep(chart, stat, pos, k, i, x, j)
<1>1. S = Drawn(i, k, l) /\ Way(l) <= LineFront(i, k) /\ chart.data[i][j] = Missing
  BY PassedIs
<1>2. GapIf(i, l) /\ \E p \in Int \X Int : \E m \in {Now(i, k, l), Broken} : x = Acc(S, p, 0, m)
  BY <1>1 DEF Gap
<1>3. PICK p \in Int \X Int, m \in {Now(i, k, l), Broken} : x = Acc(S, p, 0, m)
  BY <1>2
<1>4. GoesOn(i, k, j, 0, m)
  BY <1>1, GoesOnAfter
<1>5. ~Extrapolated
  BY <1>2 DEF GapIf
<1> HIDE DEF S, now
<1>6. y = Acc(S, p, 0, now)
  BY <1>1, <1>3, <1>4, <1>5, StepMissing DEF Extrapolated, now
<1>7. GapIf(i, j)
  BY <1>5 DEF GapIf
<1>8. QED
  BY <1>6, <1>7 DEF Gap, S, now

(* From a datum the line goes on towards its neighbour. *)
LEMMA Onward ==
  ASSUME NEW i, NEW k, Lined(i, k), stat = PassData(chart), NEW j, OnLine(i, j), j \in Defined(chart, i),
         Way(j) <= LineFront(i, k), NEW f \in Nat \ {0}
  PROVE  LET now == Now(i, k, j)
             P == PointAt(pos, i, j, now.main)
             q == PointBetween(pos, i, j, now.sub, stat[i][j + 1].prev, j + 1, N)
             T == Drawn(i, k, j)
         IN  (IF now.sub > 0 /\ stat[i][j].next = j + 1 THEN Acc(Traced(T, P, q), q, f, now) ELSE Acc(T, P, f, now))
               \in Here(i, k, j) \union There(i, k, j)
<1> DEFINE now == Now(i, k, j)
           P == PointAt(pos, i, j, now.main)
           q == PointBetween(pos, i, j, now.sub, stat[i][j + 1].prev, j + 1, N)
           T == Drawn(i, k, j)
           on == now.sub > 0 /\ stat[i][j].next = j + 1
           F == LineFront(i, k)
           g == Around(i, j)
           C == Cut(i, k, j)
<1>1. /\ j \in 1 .. chart.labels /\ j \in Int /\ j <= LastDatum(i) /\ LastDatum(i) \in 1 .. chart.labels
      /\ chart.labels \in Nat /\ \A c \in Defined(chart, i) : c \in Int /\ c <= LastDatum(i)
  BY LineSpan
<1>2. now.main = Part(i, k, j)
  BY <1>1, NowIs
<1>3. Behind(i, j) = j
  BY GapMoves
<1>4. P = Met(i, k, j)
  BY <1>2, <1>3 DEF Met
<1>5. /\ j < LastDatum(i) => stat[i][j + 1].prev = j /\ stat[i][j].next = Ahead(i, j)
      /\ j = LastDatum(i) => stat[i][j].next = 0
  BY <1>3, GapLinked
<1>6. ASSUME j < LastDatum(i) PROVE Ahead(i, j) \in Int /\ j < Ahead(i, j) /\ \A c \in Defined(chart, i) : c <= j \/ Ahead(i, j) <= c
  <2> HIDE DEF now, P, q, T, on, F, g, C
  <2>1. Ahead(i, j) \in Defined(chart, i) /\ j < Ahead(i, j)
    BY <1>6, GapIs
  <2>2. \A c \in Defined(chart, i) : c <= Behind(i, j) \/ Ahead(i, j) <= c
    BY <1>6, GapIs
  <2>3. \A c \in Defined(chart, i) : c <= j \/ Ahead(i, j) <= c
    BY <1>3, <2>2
  <2>4. QED
    BY <1>1, <2>1, <2>3
<1>7. CASE on
  <2>1. j < LastDatum(i)
    <3>1. j + 1 # 0
      BY <1>1
    <3>2. j # LastDatum(i)
      BY <1>5, <1>7, <3>1
    <3>3. QED
      BY <1>1, <3>2
  <2>2. Ahead(i, j) = j + 1 /\ stat[i][j + 1].prev = j /\ now.sub > 0
    BY <1>5, <1>7, <2>1
  <2>3. j + 1 \in 1 .. chart.labels /\ j < j + 1 /\ j < chart.labels /\ j <= j /\ j + 1 <= j + 1
    BY <1>1, <2>1
  <2> DEFINE b == j + 1
  <2> HIDE DEF b
  <2>4. /\ PointBetween(pos, i, j, Now(i, k, j).sub, j, b, N) = FrontPoint(i, j, b, F)
        /\ PointAt(pos, i, j, Part(i, k, j)) # FrontPoint(i, j, b, F)
        /\ Piece(i, k, <<j, b>>) = <<PointAt(pos, i, j, Part(i, k, j)), FrontPoint(i, j, b, F)>>
        /\ F > Way(j) /\ F <= Way(j + 1) /\ chart.opts.animationLeftToRight
    <3>1. b \in 1 .. chart.labels /\ j < b /\ j + 1 <= b
      BY <2>3 DEF b
    <3>2. QED
      BY <1>1, <2>2, <2>3, <3>1, FrontCome
  <2>5. q = C /\ P # C /\ Piece(i, k, g) = <<P, C>>
    BY <1>2, <1>3, <2>2, <2>4 DEF Cut, Around, b
  <2>6. g \in Reached(i, k)
    <3>1. g \in Joined(i)
      BY <1>3, <2>1, <2>2, JoinedGap DEF Around
    <3>2. g[1] = j
      BY <1>3 DEF Around
    <3>3. QED
      BY <2>4, <3>1, <3>2 DEF Reached
  <2>7. ThereIf(i, k, j)
    BY <2>1, <2>4, <2>6 DEF ThereIf
  <2> HIDE DEF P, C, T, now, g, on, q
  <2>8. Traced(T, P, q) = T \union {Piece(i, k, g)}
    BY <2>5 DEF Traced
  <2>9. Acc(T \union {Piece(i, k, g)}, C, f, now) \in There(i, k, j)
    BY <2>7 DEF There, T, C, g, now
  <2>10. Acc(Traced(T, P, q), q, f, now) \in There(i, k, j)
    BY <2>5, <2>8, <2>9
  <2>11. QED
    BY <1>7, <2>10 DEF on, P, q, T, now
<1>8. CASE ~on
  <2>1. ~(j + 1 \in Defined(chart, i) /\ now.sub > 0)
    <3> SUFFICES ASSUME j + 1 \in Defined(chart, i), now.sub > 0 PROVE FALSE
      OBVIOUS
    <3>1. j < LastDatum(i)
      <4>1. j + 1 <= LastDatum(i)
        BY <1>1
      <4>2. QED
        BY <1>1, <4>1
    <3>2. j + 1 <= j \/ Ahead(i, j) <= j + 1
      BY <1>6, <3>1
    <3>3. Ahead(i, j) = j + 1
      BY <1>1, <1>6, <3>1, <3>2
    <3>4. QED
      BY <1>5, <1>8, <3>1, <3>3
  <2>2. HereIf(i, k, j)
    BY <2>1 DEF HereIf
  <2> HIDE DEF P, T, now, on, q
  <2>3. Acc(T, P, f, now) \in Here(i, k, j)
    BY <1>4, <2>2 DEF Here, T, now
  <2>4. QED
    BY <1>8, <2>3 DEF on, P, q, T, now
<1>9. QED
  BY <1>7, <1>8

(* The front is at datum j or beyond it. *)
LEMMA ComesTo ==
  ASSUME NEW i, NEW k, NEW j, After(i, k, j), Way(j) <= LineFront(i, k), j \in Defined(chart, i),
         NEW f \in Nat, NEW S, NEW p, NEW m \in {Now(i, k, j - 1), Broken},
         (IF f = 0 THEN S ELSE Traced(S, p, PointAt(pos, i, j, Part(i, k, j)))) = Drawn(i, k, j)
  PROVE  LineStep(chart, stat, pos, k, i, Acc(S, p, f, m), j) \in Here(i, k, j) \union There(i, k, j)
<1> DEFINE now == Now(i, k, j)
           P == PointAt(pos, i, j, now.main)
           q == PointBetween(pos, i, j, now.sub, stat[i][j + 1].prev, j + 1, N)
           T == IF f = 0 THEN S ELSE Traced(S, p, P)
           h == IF f = 0 THEN j ELSE f
           y == LineStep(chart, stat, pos, k, i, Acc(S, p, f, m), j)
           on == now.sub > 0 /\ stat[i][j].next = j + 1
<1>1. Lined(i, k) /\ OnLine(i, j) /\ j \in 1 .. chart.labels /\ j - 1 \in 1 .. chart.labels /\ j \in Int
  BY AfterIs
<1>2. now.main = Part(i, k, j)
  BY <1>1, NowIs
<1>3. chart.data[i][j] # Missing
  BY <1>1, LineDatum
<1>4. Way(j - 1) <= LineFront(i, k)
  <2>1. LineFront(i, k) \in Int
    BY <1>1, NowIs
  <2> DEFINE F == LineFront(i, k)
             l == j - 1
  <2>2. l \in Int /\ l <= j /\ Way(j) <= F /\ F \in Int
    BY <1>1, <2>1
  <2> HIDE DEF F, l
  <2>3. Way(l) <= Way(j) /\ Way(l) \in Int /\ Way(j) \in Int
    BY <1>1, <2>2, WayIs
  <2>4. Way(l) <= F
    BY <2>2, <2>3
  <2>5. QED
    BY <2>4 DEF F, l
<1>5. GoesOn(i, k, j, f, m)
  BY <1>4, GoesOnAfter
<1>6. y = IF on THEN Acc(Traced(T, P, q), q, h, now) ELSE Acc(T, P, h, now)
  BY <1>3, <1>5, StepValue
<1>7. T = Drawn(i, k, j)
  BY <1>2
<1>8. h \in Nat \ {0}
  BY <1>1
<1> HIDE DEF P, q, T, h, now, y, on
<1>9. (IF on THEN Acc(Traced(T, P, q), q, h, now) ELSE Acc(T, P, h, now)) \in Here(i, k, j) \union There(i, k, j)
  BY <1>1, <1>7, <1>8, Onward DEF After, P, q, now, on
<1>10. QED
  BY <1>6, <1>9 DEF y

(* From a datum. *)
LEMMA DatumHere ==
  ASSUME NEW i, NEW k, NEW j, After(i, k, j), Way(j) <= LineFront(i, k), j \in Defined(chart, i),
         NEW x \in Here(i, k, j - 1)
  PROVE  LineStep(chart, stat, pos, k, i, x, j) \in Here(i, k, j) \union There(i, k, j)
<1> DEFINE l == j - 1
           S == Drawn(i, k, l)
           M == Met(i, k, l)
           P == PointAt(pos, i, j, Part(i, k, j))
           F == LineFront(i, k)
           a == Behind(i, l)
<1>1. HereIf(i, k, l) /\ \E f \in Nat \ {0} : x = Acc(S, M, f, Now(i, k, l))
  BY DEF Here
<1>2. PICK f \in Nat \ {0} : x = Acc(S, M, f, Now(i, k, l))
  BY <1>1
<1>3. /\ j \in Int /\ j \in 1 .. chart.labels /\ l + 1 = j /\ Lined(i, k) /\ OnLine(i, j)
      /\ a \in 1 .. chart.labels /\ a <= l
  BY AfterIs
<1>4. Ahead(i, l) = j /\ (l \in Defined(chart, i) => a = l)
  BY BehindIs
<1>5. F \in Int /\ N \in Nat /\ Now(i, k, j).main = Part(i, k, j) /\ Now(i, k, j).main \in 1 .. N
  BY <1>3, NowIs, LineIs
<1>6. a \in Int /\ a < j
  <2> HIDE DEF a
  <2>1. QED
    BY <1>3
<1>7. Way(a) < Way(j) /\ Way(a) \in Int /\ Way(j) \in Int
  <2> HIDE DEF a
  <2>1. QED
    BY <1>3, <1>6, WayIs
<1>8. F > Way(a) /\ Way(a) <= F
  <2> HIDE DEF F, a
  <2>1. Way(j) <= F
    BY DEF F
  <2>2. QED
    BY <1>5, <1>7, <2>1
<1>9. Part(i, k, a) \in Int /\ Part(i, k, j) \in Int
  <2>1. Now(i, k, a).main = Part(i, k, a) /\ Now(i, k, a).main \in 1 .. N
    BY <1>3, <1>8, NowIs
  <2> DEFINE u == Part(i, k, a)
             v == Part(i, k, j)
  <2> HIDE DEF u, v
  <2>2. u \in 1 .. N /\ v \in 1 .. N
    BY <1>5, <2>1 DEF u, v
  <2>3. u \in Int /\ v \in Int
    BY <1>5, <2>2
  <2>4. QED
    BY <2>3 DEF u, v
<1>10. M # P
  <2> DEFINE u == Part(i, k, a)
             v == Part(i, k, j)
             w == Way(a)
  <2> HIDE DEF u, v, w
  <2>1. u \in Int /\ v \in Int /\ w \in Int
    BY <1>7, <1>9 DEF u, v, w
  <2>2. PointAt(pos, i, a, u) \in Int \X Int /\ PointAt(pos, i, a, u)[1] = N * pos[i][1].x + Hop * w
    BY <1>3, <2>1, PointPlace DEF w, Way
  <2>3. w # (j - 1) * N
    BY <1>7 DEF w, Way
  <2>4. PointAt(pos, i, a, u) # PointAt(pos, i, j, v)
    BY <1>3, <2>1, <2>2, <2>3, FrontApart
  <2>5. QED
    BY <2>4 DEF Met, u, v
<1>11. Around(i, l) = <<a, j>>
  BY <1>4 DEF Around
<1>12. Piece(i, k, <<a, j>>) = <<M, P>>
  BY <1>3, <1>5, <1>6, PieceEnd DEF Met
<1>13. Around(i, l) \in Reached(i, k)
  <2>1. Extrapolated \/ Ahead(i, l) = a + 1
    BY <1>1, <1>3, <1>4 DEF HereIf
  <2>2. QED
    BY <1>8, <2>1, ReachedIs
<1>14. Drawn(i, k, j) = With(S, i, k, <<a, j>>)
  <2>1. j # FirstDatum(i)
    BY DEF After
  <2>2. QED
    BY <1>3, <2>1, DrawnDatum
<1> HIDE DEF M, P, S, a
<1>15. Traced(S, M, P) = Drawn(i, k, j)
  BY <1>10, <1>11, <1>12, <1>13, <1>14 DEF Traced, With
<1>16. QED
  BY <1>2, <1>15, ComesTo DEF P

(* From the front, which is at the datum. *)
LEMMA DatumThere ==
  ASSUME NEW i, NEW k, NEW j, After(i, k, j), Way(j) <= LineFront(i, k), j \in Defined(chart, i),
         NEW x \in There(i, k, j - 1)
  PROVE  LineStep(chart, stat, pos, k, i, x, j) \in Here(i, k, j) \union There(i, k, j)
<1> DEFINE l == j - 1
           C == Cut(i, k, l)
           S == Drawn(i, k, l) \union {Piece(i, k, Around(i, l))}
           P == PointAt(pos, i, j, Part(i, k, j))
           F == LineFront(i, k)
           a == Behind(i, l)
<1>1. ThereIf(i, k, l) /\ \E f \in Nat \ {0} : x = Acc(S, C, f, Now(i, k, l))
  BY DEF There
<1>2. PICK f \in Nat \ {0} : x = Acc(S, C, f, Now(i, k, l))
  BY <1>1
<1>3. /\ j \in Int /\ j \in 1 .. chart.labels /\ l + 1 = j /\ Lined(i, k) /\ OnLine(i, j)
      /\ a \in 1 .. chart.labels /\ Ahead(i, l) \in 1 .. chart.labels /\ a < Ahead(i, l)
  BY AfterIs
<1>4. Ahead(i, l) = j
  BY BehindIs
<1>5. F = Way(j)
  <2>1. F \in Int /\ Way(j) \in Int
    BY <1>3, NowIs
  <2>2. F <= Way(j)
    BY <1>1, <1>3 DEF ThereIf
  <2> HIDE DEF F
  <2>3. Way(j) <= F
    BY DEF F
  <2>4. QED
    BY <2>1, <2>2, <2>3
<1>6. Part(i, k, j) = N
  BY <1>1 DEF ThereIf, Part
<1>7. C = P
  <2>1. FrontPoint(i, a, j, (j - 1) * N) = PointAt(pos, i, j, N)
    BY <1>3, <1>4, FrontEnds
  <2>2. QED
    BY <1>4, <1>5, <1>6, <2>1 DEF Cut, Way
<1>8. Drawn(i, k, j) = S
  <2>1. j # FirstDatum(i)
    BY DEF After
  <2>2. Drawn(i, k, j) = With(Drawn(i, k, l), i, k, <<a, j>>)
    BY <1>3, <2>1, DrawnDatum
  <2>3. Around(i, l) = <<a, j>> /\ Around(i, l) \in Reached(i, k)
    BY <1>1, <1>4 DEF Around, ThereIf
  <2>4. QED
    BY <2>2, <2>3 DEF With
<1> HIDE DEF S, C, P
<1>9. Traced(S, C, P) = Drawn(i, k, j)
  BY <1>7, <1>8 DEF Traced
<1>10. QED
  BY <1>2, <1>9, ComesTo DEF P

(* After a gap. *)
LEMMA DatumGap ==
  ASSUME NEW i, NEW k, NEW j, After(i, k, j), Way(j) <= LineFront(i, k), j \in Defined(chart, i),
         NEW x \in Gap(i, k, j - 1)
  PROVE  LineStep(chart, stat, pos, k, i, x, j) \in Here(i, k, j) \union There(i, k, j)
<1> DEFINE l == j - 1
           S == Drawn(i, k, l)
           a == Behind(i, l)
<1>1. GapIf(i, l) /\ \E p \in Int \X Int : \E m \in {Now(i, k, l), Broken} : x = Acc(S, p, 0, m)
  BY DEF Gap
<1>2. PICK p \in Int \X Int, m \in {Now(i, k, l), Broken} : x = Acc(S, p, 0, m)
  BY <1>1
<1>3. /\ j \in Int /\ Lined(i, k) /\ OnLine(i, j) /\ a \in 1 .. chart.labels
  BY AfterIs
<1>4. Ahead(i, l) = j /\ a < l
  BY <1>1, BehindIs DEF GapIf
<1>5. Around(i, l) = <<a, j>>
  BY <1>4 DEF Around
<1>6. j # a + 1
  <2> HIDE DEF a
  <2>1. QED
    BY <1>3, <1>4
<1>7. Around(i, l) \notin Reached(i, k)
  BY <1>1, <1>4, <1>6, ReachedIs DEF GapIf
<1>8. Drawn(i, k, j) = S
  <2>1. j # FirstDatum(i)
    BY DEF After
  <2>2. Drawn(i, k, j) = With(S, i, k, <<a, j>>)
    BY <1>3, <2>1, DrawnDatum
  <2>3. QED
    BY <1>5, <1>7, <2>2 DEF With
<1> HIDE DEF S
<1>9. 0 \in Nat
  OBVIOUS
<1>10. QED
  BY <1>2, <1>8, <1>9, ComesTo

(* The path at its start. *)
Nowhere == Acc({}, <<>>, 0, [main |-> 0, sub |-> 0, anim |-> 0])

(* The first datum. *)
LEMMA PathStarts ==
  ASSUME NEW i, NEW k, Lined(i, k), stat = PassData(chart)
  PROVE  LineStep(chart, stat, pos, k, i, Nowhere, FirstDatum(i)) \in PathAt(i, k, FirstDatum(i))
<1> DEFINE j == FirstDatum(i)
           F == LineFront(i, k)
           m == [main |-> 0, sub |-> 0, anim |-> 0]
           now == Now(i, k, j)
           P == PointAt(pos, i, j, now.main)
           q == PointBetween(pos, i, j, now.sub, stat[i][j + 1].prev, j + 1, N)
           y == LineStep(chart, stat, pos, k, i, Nowhere, j)
           on == now.sub > 0 /\ stat[i][j].next = j + 1
<1>1. j \in Defined(chart, i) /\ j \in 1 .. chart.labels /\ LastDatum(i) \in 1 .. chart.labels /\ j <= LastDatum(i)
  BY LineSpan
<1>2. OnLine(i, j) /\ j \in Nat \ {0}
  BY <1>1 DEF OnLine
<1>3. stat[i][1].first = j
  BY <1>2, GapLinked
<1>4. chart.data[i][j] # Missing
  BY <1>1, LineDatum
<1>5. GoesOn(i, k, j, 0, m)
  <2>1. ~(j > stat[i][1].first)
    BY <1>2, <1>3
  <2>2. ~(m.main > 0)
    OBVIOUS
  <2>3. QED
    BY <2>1, <2>2 DEF GoesOn
<1>6. F \in Int /\ Way(j) \in Int
  BY <1>1, NowIs
<1> HIDE DEF j, now, P, q, m, on, y
<1>7. y = IF on THEN Acc(Traced({}, P, q), q, j, now) ELSE Acc({}, P, j, now)
  BY <1>4, <1>5, StepValue DEF Nowhere, now, P, q, on, y, m
<1>8. CASE Way(j) <= F
  <2>1. Drawn(i, k, j) = {}
    BY DrawnEnds DEF j
  <2>2. (IF on THEN Acc(Traced({}, P, q), q, j, now) ELSE Acc({}, P, j, now)) \in Here(i, k, j) \union There(i, k, j)
    BY <1>1, <1>2, <1>8, <2>1, Onward DEF now, P, q, on
  <2>3. QED
    BY <1>7, <1>8, <2>2 DEF PathAt, y, j
<1>9. CASE ~(Way(j) <= F)
  <2>1. F < Way(j)
    <3> HIDE DEF F
    <3>1. QED
      BY <1>6, <1>9
  <2>2. LineSeen(i, k) = {}
    BY <1>6, <2>1, NothingSeen DEF j
  <2>3. now = Showing(0, 0)
    BY <1>1, <2>1, NowIs DEF now
  <2>4. ~on /\ now.main = 0
    BY <2>3 DEF on, Showing
  <2>5. P \in Int \X Int
    BY <1>1, <2>4, PointPlace DEF P
  <2>6. y = Acc({}, P, j, Showing(0, 0))
    BY <1>7, <2>3, <2>4
  <2>7. y \in Gone(i, k)
    BY <1>2, <2>2, <2>5, <2>6 DEF Gone
  <2>8. QED
    BY <1>9, <2>7 DEF PathAt, y, j
<1>10. QED
  BY <1>8, <1>9

(* Every other position. *)
LEMMA PathGoesOn ==
  ASSUME NEW i, NEW k, NEW j, After(i, k, j), NEW x \in PathAt(i, k, j - 1)
  PROVE  LineStep(chart, stat, pos, k, i, x, j) \in PathAt(i, k, j)
<1> DEFINE F == LineFront(i, k)
           l == j - 1
           y == LineStep(chart, stat, pos, k, i, x, j)
<1>1. Lined(i, k) /\ j \in 1 .. chart.labels /\ l \in 1 .. chart.labels /\ l + 1 = j /\ j \in Int
  BY AfterIs
<1>2. F \in Int /\ Way(l) \in Int /\ Way(j) \in Int
  BY <1>1, NowIs
<1>3. Way(l) <= Way(j)
  <2>1. l \in Int /\ l <= j
    BY <1>1
  <2> HIDE DEF l
  <2>2. QED
    BY <1>1, <2>1, WayIs
<1> HIDE DEF F
<1>4. CASE ~(Way(l) <= F)
  <2>1. x \in Gone(i, k)
    BY <1>4 DEF PathAt, F
  <2>2. ~(Way(j) <= F)
    BY <1>2, <1>3, <1>4
  <2>3. y \in Gone(i, k)
    BY <2>1, StaysGone
  <2>4. QED
    BY <2>2, <2>3 DEF PathAt, F
<1>5. CASE Way(l) <= F /\ ~(Way(j) <= F)
  <2>1. x \in Here(i, k, l) \/ x \in There(i, k, l) \/ x \in Gap(i, k, l)
    BY <1>5 DEF PathAt, F
  <2>2. F < Way(j)
    BY <1>2, <1>5
  <2>3. y \in Gone(i, k)
    BY <1>5, <2>1, <2>2, CutHere, CutThere, CutGap DEF F
  <2>4. QED
    BY <1>5, <2>3 DEF PathAt, F
<1>6. CASE Way(j) <= F
  <2>1. Way(l) <= F
    BY <1>2, <1>3, <1>6
  <2>2. x \in Here(i, k, l) \/ x \in There(i, k, l) \/ x \in Gap(i, k, l)
    BY <2>1 DEF PathAt, F
  <2>3. y \in Here(i, k, j) \/ y \in There(i, k, j) \/ y \in Gap(i, k, j)
    <3>1. CASE j \in Defined(chart, i)
      BY <1>6, <2>2, <3>1, DatumHere, DatumThere, DatumGap DEF F
    <3>2. CASE j \notin Defined(chart, i)
      BY <1>6, <2>2, <3>2, PassHere, PassThere, PassGap DEF F
    <3>3. QED
      BY <3>1, <3>2
  <2>4. QED
    BY <1>6, <2>3 DEF PathAt, F
<1>7. QED
  BY <1>4, <1>5, <1>6

(* The last datum. *)
LEMMA PathEnds ==
  ASSUME NEW i, NEW k, Lined(i, k), NEW x \in PathAt(i, k, LastDatum(i))
  PROVE  x.segments = LineSeen(i, k)
<1> DEFINE j == LastDatum(i)
<1>1. j \in Defined(chart, i) /\ j \in Int
  BY LineSpan
<1>2. Drawn(i, k, j) = LineSeen(i, k)
  BY DrawnEnds
<1>3. CASE x \in Here(i, k, j)
  <2>1. PICK f : x = Acc(Drawn(i, k, j), Met(i, k, j), f, Now(i, k, j))
    BY <1>3 DEF Here
  <2>2. QED
    BY <1>2, <2>1, AccIs
<1>4. x \notin There(i, k, j)
  <2>1. ~(j < LastDatum(i))
    BY <1>1
  <2>2. QED
    BY <2>1 DEF There, ThereIf
<1>5. x \notin Gap(i, k, j)
  BY <1>1 DEF Gap, GapIf
<1>6. CASE x \in Gone(i, k)
  <2>1. PICK p, f : x = Acc(LineSeen(i, k), p, f, Showing(0, 0))
    BY <1>6 DEF Gone
  <2>2. QED
    BY <2>1, AccIs
<1>7. QED
  BY <1>3, <1>4, <1>5, <1>6 DEF PathAt

(* The lines that drawLinesDataset draws. *)
LEMMA LineDrawn ==
  ASSUME NEW i, NEW k, Lined(i, k), stat = PassData(chart)
  PROVE  drawLinesDataset(chart, stat, pos, k, i) = LineSeen(i, k)
<1> DEFINE first == stat[i][1].first
           last == stat[i][1].last
           n == last - first + 1
           step(x, l) == LineStep(chart, stat, pos, k, i, x, first + l - 1)
           value(u, l) == IF l = 0 THEN Nowhere ELSE step(u[l - 1], l)
           Is(u) == u = [l \in 0 .. n |-> value(u, l)]
           U == CHOOSE u : Is(u)
           R == [l \in 0 .. n |-> IF l = 0 THEN {Nowhere} ELSE PathAt(i, k, first + l - 1)]
           Q == UNION {R[l] : l \in 0 .. n}
           G == [l \in 1 .. n |-> [x \in Q |-> IF step(x, l) \in Q THEN step(x, l) ELSE Nowhere]]
<1>1. /\ FirstDatum(i) \in 1 .. chart.labels /\ LastDatum(i) \in 1 .. chart.labels /\ FirstDatum(i) <= LastDatum(i)
  BY LineSpan
<1>2. OnLine(i, FirstDatum(i))
  BY <1>1 DEF OnLine
<1>3. first = FirstDatum(i) /\ last = LastDatum(i)
  BY <1>2, GapLinked
<1>4. first \in Nat \ {0} /\ last \in Nat /\ first <= last
  BY <1>1, <1>3
<1>5. drawLinesDataset(chart, stat, pos, k, i) = U[n].segments
  <2>1. tpdraw(chart, i) = "Line"
    BY DEF Lined
  <2>2. first # 0
    BY <1>4
  <2>3. QED
    BY <2>1, <2>2 DEF drawLinesDataset, Nowhere, Acc
<1> HIDE DEF first, last
<1>6. n \in Nat /\ n >= 1 /\ first + n - 1 = last
  BY <1>4
<1> HIDE DEF n
<1>7. ASSUME NEW l \in 1 .. n, NEW x \in R[l - 1] PROVE step(x, l) \in R[l]
  <2> DEFINE j == first + l - 1
  <2>1. l \in Int /\ l \in 0 .. n /\ l - 1 \in 0 .. n /\ l # 0
    BY <1>6
  <2>2. R[l] = PathAt(i, k, j)
    BY <2>1
  <2>3. CASE l = 1
    <3>1. R[l - 1] = {Nowhere}
      BY <2>1, <2>3
    <3>2. j = FirstDatum(i)
      BY <1>3, <1>4, <2>3
    <3> HIDE DEF R, j
    <3>3. LineStep(chart, stat, pos, k, i, Nowhere, j) \in PathAt(i, k, j)
      BY <3>2, PathStarts
    <3>4. QED
      BY <2>2, <3>1, <3>3 DEF j
  <2>4. CASE l # 1
    <3>1. l - 1 # 0 /\ first + (l - 1) - 1 = j - 1 /\ j # first /\ j \in first .. last
      <4>1. l >= 2 /\ l <= n
        BY <1>6, <2>1, <2>4
      <4>2. QED
        BY <1>4, <1>6, <2>1, <4>1 DEF n
    <3>2. R[l - 1] = PathAt(i, k, first + (l - 1) - 1)
      BY <2>1, <3>1
    <3> HIDE DEF R, j
    <3>3. After(i, k, j)
      BY <1>3, <3>1 DEF After, OnLine
    <3>4. x \in PathAt(i, k, j - 1)
      BY <3>1, <3>2
    <3>5. LineStep(chart, stat, pos, k, i, x, j) \in PathAt(i, k, j)
      BY <3>3, <3>4, PathGoesOn
    <3>6. QED
      BY <2>2, <3>5 DEF j
  <2>5. QED
    BY <2>3, <2>4
<1> HIDE DEF step
<1>8. R[0] = {Nowhere} /\ R[n] = PathAt(i, k, LastDatum(i))
  <2>1. n \in 0 .. n /\ 0 \in 0 .. n /\ n # 0
    BY <1>6
  <2>2. R[n] = PathAt(i, k, first + n - 1)
    BY <2>1
  <2>3. QED
    BY <1>3, <1>6, <2>1, <2>2
<1>9. Nowhere \in Q /\ \A l \in 0 .. n : R[l] \subseteq Q
  <2>1. 0 \in 0 .. n
    BY <1>6
  <2> HIDE DEF R
  <2>2. QED
    BY <1>8, <2>1
<1> HIDE DEF R, Q
<1>10. PICK u \in [0 .. n -> Q] : u[0] = Nowhere /\ \A l \in 1 .. n : u[l] = G[l][u[l - 1]]
  <2>1. \A l \in 1 .. n : \A x \in Q : (IF step(x, l) \in Q THEN step(x, l) ELSE Nowhere) \in Q
    BY <1>9
  <2>2. G \in Steps(n, Q)
    BY <2>1 DEF Steps
  <2> HIDE DEF G
  <2>3. Runs(n, Q, Nowhere, G) # {}
    BY <1>6, <1>9, <2>2, Recursion
  <2>4. QED
    BY <2>3 DEF Runs
<1>11. ASSUME NEW l \in 1 .. n, u[l - 1] \in R[l - 1] PROVE u[l] = step(u[l - 1], l) /\ u[l] \in R[l]
  <2>1. l - 1 \in 0 .. n /\ l \in 0 .. n
    BY <1>6
  <2>2. u[l - 1] \in Q
    BY <2>1
  <2>3. step(u[l - 1], l) \in R[l]
    BY <1>7, <1>11
  <2>4. step(u[l - 1], l) \in Q
    BY <1>9, <2>1, <2>3
  <2>5. G[l][u[l - 1]] = step(u[l - 1], l)
    BY <2>2, <2>4
  <2> HIDE DEF G
  <2>6. QED
    BY <1>10, <2>3, <2>5
<1>12. \A l \in 0 .. n : u[l] \in R[l]
  <2>1. u[0] \in R[0]
    BY <1>8, <1>10
  <2>2. \A l \in 1 .. n : u[l - 1] \in R[l - 1] => u[l] \in R[l]
    BY <1>11
  <2> HIDE DEF G
  <2>3. QED
    BY <1>6, <2>1, <2>2, EveryPosition
<1>13. ASSUME NEW l \in 0 .. n PROVE u[l] = value(u, l)
  <2>1. CASE l = 0
    BY <1>10, <2>1
  <2>2. CASE l # 0
    <3>1. l \in 1 .. n /\ l - 1 \in 0 .. n
      BY <1>6, <2>2
    <3>2. QED
      BY <1>11, <1>12, <2>2, <3>1
  <2>3. QED
    BY <2>1, <2>2
<1>14. Is(u)
  <2> HIDE DEF value
  <2>1. u = [l \in 0 .. n |-> u[l]]
    OBVIOUS
  <2>2. QED
    BY <1>13, <2>1
<1>15. Is(U)
  <2> HIDE DEF Is
  <2>1. QED
    BY <1>14
<1>16. ASSUME NEW l \in 0 .. n PROVE U[l] = value(U, l)
  <2> HIDE DEF U, value
  <2>1. QED
    BY <1>15
<1> HIDE DEF U, Is, G
<1>17. \A l \in 0 .. n : U[l] \in R[l]
  <2>1. U[0] \in R[0]
    <3>1. 0 \in 0 .. n
      BY <1>6
    <3>2. QED
      BY <1>8, <1>16, <3>1
  <2>2. ASSUME NEW l \in 1 .. n, U[l - 1] \in R[l - 1] PROVE U[l] \in R[l]
    <3>1. l \in 0 .. n /\ l # 0
      BY <1>6
    <3>2. U[l] = step(U[l - 1], l)
      BY <1>16, <3>1
    <3>3. QED
      BY <1>7, <2>2, <3>2
  <2>3. QED
    BY <1>6, <2>1, <2>2, EveryPosition
<1>18. U[n] \in PathAt(i, k, LastDatum(i))
  <2>1. n \in 0 .. n
    BY <1>6
  <2>2. QED
    BY <1>8, <1>17, <2>1
<1>19. QED
  BY <1>5, <1>18, PathEnds

(* A line without data. *)
LEMMA NoLine ==
  ASSUME Prepared(chart), stat = PassData(chart), NEW i \in Rows(chart), tpdraw(chart, i) = "Line",
         Defined(chart, i) = {}, chart.labels > 0, NEW k
  PROVE  drawLinesDataset(chart, stat, pos, k, i) = {} /\ LineSeen(i, k) = {}
<1>1. 1 \in 1 .. chart.labels
  BY DEF Prepared
<1>2. FieldsRight(chart, Sets(chart, i - 1), i, 1, stat[i][1])
  BY <1>1, DataLinked
<1>3. stat[i][1].first = 0
  BY <1>2 DEF FieldsRight, Ends, FirstOf
<1>4. Joined(i) = {}
  BY DEF Joined
<1>5. QED
  BY <1>3, <1>4 DEF drawLinesDataset, LineSeen

(* The chart before its first step. *)
LEMMA LineStart == Init => LineIInv
<1> SUFFICES ASSUME Init PROVE LineIInv
  OBVIOUS
<1>1. frame = 0 /\ N \in Nat \ {0}
  BY StepsAssumption DEF Init, N
<1>2. QED
  BY <1>1 DEF LineIInv, Init

(* Before the first frame there are no lines. *)
LEMMA LineQuiet ==
  ASSUME LineIInv, pc \notin {"frame", "done"}, UNCHANGED frame
  PROVE  LineIInv'
<1>1. N \in Nat \ {0}
  BY StepsAssumption DEF N
<1>2. frame = 0
  BY <1>1 DEF LineIInv
<1>3. frame' = 0 /\ N' = N
  BY <1>2 DEF N
<1>4. QED
  BY <1>1, <1>3 DEF LineIInv

(* Every step keeps the invariant. *)
LEMMA LineInvStep == LineIInv /\ [Next]_vars => LineIInv'
<1> SUFFICES ASSUME LineIInv, [Next]_vars PROVE LineIInv'
  OBVIOUS
<1>0. N \in Nat \ {0} /\ N' = N
  BY StepsAssumption DEF N
<1>1. CASE Adapt \/ AdaptHorizontal \/ Pass1 \/ Pass1Round \/ Bounds
  <2>1. pc \in {"start", "pass1", "bounds"} /\ UNCHANGED frame
    BY <1>1 DEF Adapt, AdaptHorizontal, Pass1, Pass1Round, Bounds
  <2>2. QED
    BY <2>1, LineQuiet
<1>2. CASE GivenScale \/ LogarithmicScale \/ FinishScale
  <2>1. pc \in {"scale", "adapt"} /\ UNCHANGED frame
    BY <1>2 DEF GivenScale, LogarithmicScale, FinishScale, ScaleIs
  <2>2. QED
    BY <2>1, LineQuiet
<1>3. CASE GuessScale \/ HalveStep \/ DoubleStep
  <2>1. pc \in {"scale", "adapt"} /\ UNCHANGED frame
    BY <1>3 DEF GuessScale, HalveStep, DoubleStep
  <2>2. QED
    BY <2>1, LineQuiet
<1>4. CASE Place \/ PlaceHorizontal
  <2>1. pc = "place" /\ UNCHANGED frame
    BY <1>4 DEF Place, PlaceHorizontal, Placed
  <2>2. QED
    BY <2>1, LineQuiet
<1>5. CASE drawBars \/ drawPieSegments
  <2>1. /\ pc = "frame" /\ frame' = frame + 1 /\ UNCHANGED <<chart, stat, pos>>
        /\ pc' = IF frame' = N THEN "done" ELSE "frame"
    BY <1>5 DEF drawBars, drawPieSegments, FrameDrawn
  <2>2. frame \in 0 .. N /\ frame < N
    BY <2>1 DEF LineIInv
  <2>3. frame' \in 0 .. N /\ (pc' = "frame" => frame' < N) /\ pc' \in {"frame", "done"}
    BY <1>0, <2>1, <2>2
  <2>4. Round(chart)' <=> Round(chart)
    BY <2>1 DEF Round
  <2>5. ~Round(chart) => lines' = [i \in Rows(chart) |-> drawLinesDataset(chart, stat, pos, frame', i)]
    BY <1>5 DEF drawBars, drawPieSegments
  <2>6. ~Round(chart)' => lines' = [i \in Rows(chart) |-> drawLinesDataset(chart, stat, pos, frame, i)]'
    BY <2>1, <2>4, <2>5 DEF Rows
  <2>7. QED
    BY <1>0, <2>3, <2>6 DEF LineIInv
<1>6. CASE MouseMove \/ MouseClick
  <2>1. UNCHANGED <<chart, pc, pos, frame, lines>>
    BY <1>6 DEF MouseMove, MouseClick
  <2>2. ~Round(chart) => stat' = stat
    BY <1>6 DEF MouseMove, MouseClick, doMouseAction
  <2>3. Round(chart)' <=> Round(chart)
    BY <2>1 DEF Round
  <2>4. QED
    BY <1>0, <2>1, <2>2, <2>3 DEF LineIInv, Rows
<1>7. CASE UNCHANGED vars
  <2>1. UNCHANGED <<chart, pc, stat, pos, frame, lines>>
    BY <1>7 DEF vars
  <2>2. Round(chart)' <=> Round(chart)
    BY <2>1 DEF Round
  <2>3. QED
    BY <1>0, <2>1, <2>2 DEF LineIInv, Rows
<1>8. QED
  BY <1>1, <1>2, <1>3, <1>4, <1>5, <1>6, <1>7 DEF Next, Pass, AdaptScale

(* The lines are always those of the last frame (drawLinesDataset).         *)
THEOREM LineInvariant == Spec => []LineIInv
  BY LineStart, LineInvStep, PTL DEF Spec

(* In every frame the line of a dataset is the polyline through its data,   *)
(* over a gap only when missing data are extrapolated, scaled by the        *)
(* progress of the animation or cut off at its front: for all data and all  *)
(* options of the animation, whatever the number of datasets, data and      *)
(* frames (drawLinesDataset, animationCorrection).                          *)
THEOREM LinesFollow == Spec => [](Drawable => LineFollows)
<1>1. ScaleIInv /\ LinkIInv /\ PlaceIInv /\ FindIInv /\ LineIInv => (Drawable => LineFollows)
  <2> SUFFICES ASSUME ScaleIInv, LinkIInv, PlaceIInv, FindIInv, LineIInv, Drawable, frame > 0, ~Round(chart),
                      NEW i \in Rows(chart), tpdraw(chart, i) = "Line"
               PROVE  lines[i] = LineSeen(i, frame)
    BY DEF LineFollows
  <2>1. pc \in {"frame", "done"} /\ frame \in 0 .. N
    BY DEF LineIInv
  <2>2. lines[i] = drawLinesDataset(chart, stat, pos, frame, i)
    BY DEF LineIInv
  <2>3. Prepared(chart) /\ stat = PassData(chart)
    BY <2>1 DEF LinkIInv
  <2>4. pos = initPassVariableData_part2(chart, scales, bounds)
    BY <2>1 DEF FindIInv, PlaceIInv
  <2>5. Laid
    BY <2>1, <2>3, <2>4 DEF Laid, Placing, Drawable, PlaceIInv, ScaleIInv
  <2>6. frame \in 1 .. N
    <3>1. N \in Nat
      BY StepsAssumption DEF N
    <3>2. QED
      BY <2>1, <3>1
  <2>7. CASE Defined(chart, i) = {}
    BY <2>2, <2>3, <2>7, NoLine DEF Drawable
  <2>8. CASE Defined(chart, i) # {}
    <3>1. Lined(i, frame)
      BY <2>5, <2>6, <2>8 DEF Lined, Drawable
    <3>2. QED
      BY <2>2, <2>3, <3>1, LineDrawn
  <2>9. QED
    BY <2>7, <2>8
<1>2. QED
  BY <1>1, ScaleInvariant, LinkInvariant, PlaceInvariant, FindInvariant, LineInvariant, PTL
=============================================================================
