----------------------------- MODULE ChartScale -----------------------------
(***************************************************************************)
(* The arithmetic of ChartNew.js that turns the values of a chart into a   *)
(* scale, and a value into a distance from the axis.  The module has no    *)
(* state: ChartDrawing calls these operators from the steps of a pass.     *)
(*                                                                         *)
(* Numbers are exact.  A value is an integer in units of 1/Unit, so that   *)
(* the factors 1.1 and 0.9 and the repeated halving of a step stay         *)
(* integers; the code computes in floating point and compares with a       *)
(* tolerance of zeroValue, which exact numbers do not need.                *)
(***************************************************************************)
EXTENDS Integers, FiniteSetsExt

\* The unit of the values, and the powers of ten a scale can start from.
Unit == 1600
Powers == {16, 160, 1600, 16000, 160000, 1600000}

\* An undefined datum, and an option that was not given.
Missing == -1000000000
NotSet == Missing

\* Math.floor, Math.ceil and Math.round of x / y, for y > 0.
FloorDiv(x, y) == x \div y
CeilDiv(x, y) == -((-x) \div y)
RoundDiv(x, y) == (2 * x + y) \div (2 * y)

\* What is left of x after taking away the JavaScript remainder x % y, whose
\* sign is the sign of x.
Truncate(x, y) == IF x >= 0 THEN x - (x % y) ELSE x + ((-x) % y)

\* The power of ten at or below val, which stands for its exponent.
calculateOrderOfMagnitude(val) ==
    IF val = 0 THEN Unit ELSE Max({p \in Powers : p <= val})

\* The number of powers of ten from p up to q.
Decades(p, q) == Cardinality({r \in Powers : p < r /\ r <= q})

CapValue(val, hi, lo) ==
    CASE val > hi -> hi
      [] val <= hi /\ val < lo -> lo
      [] OTHER -> val

\* Whole intervals are rounded to whole numbers and fractional ones, which
\* have one decimal here, to hundredths.  The interval of the first axis
\* decides, for the second axis too.
roundScale(interval, value) ==
    LET q == IF interval = NotSet \/ interval % Unit = 0 THEN Unit ELSE Unit \div 100
    IN  RoundDiv(value, q) * q

-----------------------------------------------------------------------------
\* Bounds without extent are widened, so that a range is never zero.
Stretch(lo, hi) ==
    LET l == IF hi < lo THEN 0 ELSE lo
        u == IF hi < lo THEN 0 ELSE hi
        h == IF u = 0 THEN (9 * Unit) \div 10 ELSE u
    IN  CASE l # u -> [lo |-> l, hi |-> u]
          [] l = u /\ h > 0 -> [lo |-> (9 * l) \div 10, hi |-> (11 * h) \div 10]
          [] OTHER -> [lo |-> (11 * l) \div 10, hi |-> (9 * h) \div 10]

\* The options graphMin and graphMax take the place of computed bounds.
Override(b, graphMin, graphMax) ==
    [lo |-> IF graphMin = NotSet THEN b.lo ELSE graphMin,
     hi |-> IF graphMax = NotSet THEN b.hi ELSE graphMax]

\* The least and the greatest of a set of values; without values the extremes
\* of the number type, which Stretch then turns into zero.
Extent(S) ==
    IF S = {} THEN [lo |-> -Missing, hi |-> Missing] ELSE [lo |-> Min(S), hi |-> Max(S)]

-----------------------------------------------------------------------------
(***************************************************************************)
(* calculateScale.  A scale is its lowest value, the value of one step and *)
(* the number of steps; max is the graphMax of the code, which only the    *)
(* computation uses.                                                       *)
(***************************************************************************)

\* The end of the scale: a whole number of intervals below lo and above hi.
\* Negative graphs (graphMax < 0) ignore the interval.
LowEnd(lo, graphMin, interval) ==
    LET t == Truncate(graphMin, interval)
    IN  IF t > lo THEN t - CeilDiv(t - lo, interval) * interval ELSE t

HighEnd(hi, graphMax, interval, interval1) ==
    LET t == IF graphMax % interval = 0 THEN graphMax
             ELSE roundScale(interval1, (1 + graphMax \div interval) * interval)
    IN  IF t < hi THEN t + CeilDiv(hi - t, interval) * interval ELSE t

\* The first guess: steps of the order of magnitude of the range.
FirstScale(lo, hi, interval, interval1) ==
    LET p == calculateOrderOfMagnitude(hi - lo)
        gmin == FloorDiv(lo, p) * p
        gmax == CeilDiv(hi, p) * p
        aligned == interval # NotSet /\ gmax >= 0
        low == IF aligned THEN LowEnd(lo, gmin, interval) ELSE gmin
        high == IF aligned THEN HighEnd(hi, gmax, interval, interval1) ELSE gmax
    IN  [graphMin |-> low, stepValue |-> p, steps |-> RoundDiv(high - low, p),
         max |-> high, logarithmic |-> FALSE]

\* A logarithmic scale has one step for every power of ten.
LogScale(lo0, hi0) ==
    LET hi == IF lo0 = hi0 THEN hi0 + Unit ELSE hi0
        lo == IF lo0 = 0 THEN Unit \div 100 ELSE lo0
        gmin == calculateOrderOfMagnitude(lo)
        gmax == 10 * calculateOrderOfMagnitude(hi)
    IN  [graphMin |-> gmin, stepValue |-> 1,
         steps |-> 1 + Decades(gmin, calculateOrderOfMagnitude(hi)),
         max |-> gmax, logarithmic |-> TRUE]

\* A scale s with another step: the loop rounds the number of steps, the
\* interval rounds it up.
WithStep(s, step) ==
    [s EXCEPT !.stepValue = step, !.steps = RoundDiv(s.max - s.graphMin, step)]
WithStepUp(s, step) ==
    [s EXCEPT !.stepValue = step, !.steps = CeilDiv(s.max - s.graphMin, step)]

TooFew(s, minSteps, interval) ==
    s.steps < minSteps /\ (interval = NotSet \/ s.stepValue >= 2 * interval)

\* Faulty: the step is doubled down to the least number of steps.
TooManyForMin(s, minSteps, maxSteps) == s.steps > minSteps

TooMany(s, minSteps, maxSteps) == s.steps >= minSteps /\ s.steps > maxSteps

\* The step becomes a multiple of the interval.
OnInterval(s, interval, interval1) ==
    LET t == IF s.stepValue < interval THEN WithStepUp(s, interval) ELSE s
    IN  CASE interval = NotSet -> s
          [] interval # NotSet /\ t.stepValue % interval = 0 -> t
          [] interval # NotSet /\ t.stepValue % interval # 0 ->
               WithStepUp(t, IF (2 * t.stepValue) % interval = 0 THEN 2 * t.stepValue
                             ELSE roundScale(interval1, (1 + t.stepValue \div interval) * interval))

\* Steps without data at the bottom and at the top are cut off, down to two.
TrimBottom(s, lo) ==
    LET k == Max({0} \union {n \in 1..(s.steps - 2) : s.graphMin + n * s.stepValue < lo})
    IN  [s EXCEPT !.graphMin = @ + k * s.stepValue, !.steps = @ - k]

\* Faulty: one step more is cut off.
TrimTopOneMore(s, hi) ==
    LET k == Max({0} \union {n \in 1..(s.steps - 2) :
                               s.graphMin + (s.steps - n + 1) * s.stepValue >= hi})
    IN  [s EXCEPT !.steps = @ - k]

TrimTop(s, hi) ==
    LET k == Max({0} \union {n \in 1..(s.steps - 2) :
                               s.graphMin + (s.steps - n) * s.stepValue >= hi})
    IN  [s EXCEPT !.steps = @ - k]

-----------------------------------------------------------------------------
\* The distance of val from the bottom of the scale, in units of 1/stepValue
\* pixel (a logarithmic scale has stepValue 1, and places a value at the power
\* of ten below it).
calculateOffset(val, s, scaleHop) ==
    IF s.logarithmic
      THEN scaleHop * Decades(s.graphMin, val)
      ELSE scaleHop * CapValue(val - s.graphMin, s.steps * s.stepValue, 0)
=============================================================================
