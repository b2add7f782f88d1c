---------------------------- MODULE ChartDrawing ----------------------------
(***************************************************************************)
(* One redraw of a chart by ChartNew.js: what Line, Bar, StackedBar, the   *)
(* horizontal variants of the last two, Pie and Doughnut do between        *)
(* init_and_start and the last frame of the animation, and the mouse       *)
(* events the drawn chart answers.                                         *)
(*                                                                         *)
(*   start  rows are reversed if asked for, a single datum and short       *)
(*          datasets are padded;                                           *)
(*   pass1  initPassVariableData_part1 links every datum to its neighbours *)
(*          (stat);                                                        *)
(*   bounds getValueBounds; a chart too low for a scale is not drawn;      *)
(*   scale  calculateScale, for one axis and then the other (adapt is its  *)
(*          loop, one iteration a step);                                   *)
(*   place  initPassVariableData_part2 gives every datum its position;     *)
(*   frame  drawLines, drawBars or drawPieSegments, once for each frame;   *)
(*   done   the annotations of the last frame answer the mouse.            *)
(*                                                                         *)
(* The engine around a redraw (which pass runs, when frames come) is       *)
(* ChartEngine; the texts, colours, legends and margins of setMeasures are *)
(* not modelled, a chart has the height and width they leave.              *)
(*                                                                         *)
(* Positions count from the axis: upwards, and to the right for horizontal *)
(* charts, whose columns are rows.  Indices count from 1, and 0 is the -1  *)
(* of the code.                                                            *)
(***************************************************************************)
EXTENDS ChartScale, SequencesExt

CONSTANTS Charts,           \* the charts to draw
          AnimationSteps,   \* the frames of an animation
          MouseEvents       \* bound on the mouse events

VARIABLES chart,     \* type, data, labels, axes, size and options of the chart
          pc,        \* the phase of the pass
          stat,      \* statData of part 1
          bounds,    \* the bounds of the two axes
          axis,      \* the axis whose scale is computed
          scales,    \* calculatedScale and calculatedScale2
          pos,       \* the positions part 2 adds to statData
          frame,     \* frames drawn so far
          lines,     \* the line segments of the last frame, for each dataset
          annotate,  \* jsGraphAnnotate of the chart
          mouse      \* the last mouse event: at which annotation, what it found

vars == <<chart, pc, stat, bounds, axis, scales, pos, frame, lines, annotate, mouse>>

N == AnimationSteps

\* The options of the default configuration that a position depends on, in
\* pixels.
scaleTickSize == 5
scaleGridLineWidth == 1
barValueSpacing == 5
barDatasetSpacing == 1
barStrokeWidth == 2
pointHitDetectionRadius == 10

\* The full circle; a segment that would fill it is a thousandth smaller.
Circle == 2520

NoScale == [graphMin |-> 0, stepValue |-> 1, steps |-> 0, max |-> 0, logarithmic |-> FALSE]
NoMouse == [at |-> 0, click |-> FALSE, shown |-> 0, called |-> {}, count |-> 0]

-----------------------------------------------------------------------------
(* The data. *)

Horizontal(ch) == ch.type \in {"HorizontalBar", "HorizontalStackedBar"}
Stacked(ch) == ch.type \in {"StackedBar", "HorizontalStackedBar"}
Round(ch) == ch.type \in {"Pie", "Doughnut"}

Rows(ch) == DOMAIN ch.data
Defined(ch, i) == {j \in DOMAIN ch.data[i] : ch.data[i][j] # Missing}
OnAxis(ch, a) == {i \in Rows(ch) : ch.axis[i] = a}
Column(ch, j) == {i \in Rows(ch) : j \in Defined(ch, i)}
FirstOf(S) == IF S = {} THEN 0 ELSE Min(S)
LastOf(S) == IF S = {} THEN 0 ELSE Max(S)

\* The sum of the numbers f[i] for the positions i in S, up to n.
Total(n, f, S) ==
    LET sum[i \in 0..n] == IF i = 0 THEN 0 ELSE sum[i - 1] + (IF i \in S THEN f[i] ELSE 0)
    IN  sum[n]
ColumnSum(ch, S, j) == Total(Len(ch.data), [i \in Rows(ch) |-> ch.data[i][j]], S)

\* What a page hands over: at least one dataset, whose data are numbers or
\* missing and have labels, an axis for each dataset, and options that make
\* sense.  A given scale has steps, an interval is at least a hundredth.
Types == {"Line", "Bar", "StackedBar", "HorizontalBar", "HorizontalStackedBar", "Pie", "Doughnut"}

Rising(s) ==
    /\ s.graphMin \in Int /\ s.stepValue \in Nat \ {0} /\ s.steps \in Nat \ {0}
    /\ s.logarithmic => s.max \in Int /\ 0 < s.graphMin /\ s.graphMin <= s.max

Framed(ch) ==
    /\ ch.type \in Types /\ ch.height \in Nat /\ ch.width \in Nat
    /\ ch.opts.startAngle \in Int /\ ch.opts.spaceBetweenBar \in Nat
    /\ ch.opts.animationStartWithDataset \in Int /\ ch.opts.animationStartWithData \in Int
    /\ \A a \in 1..2 :
         /\ ch.opts.scaleOverride[a] = NoScale \/ Rising(ch.opts.scaleOverride[a])
         /\ \/ ch.opts.yAxisMinimumInterval[a] = NotSet
            \/ ch.opts.yAxisMinimumInterval[a] \in Nat /\ ch.opts.yAxisMinimumInterval[a] >= Unit \div 100

WellFormed(ch) ==
    /\ DOMAIN ch = {"type", "data", "labels", "axis", "drawn", "height", "labelHeight", "width", "opts"}
    /\ Framed(ch)
    /\ ch.labels \in Nat /\ ch.data \in Seq(Seq(Int)) /\ ch.data # <<>>
    /\ \A i \in Rows(ch) : Len(ch.data[i]) <= ch.labels /\ ch.axis[i] \in 1..2

\* There is at least one frame (CapValue in animationLoop).
ASSUME StepsAssumption == AnimationSteps \in Nat \ {0}

ASSUME ChartsAssumption == \A ch \in Charts : WellFormed(ch)

\* A dataset of a Bar chart may be drawn as a line.
tpdraw(ch, i) == IF ch.type = "Bar" /\ ch.drawn[i] = "Line" THEN "Line" ELSE ch.type

\* Line turns a single datum into the middle one of three; every dataset is
\* then filled up to the number of labels.
Filled(row, n) == row \o [k \in 1..(n - Len(row)) |-> Missing]
Adapted(ch) ==
    LET single == ch.type = "Line" /\ Max({Len(ch.data[i]) : i \in Rows(ch)}) = 1
        labels == IF single THEN 3 ELSE ch.labels
        row(i) == IF ~single THEN ch.data[i]
                  ELSE <<Missing, IF ch.data[i] = <<>> THEN Missing ELSE ch.data[i][1], Missing>>
    IN  [ch EXCEPT !.labels = labels,
                   !.data = [i \in Rows(ch) |-> Filled(row(i), labels)]]

\* The first drawing of a horizontal chart can turn its data around, so that
\* the first label is the upper one.
reverseData(ch) == [ch EXCEPT !.data = [i \in Rows(ch) |-> Reverse(ch.data[i])]]

-----------------------------------------------------------------------------
(* initPassVariableData_part1 *)

\* The first loop collects the ends of the dataset (lines) or of the column
\* (bars), and the total of the column.
Ends(ch, i, j) == IF tpdraw(ch, i) = "Line" THEN Defined(ch, i) ELSE Column(ch, j)
Totvalue(ch, i, j) == ColumnSum(ch, Column(ch, j) \intersect OnAxis(ch, ch.axis[i]), j)

\* The second loop keeps, for the datasets above, the running sum of each
\* column and axis and the last line in it.
Entry(ch, above, i, j, before, empty) ==
    LET v == ch.data[i][j]
        p == above.prevpos[ch.axis[i]][j]
    IN  [value |-> v, first |-> FirstOf(Ends(ch, i, j)), last |-> LastOf(Ends(ch, i, j)),
         prev |-> before, prevMissing |-> empty, next |-> 0,
         cumvalue |-> above.cumvalue[ch.axis[i]][j] + (IF v = Missing THEN 0 ELSE v),
         totvalue |-> Totvalue(ch, i, j), diffnext |-> v,
         diffprev |-> IF tpdraw(ch, i) # "Line" \/ p = 0 THEN NotSet ELSE v - ch.data[p][j]]

\* Faulty: only the last defined datum gets its next one.
PassDatumLastOnly(ch, above, i, row, j) ==
    LET before == row.prevnotemptyj
        linked == IF before = 0 THEN row.entries ELSE [row.entries EXCEPT ![before].next = j]
    IN  IF ch.data[i][j] = Missing
          THEN [row EXCEPT !.entries = Append(@, Entry(ch, above, i, j, before, j)), !.prevemptyj = j]
          ELSE [row EXCEPT !.entries = Append(linked, Entry(ch, above, i, j, before, row.prevemptyj)),
                           !.prevnotemptyj = j]

\* The data of one dataset: a datum is the next one of every datum from the
\* last defined one on.
PassDatum(ch, above, i, row, j) ==
    LET before == row.prevnotemptyj
        linked == [k \in DOMAIN row.entries |->
                     IF before # 0 /\ k >= before THEN [row.entries[k] EXCEPT !.next = j]
                     ELSE row.entries[k]]
    IN  IF ch.data[i][j] = Missing
          THEN [row EXCEPT !.entries = Append(@, Entry(ch, above, i, j, before, j)), !.prevemptyj = j]
          ELSE [row EXCEPT !.entries = Append(linked, Entry(ch, above, i, j, before, row.prevemptyj)),
                           !.prevnotemptyj = j]

RowEntries(ch, above, i) ==
    LET start == [entries |-> <<>>, prevnotemptyj |-> 0, prevemptyj |-> 0]
        pass[j \in 0..ch.labels] ==
            IF j = 0 THEN start ELSE PassDatum(ch, above, i, pass[j - 1], j)
    IN  pass[ch.labels].entries

\* One dataset: it also completes the differences of the lines above it.
PassRow(ch, above, i) ==
    LET row == RowEntries(ch, above, i)
        a == ch.axis[i]
        met(j) == tpdraw(ch, i) = "Line" /\ j \in Defined(ch, i)
        compared(p) == [j \in 1..ch.labels |->
                          IF met(j) /\ above.prevpos[a][j] = p
                            THEN [above.result[p][j] EXCEPT !.diffnext = ch.data[p][j] - ch.data[i][j]]
                            ELSE above.result[p][j]]
    IN  [result |-> Append([p \in DOMAIN above.result |-> compared(p)], row),
         cumvalue |-> [above.cumvalue EXCEPT ![a] = [j \in 1..ch.labels |-> row[j].cumvalue]],
         prevpos |-> [above.prevpos EXCEPT ![a] = [j \in 1..ch.labels |-> IF met(j) THEN i ELSE @[j]]]]

PassData(ch) ==
    LET zero == [a \in 1..2 |-> [j \in 1..ch.labels |-> 0]]
        start == [result |-> <<>>, cumvalue |-> zero, prevpos |-> zero]
        pass[i \in 0..Len(ch.data)] == IF i = 0 THEN start ELSE PassRow(ch, pass[i - 1], i)
    IN  pass[Len(ch.data)].result

\* The data of a pie are one row; negative values take no part.  A total of
\* zero gives angles that are not numbers, which nothing hits: they are empty.
InPie(ch) == {i \in Defined(ch, 1) : ch.data[1][i] >= 0}

Segment(ch, i) ==
    LET tot == Total(Len(ch.data[1]), ch.data[1], InPie(ch))
        share == IF tot = 0 THEN 0 ELSE (ch.data[1][i] * Circle) \div tot
    IN  IF share >= Circle THEN Circle - 1 ELSE share

PassSegment(ch, acc, i) ==
    LET item == [value |-> ch.data[1][i], startAngle |-> acc.angle, segmentAngle |-> Segment(ch, i),
                 endAngle |-> acc.angle + Segment(ch, i), prev |-> acc.prev, next |-> 0,
                 cumvalue |-> acc.cumvalue + ch.data[1][i]]
        none == [value |-> Missing, startAngle |-> 0, segmentAngle |-> 0, endAngle |-> 0,
                 prev |-> acc.prev, next |-> 0, cumvalue |-> 0]
        linked == [k \in DOMAIN acc.result |->
                     IF k = acc.prev THEN [acc.result[k] EXCEPT !.next = i] ELSE acc.result[k]]
    IN  IF i \notin InPie(ch) THEN [acc EXCEPT !.result = Append(@, none)]
        ELSE [result |-> Append(linked, item), angle |-> acc.angle + Segment(ch, i), prev |-> i,
              cumvalue |-> acc.cumvalue + ch.data[1][i]]

PassPie(ch) ==
    LET start == [result |-> <<>>, angle |-> (-ch.opts.startAngle) % Circle, prev |-> 0, cumvalue |-> 0]
        pass[i \in 0..Len(ch.data[1])] == IF i = 0 THEN start ELSE PassSegment(ch, pass[i - 1], i)
    IN  pass[Len(ch.data[1])].result

-----------------------------------------------------------------------------
(* getValueBounds *)

AxisValues(ch, a) == UNION {{ch.data[i][j] : j \in Defined(ch, i)} : i \in OnAxis(ch, a)}

\* Line and Bar: each axis has its own bounds, and the first one borrows those
\* of the second when it has no data.
LineBounds(ch) ==
    LET own(a) == LET e == Extent(AxisValues(ch, a))
                  IN  Override(Stretch(e.lo, e.hi), ch.opts.graphMin[a], ch.opts.graphMax[a])
        onlySecond == AxisValues(ch, 1) = {} /\ AxisValues(ch, 2) # {}
    IN  <<IF onlySecond THEN own(2) ELSE own(1), own(2)>>

\* HorizontalBar: one axis, whatever the axis of a dataset.
HorizontalBounds(ch) ==
    LET e == Extent(AxisValues(ch, 1) \union AxisValues(ch, 2))
    IN  <<Override(Stretch(e.lo, e.hi), ch.opts.graphMin[1], ch.opts.graphMax[1]),
          [lo |-> 0, hi |-> 0]>>

\* Stacked bars: the sums of the data of one sign, from the first dataset and
\* the datasets k to i, with the sign of datum k.
StackSums(ch) ==
    LET sums(i, j) ==
            {LET K == IF k = 1 THEN {1} ELSE {1} \union (k..i)
             IN  ColumnSum(ch, {m \in K \intersect Column(ch, j) :
                                  (ch.data[m][j] > 0) = (ch.data[k][j] > 0)}, j)
             : k \in (1..i) \intersect Column(ch, j)}
    IN  UNION {sums(i, j) : i \in Rows(ch), j \in 1..ch.labels}

StackBounds(ch) ==
    LET e == Override(Extent(StackSums(ch)), ch.opts.graphMin[1], ch.opts.graphMax[1])
    IN  <<Stretch(e.lo, e.hi), [lo |-> 0, hi |-> 0]>>

getValueBounds(ch) ==
    CASE Stacked(ch) -> StackBounds(ch)
      [] ch.type = "HorizontalBar" -> HorizontalBounds(ch)
      [] OTHER -> LineBounds(ch)

minSteps == chart.height \div (2 * chart.labelHeight)
maxSteps == (100 * chart.height) \div (66 * chart.labelHeight)
dbAxis == chart.type \in {"Line", "Bar"} /\ AxisValues(chart, 2) # {}

\* A logarithmic scale needs positive data and, when fuzzy, four decades
\* (HorizontalBar does not count them).
UsesLog(ch, a, b) ==
    /\ ~Stacked(ch) /\ ch.opts.logarithmic[a] # "no"
    /\ b.lo > 0 /\ ch.opts.scaleOverride[a] = NoScale
    /\ \/ ch.opts.logarithmic[a] = "yes" \/ ch.type = "HorizontalBar"
       \/ 1 + Decades(calculateOrderOfMagnitude(b.lo), calculateOrderOfMagnitude(b.hi)) >= 4

-----------------------------------------------------------------------------
(* The plot, and initPassVariableData_part2 *)

nrOfBars(ch) == Cardinality({i \in Rows(ch) : tpdraw(ch, i) # "Line"})

\* Faulty: datasets drawn as lines take room among the bars.
realbarsAll(ch, i) == i - 1

realbars(ch, i) == Cardinality({k \in 1..(i - 1) : tpdraw(ch, k) # "Line"})

\* Positions across the bars count in 1/XUnit pixel, those along them in tenths
\* of a pixel (rounded down).
XUnit(ch) == 2 * Max({1, nrOfBars(ch)})

\* The room along the bars and across them; scaleHop is the room of a step of
\* the scale, valueHop that of a label (in a horizontal chart the code has the
\* names the other way round).
availableHeight(ch) == (IF Horizontal(ch) THEN ch.width ELSE ch.height) - 2 * scaleTickSize
availableWidth(ch) == (IF Horizontal(ch) THEN ch.height ELSE ch.width) - 2 * scaleTickSize
scaleHop(ch, s) == availableHeight(ch) \div s.steps
valueHop(ch) ==
    LET n == IF ch.type = "Line" THEN ch.labels - 1 ELSE ch.labels
    IN  availableWidth(ch) \div n

Height(ch, s, val) == (10 * calculateOffset(val, s, scaleHop(ch, s))) \div s.stepValue
zeroY(ch, s, b) == IF b.lo < 0 THEN Height(ch, s, 0) ELSE 0

\* The width of a bar: the column without its grid line, its spacing and the
\* gaps between the bars, never thinner than a pixel.
barWidth(ch) ==
    LET n == nrOfBars(ch)
        spacing == 2 * scaleGridLineWidth + 2 * barValueSpacing
        gaps == IF ch.type = "StackedBar" THEN 0 ELSE barDatasetSpacing * n - 1
        w == IF Stacked(ch)
               THEN n * (2 * (valueHop(ch) - spacing - gaps - 1) - barStrokeWidth)
               ELSE 2 * (valueHop(ch) - spacing - gaps) - (barStrokeWidth * n - 2)
    IN  CASE w >= 0 /\ w <= XUnit(ch) -> XUnit(ch)
          [] w < 0 /\ w >= -XUnit(ch) -> -XUnit(ch)
          [] OTHER -> w

\* Bar does not say whether its scales are logarithmic: a line among its bars is
\* placed as on a plain scale, whose step is then 10 to the number of decades.
LineScale(ch, s) ==
    IF ch.type = "Bar" /\ s.logarithmic
      THEN [graphMin |-> s.graphMin, stepValue |-> Unit * (s.max \div s.graphMin), steps |-> s.steps,
            max |-> s.max, logarithmic |-> FALSE]
      ELSE s

LinePos(ch, sc, bs, i, j) ==
    LET a == ch.axis[i]
        half == IF ch.type = "Bar" THEN (XUnit(ch) \div 2) * valueHop(ch) ELSE 0
    IN  [x |-> XUnit(ch) * valueHop(ch) * (j - 1) + half,
         zero |-> zeroY(ch, sc[a], bs[a]),
         y |-> IF ch.data[i][j] = Missing THEN 0 ELSE Height(ch, LineScale(ch, sc[a]), ch.data[i][j])]

BarPos(ch, sc, bs, i, j) ==
    LET a == ch.axis[i]
        r == realbars(ch, i)
        left == XUnit(ch) * (barValueSpacing + valueHop(ch) * (j - 1)
                             + (barDatasetSpacing + barStrokeWidth) * r) + barWidth(ch) * r
        bottom == zeroY(ch, sc[a], bs[a])
        v == IF ch.data[i][j] = Missing THEN 0 ELSE ch.data[i][j]
    IN  [left |-> left, right |-> left + barWidth(ch), bottom |-> bottom,
         top |-> bottom + (Height(ch, sc[a], v) - bottom) - 5 * barStrokeWidth]

\* The data of one sign are stacked on each other, away from zero; the gap
\* between two of them is taken from the later one, half of it from the first.
StackPos(ch, sc, i, j) ==
    LET v == IF ch.data[i][j] = Missing THEN 0 ELSE ch.data[i][j]
        botval == ColumnSum(ch, {k \in Column(ch, j) : k < i /\ (ch.data[k][j] < 0 <=> v < 0)}, j)
        left == XUnit(ch) * (barValueSpacing + valueHop(ch) * (j - 1))
        bottom == Height(ch, sc[1], botval)
        top == Height(ch, sc[1], botval + v)
        space == ch.opts.spaceBetweenBar
        gap == IF botval = 0 THEN 10 * space - 5 * space ELSE 10 * space
        spaced == CASE space > 0 /\ v < 0 -> Max({bottom - gap, top})
                    [] space > 0 /\ v > 0 -> Min({bottom + gap, top})
                    [] OTHER -> bottom
    IN  [left |-> left, right |-> left + barWidth(ch), bottom |-> spaced, top |-> top]

\* In a horizontal chart the first dataset is the upper one of its row.
HorizontalPos(ch, sc, bs, i, j) ==
    LET upper == XUnit(ch) * (valueHop(ch) * j - barValueSpacing
                              - (barDatasetSpacing + barStrokeWidth) * (i - 1)) - barWidth(ch) * (i - 1)
        v == IF ch.data[i][j] = Missing THEN 0 ELSE ch.data[i][j]
    IN  [left |-> upper - barWidth(ch), right |-> upper,
         bottom |-> zeroY(ch, sc[1], bs[1]), top |-> Height(ch, sc[1], v)]

HorizontalStackPos(ch, sc, i, j) ==
    LET upper == XUnit(ch) * (valueHop(ch) * j - barValueSpacing)
    IN  [StackPos(ch, sc, i, j) EXCEPT !.left = upper - barWidth(ch), !.right = upper]

initPassVariableData_part2(ch, sc, bs) ==
    [i \in Rows(ch) |-> [j \in 1..ch.labels |->
        CASE tpdraw(ch, i) = "Line" -> LinePos(ch, sc, bs, i, j)
          [] tpdraw(ch, i) = "Bar" -> BarPos(ch, sc, bs, i, j)
          [] tpdraw(ch, i) = "StackedBar" -> StackPos(ch, sc, i, j)
          [] tpdraw(ch, i) = "HorizontalBar" -> HorizontalPos(ch, sc, bs, i, j)
          [] tpdraw(ch, i) = "HorizontalStackedBar" -> HorizontalStackPos(ch, sc, i, j)]]

\* The diameter of a pie or a doughnut.
pieSize(ch) == Min({ch.height, ch.width}) - 2 * scaleTickSize

-----------------------------------------------------------------------------
(* The animation.  Fractions count in 1/N. *)

\* How far datum j of dataset i is after k frames: main is the part of its
\* value that is shown, sub how far the line has come on the way to the next.
\* From left to right, a last datum that has no steps to make waits for the last
\* frame: the code compares with 0 * Infinity, which is no number.
animationCorrection(ch, k, i, j) ==
    LET sd == Max({0, ch.opts.animationStartWithDataset - 1})
        sj == Max({0, ch.opts.animationStartWithData - 1})
        ready == k >= N \/ i - 1 < sd \/ j - 1 < sj
        sets == Len(ch.data) - sd
        own == k * sets - (i - 1 - sd) * N
        byDataset == ~ready /\ ch.opts.animationByDataset
        started == ~byDataset \/ (own >= 0 /\ own < N)
        value == IF byDataset THEN own ELSE k
        steps == ch.labels - sj - 1
        passed == value * steps - (j - 1 - sj) * N
        Shown(main, sub) == [main |-> main, sub |-> sub, anim |-> main + sub]
    IN  CASE ready \/ (byDataset /\ own >= N) -> Shown(N, 0)
          [] ~ready /\ ~started /\ ~(byDataset /\ own >= N) -> Shown(0, 0)
          [] ~ready /\ started /\ ~ch.opts.animationLeftToRight -> Shown(value, 0)
          [] ~ready /\ started /\ ch.opts.animationLeftToRight ->
               IF steps = 0 \/ passed < 0 THEN Shown(0, 0)
               ELSE Shown(N, IF passed <= N THEN passed ELSE 0)

\* Points of a line: x in 1/N of the unit of pos, y in 1/(12 N), so that the
\* interpolation over up to four missing data stays exact.
PointAt(ps, i, j, main) ==
    <<N * ps[i][j].x, 12 * (N * ps[i][j].zero + main * (ps[i][j].y - ps[i][j].zero))>>

\* The point sub/N of the way from datum j to datum j + 1, at the height of
\* the line from datum a to datum b.
PointBetween(ps, i, j, sub, a, b, main) ==
    LET y1 == PointAt(ps, i, a, main)[2]
        y2 == PointAt(ps, i, b, main)[2]
    IN  <<N * ps[i][j].x + sub * (ps[i][j + 1].x - ps[i][j].x),
          y1 + (((j - a) * N + sub) * (y2 - y1)) \div (N * (b - a))>>

\* The path: a point is reached by a line, or without one.
TraceLine(acc, p) ==
    [acc EXCEPT !.at = p, !.segments = IF acc.at = p THEN @ ELSE @ \union {<<acc.at, p>>}]
MoveTo(acc, p, j) == [acc EXCEPT !.at = p, !.firstpt = j]

\* The line ends between datum j - 1 and datum j.  Without extrapolation
\* nothing is added: statData has no value, whatever the datum.
FrontStep(ch, st, ps, i, j, now, acc) ==
    LET p == PointBetween(ps, i, j - 1, acc.prev.sub, st[i][j].prev, st[i][j - 1].next, acc.prev.main)
    IN  IF ch.opts.extrapolateMissingData
          THEN [TraceLine(acc, p) EXCEPT !.firstpt = 0, !.prev = now]
          ELSE [acc EXCEPT !.prev = now]

\* Faulty: a missing datum does not end the line.
MissingStepPassedBy(ch, st, ps, i, j, now, acc) ==
    LET p == PointBetween(ps, i, j, now.sub, st[i][j + 1].prev, st[i][j].next, N)
    IN  IF ch.opts.extrapolateMissingData /\ now.sub > 0
          THEN [TraceLine(acc, p) EXCEPT !.prev = now]
          ELSE [acc EXCEPT !.prev = now]

\* A missing datum ends the line, or is passed by on the way to the next one.
MissingStep(ch, st, ps, i, j, now, acc) ==
    LET p == PointBetween(ps, i, j, now.sub, st[i][j + 1].prev, st[i][j].next, N)
    IN  CASE ch.opts.extrapolateMissingData /\ now.sub > 0 -> [TraceLine(acc, p) EXCEPT !.prev = now]
          [] ~ch.opts.extrapolateMissingData /\ acc.firstpt # 0 ->
               [acc EXCEPT !.prev = [main |-> 0, sub |-> 0, anim |-> NotSet], !.firstpt = 0]
          [] OTHER -> [acc EXCEPT !.prev = now]

\* extrapolateMissing is not an option (extrapolateMissingData is): only a
\* neighbour continues the line here.
ValueStep(ch, st, ps, i, j, now, acc) ==
    LET p == PointAt(ps, i, j, now.main)
        here == IF acc.firstpt = 0 THEN MoveTo(acc, p, j) ELSE TraceLine(acc, p)
        onward == now.sub > 0 /\ st[i][j].next = j + 1
    IN  [(IF onward THEN TraceLine(here, PointBetween(ps, i, j, now.sub, st[i][j + 1].prev, j + 1, N))
          ELSE here) EXCEPT !.prev = now]

LineStep(ch, st, ps, k, i, acc, j) ==
    LET now == animationCorrection(ch, k, i, j)
    IN  CASE acc.prev.anim = 0 /\ j > st[i][1].first -> acc
          [] now.main = 0 /\ acc.prev.main > 0 /\ acc.firstpt # 0 ->
               FrontStep(ch, st, ps, i, j, now, acc)
          [] OTHER -> IF ch.data[i][j] = Missing THEN MissingStep(ch, st, ps, i, j, now, acc)
                      ELSE ValueStep(ch, st, ps, i, j, now, acc)

\* The segments of dataset i in frame k, from its first to its last datum.
drawLinesDataset(ch, st, ps, k, i) ==
    LET first == st[i][1].first
        last == st[i][1].last
        start == [segments |-> {}, at |-> <<>>, firstpt |-> 0,
                  prev |-> [main |-> 0, sub |-> 0, anim |-> 0]]
    IN  IF tpdraw(ch, i) # "Line" \/ first = 0 THEN {}
        ELSE LET path[n \in 0..(last - first + 1)] ==
                     IF n = 0 THEN start ELSE LineStep(ch, st, ps, k, i, path[n - 1], first + n - 1)
             IN  path[last - first + 1].segments

\* The annotations of the last frame: lines before bars, in the order of the
\* datasets, every datum that is defined (and in the pie).
Datum(ch, n) == <<1 + ((n - 1) \div ch.labels), 1 + ((n - 1) % ch.labels)>>

Listed(ch, kind, S) ==
    LET list[n \in 0..(Len(ch.data) * ch.labels)] ==
            IF n = 0 THEN <<>>
            ELSE IF Datum(ch, n) \notin S THEN list[n - 1]
            ELSE Append(list[n - 1], <<kind, Datum(ch, n)[1], Datum(ch, n)[2]>>)
    IN  list[Len(ch.data) * ch.labels]

Annotations(ch) ==
    LET points == UNION {{i} \X Defined(ch, i) : i \in {k \in Rows(ch) : tpdraw(ch, k) = "Line"}}
        bars == UNION {{i} \X Defined(ch, i) : i \in {k \in Rows(ch) : tpdraw(ch, k) # "Line"}}
    IN  IF Round(ch) THEN Listed(ch, "ARC", {1} \X InPie(ch))
        ELSE Listed(ch, "POINT", points) \o Listed(ch, "RECT", bars)

-----------------------------------------------------------------------------
(* The mouse.  Positions are doubled, so that the middle of a bar or of a  *)
(* segment is exact; annotation 0 stands for a place outside the plot.     *)

Mod(angle) == angle % Circle

\* The pointer on annotation e.
Middle(st, ps, e) ==
    CASE e[1] = "ARC" -> [angle |-> (2 * st[e[3]].startAngle + st[e[3]].segmentAngle) % (2 * Circle)]
      [] e[1] = "RECT" -> LET b == ps[e[2]][e[3]] IN [x |-> b.left + b.right, y |-> b.bottom + b.top]
      [] e[1] = "POINT" -> LET q == ps[e[2]][e[3]] IN [x |-> 2 * q.x, y |-> 2 * q.y]

\* Faulty: a segment across the start of the circle ends before it starts.
NormalisedApart(item) ==
    [item EXCEPT !.startAngle = Mod(@), !.endAngle = Mod(@)]

\* The angles of a segment, as the mouse handler leaves them in statData.
Normalised(item) ==
    LET s == Mod(item.startAngle)
        e == Mod(item.endAngle)
    IN  [item EXCEPT !.startAngle = s, !.endAngle = IF e < s THEN e + Circle ELSE e]

InArc(item, m) ==
    LET n == Normalised(item)
    IN  \E turn \in {-Circle, 0, Circle} :
            /\ m.angle > 2 * (n.startAngle + turn)
            /\ m.angle < 2 * (n.endAngle + turn)

InRect(b, m) ==
    /\ m.x > 2 * Min({b.left, b.right}) /\ m.x < 2 * Max({b.left, b.right})
    /\ m.y > 2 * Min({b.bottom, b.top}) /\ m.y < 2 * Max({b.bottom, b.top})

\* Near a point, or near the vertical line through it; in tenths of a pixel.
NearPoint(ch, q, m) ==
    LET r == 10 * pointHitDetectionRadius
        dx == (10 * (m.x - 2 * q.x)) \div (2 * XUnit(ch))
        dy == (m.y - 2 * q.y) \div 2
        top == 10 * availableHeight(ch)
    IN  IF ch.opts.detectAnnotateOnFullLine
          THEN dx < r /\ -dx < r /\ m.y >= -2 * r /\ m.y <= 2 * (top + r)
          ELSE dx * dx + dy * dy < r * r

Found(ch, st, ps, an, m) ==
    {n \in DOMAIN an :
        CASE an[n][1] = "ARC" -> InArc(st[an[n][3]], m)
          [] an[n][1] = "RECT" -> InRect(ps[an[n][2]][an[n][3]], m)
          [] an[n][1] = "POINT" -> NearPoint(ch, ps[an[n][2]][an[n][3]], m)}

-----------------------------------------------------------------------------
Init ==
    /\ chart \in Charts
    /\ pc = "start"
    /\ stat = <<>>
    /\ bounds = <<>>
    /\ axis = 1
    /\ scales = <<NoScale, NoScale>>
    /\ pos = <<>>
    /\ frame = 0
    /\ lines = <<>>
    /\ annotate = <<>>
    /\ mouse = NoMouse

\* The chart adapts its data.
Adapt ==
    /\ pc = "start"
    /\ ~Horizontal(chart)
    /\ chart' = Adapted(chart)
    /\ pc' = "pass1"
    /\ UNCHANGED <<stat, bounds, axis, scales, pos, frame, lines, annotate, mouse>>

\* The data are reversed before the short datasets are filled up.
AdaptHorizontal ==
    /\ pc = "start"
    /\ Horizontal(chart)
    /\ chart' = Adapted(IF chart.opts.reverseOrder THEN reverseData(chart) ELSE chart)
    /\ pc' = "pass1"
    /\ UNCHANGED <<stat, bounds, axis, scales, pos, frame, lines, annotate, mouse>>

\* One pass over the data.
Pass1 ==
    /\ pc = "pass1"
    /\ ~Round(chart)
    /\ stat' = PassData(chart)
    /\ pc' = "bounds"
    /\ UNCHANGED <<chart, bounds, axis, scales, pos, frame, lines, annotate, mouse>>

\* A pie or a doughnut has no scale; without a radius it waits for the next
\* redraw (testRedraw).
Pass1Round ==
    /\ pc = "pass1"
    /\ Round(chart)
    /\ stat' = PassPie(chart)
    /\ pc' = IF pieSize(chart) > 0 THEN "frame" ELSE "waiting"
    /\ UNCHANGED <<chart, bounds, axis, scales, pos, frame, lines, annotate, mouse>>

\* A chart without room for a step waits for the next redraw (testRedraw).
Bounds ==
    /\ pc = "bounds"
    /\ bounds' = getValueBounds(chart)
    /\ pc' = IF minSteps > 0 /\ maxSteps > 0 THEN "scale" ELSE "waiting"
    /\ UNCHANGED <<chart, stat, axis, scales, pos, frame, lines, annotate, mouse>>

\* The scale of the current axis is s; the second axis follows the first.
ScaleIs(s) ==
    /\ scales' = [scales EXCEPT ![axis] = s]
    /\ axis' = IF axis = 1 /\ dbAxis THEN 2 ELSE axis
    /\ pc' = IF axis = 1 /\ dbAxis THEN "scale" ELSE "place"
    /\ UNCHANGED <<chart, stat, bounds, pos, frame, lines, annotate, mouse>>

\* The scale is given, logarithmic, or a first guess to be adapted.
GivenScale ==
    /\ pc = "scale"
    /\ chart.opts.scaleOverride[axis] # NoScale
    /\ ScaleIs(chart.opts.scaleOverride[axis])

LogarithmicScale ==
    /\ pc = "scale"
    /\ UsesLog(chart, axis, bounds[axis])
    /\ ScaleIs(LogScale(bounds[axis].lo, bounds[axis].hi))

interval == chart.opts.yAxisMinimumInterval

GuessScale ==
    /\ pc = "scale"
    /\ chart.opts.scaleOverride[axis] = NoScale
    /\ ~UsesLog(chart, axis, bounds[axis])
    /\ scales' = [scales EXCEPT ![axis] =
                    FirstScale(bounds[axis].lo, bounds[axis].hi, interval[axis], interval[1])]
    /\ pc' = "adapt"
    /\ UNCHANGED <<chart, stat, bounds, axis, pos, frame, lines, annotate, mouse>>

\* The loop that halves or doubles the step.
HalveStep ==
    /\ pc = "adapt"
    /\ TooFew(scales[axis], minSteps, interval[axis])
    /\ scales' = [scales EXCEPT ![axis] = WithStep(@, @.stepValue \div 2)]
    /\ UNCHANGED <<chart, pc, stat, bounds, axis, pos, frame, lines, annotate, mouse>>

DoubleStep ==
    /\ pc = "adapt"
    /\ TooMany(scales[axis], minSteps, maxSteps)
    /\ scales' = [scales EXCEPT ![axis] = WithStep(@, @.stepValue * 2)]
    /\ UNCHANGED <<chart, pc, stat, bounds, axis, pos, frame, lines, annotate, mouse>>

\* The rest of calculateScale.  The options of the first axis decide about
\* the trimming of both.
FinishedScale(ch, s, a, b) ==
    LET t == OnInterval(s, ch.opts.yAxisMinimumInterval[a], ch.opts.yAxisMinimumInterval[1])
        low == ch.opts.graphMaximized \in {"yes", "bottom"} \/ ch.opts.graphMin[1] # NotSet
        high == ch.opts.graphMaximized \in {"yes", "top"} \/ ch.opts.graphMax[1] # NotSet
        u == IF low THEN TrimBottom(t, b.lo) ELSE t
    IN  IF high THEN TrimTop(u, b.hi) ELSE u

FinishScale ==
    /\ pc = "adapt"
    /\ ~TooFew(scales[axis], minSteps, interval[axis])
    /\ ~TooMany(scales[axis], minSteps, maxSteps)
    /\ ScaleIs(FinishedScale(chart, scales[axis], axis, bounds[axis]))

AdaptScale == HalveStep \/ DoubleStep \/ FinishScale

Placed ==
    /\ pos' = initPassVariableData_part2(chart, scales, bounds)
    /\ pc' = "frame"
    /\ UNCHANGED <<chart, stat, bounds, axis, scales, frame, lines, annotate, mouse>>

Place == pc = "place" /\ ~Horizontal(chart) /\ Placed
PlaceHorizontal == pc = "place" /\ Horizontal(chart) /\ Placed

\* One frame; the last one leaves the annotations.
FrameDrawn ==
    /\ frame' = frame + 1
    /\ annotate' = IF frame' = N THEN annotate \o Annotations(chart) ELSE annotate
    /\ pc' = IF frame' = N THEN "done" ELSE "frame"
    /\ UNCHANGED <<chart, stat, bounds, axis, scales, pos, mouse>>

drawBars ==
    /\ pc = "frame"
    /\ ~Round(chart)
    /\ FrameDrawn
    /\ lines' = [i \in Rows(chart) |-> drawLinesDataset(chart, stat, pos, frame', i)]

drawPieSegments ==
    /\ pc = "frame"
    /\ Round(chart)
    /\ FrameDrawn
    /\ UNCHANGED lines

\* doMouseAction, with the pointer at annotation n.  A move shows the first
\* annotation it finds and looks no further; a click calls the function of
\* the page for every one it finds.  Looking at a segment normalises its
\* angles.
Looked(hits, all) == IF all \/ hits = {} THEN DOMAIN annotate ELSE 1..Min(hits)
doMouseAction(n, click) ==
    LET hits == IF n = 0 THEN {} ELSE Found(chart, stat, pos, annotate, Middle(stat, pos, annotate[n]))
        segments == {annotate[k][3] : k \in Looked(hits, click)}
    IN  /\ mouse' = [at |-> n, click |-> click, count |-> mouse.count + 1,
                     shown |-> IF click THEN mouse.shown ELSE FirstOf(hits),
                     called |-> IF click THEN hits ELSE {}]
        /\ stat' = IF Round(chart) /\ n # 0
                     THEN [i \in DOMAIN stat |-> IF i \in segments THEN Normalised(stat[i]) ELSE stat[i]]
                     ELSE stat

MouseMove ==
    /\ pc \in {"frame", "done"}
    /\ mouse.count < MouseEvents
    /\ \E n \in 0..Len(annotate) : doMouseAction(n, FALSE)
    /\ UNCHANGED <<chart, pc, bounds, axis, scales, pos, frame, lines, annotate>>

MouseClick ==
    /\ pc \in {"frame", "done"}
    /\ mouse.count < MouseEvents
    /\ \E n \in 0..Len(annotate) : doMouseAction(n, TRUE)
    /\ UNCHANGED <<chart, pc, bounds, axis, scales, pos, frame, lines, annotate>>

\* A pass, from the data to the last frame.
Pass ==
    \/ Adapt \/ AdaptHorizontal \/ Pass1 \/ Pass1Round \/ Bounds
    \/ GivenScale \/ LogarithmicScale \/ GuessScale \/ AdaptScale
    \/ Place \/ PlaceHorizontal \/ drawBars \/ drawPieSegments

Next == Pass \/ MouseMove \/ MouseClick

Spec == Init /\ [][Next]_vars

\* The loop of calculateScale is straight code: it goes on as long as it can.
FairSpec == Spec /\ WF_vars(AdaptScale)

-----------------------------------------------------------------------------
(* Properties *)

\* The loop that halves and doubles the step ends, whatever the height of the
\* chart and the interval asked for: it does not go back and forth between too
\* few steps and too many (calculateScale).
ScaleEnds == pc = "adapt" ~> pc # "adapt"

\* The scale of each axis reaches from below the least value to above the
\* greatest, after the rounding of the number of steps, the intervals and the
\* trimming, so that calculateOffset cuts no datum off.  It needs a height for
\* at least six steps: below, a second doubling can round the number of steps
\* down (nine steps, five, two).  And it needs an interval of 1, 2 or 5 times a
\* power of ten that roundScale keeps: with an interval of 4, data from 11 to 89
\* get four steps of 20 from 8 on.
Covers(s, b) ==
    /\ s.graphMin <= b.lo
    /\ b.hi <= IF s.logarithmic THEN s.max ELSE s.graphMin + s.steps * s.stepValue

Regular(a) ==
    \/ interval[a] = NotSet
    \/ /\ interval[a] \in {m * p : m \in {1, 2, 5}, p \in Powers}
       /\ roundScale(interval[1], interval[a]) = interval[a]

ScaleCovers ==
    pc \in {"place", "frame", "done"} /\ ~Round(chart) /\ maxSteps >= 6 =>
        \A a \in 1..axis :
            chart.opts.scaleOverride[a] = NoScale /\ Regular(a) => Covers(scales[a], bounds[a])

\* The neighbours initPassVariableData_part1 finds in its single loop are the
\* nearest data before and after, also across missing data; the running sums
\* and differences of a column are those of the datasets on the same axis; and
\* the segments of a pie follow each other around the whole circle, also after
\* the mouse handler has rewritten their angles.
RowLinked(i, j) ==
    LET d == Defined(chart, i)
        e == stat[i][j]
        gaps == DOMAIN chart.data[i] \ d
    IN  /\ e.prev = LastOf({k \in d : k < j})
        /\ e.prevMissing = LastOf({k \in gaps : k <= j})
        /\ (j \in d \/ e.prev # 0) => e.next = FirstOf({k \in d : k > j})

ColumnSummed(i, j) ==
    LET mates == Column(chart, j) \intersect OnAxis(chart, chart.axis[i])
        below == LastOf({k \in mates : k < i /\ tpdraw(chart, k) = "Line"})
        above == FirstOf({k \in mates : k > i /\ tpdraw(chart, k) = "Line"})
        e == stat[i][j]
    IN  /\ e.cumvalue = ColumnSum(chart, {k \in mates : k <= i}, j)
        /\ i = LastOf(mates) => e.cumvalue = e.totvalue
        /\ tpdraw(chart, i) = "Line" =>
             /\ e.diffprev = IF below = 0 THEN NotSet ELSE e.value - stat[below][j].value
             /\ e.diffnext = IF above = 0 THEN e.value ELSE e.value - stat[above][j].value

PieClosed ==
    LET drawn == InPie(chart)
        turn == Total(Len(chart.data[1]), [i \in DOMAIN stat |-> stat[i].segmentAngle], drawn)
    IN  \A i \in drawn :
          LET n == IF i = LastOf(drawn) THEN FirstOf(drawn) ELSE stat[i].next
          IN  /\ n = FirstOf({k \in drawn : k > i}) \/ i = LastOf(drawn)
              /\ turn = Circle => Mod(stat[i].endAngle) = Mod(stat[n].startAngle)

NeighboursRight ==
    pc \notin {"start", "pass1"} =>
        IF Round(chart) THEN PieClosed
        ELSE \A i \in Rows(chart) : \A j \in 1..chart.labels :
                RowLinked(i, j) /\ (j \in Defined(chart, i) => ColumnSummed(i, j))

\* In every frame the line of a dataset is the polyline through its data, over
\* a gap only when missing data are extrapolated, scaled by the progress of
\* the animation or cut off at its front (drawLinesDataset).
Begin(start) == Max({0, start - 1})
Turns(i, k) ==
    LET sd == Begin(chart.opts.animationStartWithDataset)
    IN  k * (Len(chart.data) - sd) - (i - 1 - sd) * N
Whole(i, k) == k = N \/ i < chart.opts.animationStartWithDataset
Progress(i, k) ==
    CASE Whole(i, k) -> N
      [] ~Whole(i, k) /\ chart.opts.animationByDataset -> Max({0, Min({N, Turns(i, k)})})
      [] OTHER -> k

\* How much of the value of datum j is shown.
Part(i, k, j) ==
    IF chart.opts.animationLeftToRight \/ j <= Begin(chart.opts.animationStartWithData) THEN N
    ELSE Progress(i, k)

\* How far the line has come, in 1/N of the way from one datum to the next.  A
\* dataset that has not begun, or has a single datum to animate from left to
\* right, shows the data that are not animated.
LineFront(i, k) ==
    LET sj == Begin(chart.opts.animationStartWithData)
        idle == IF chart.opts.animationLeftToRight
                  THEN \/ ~Whole(i, k) /\ chart.opts.animationByDataset /\ Turns(i, k) < 0
                       \/ Progress(i, k) # N /\ chart.labels - sj - 1 = 0
                  ELSE Progress(i, k) = 0
    IN  CASE idle -> (sj - 1) * N
          [] ~idle /\ chart.opts.animationLeftToRight -> sj * N + Progress(i, k) * (chart.labels - 1 - sj)
          [] OTHER -> (chart.labels - 1) * N

\* The data that a line joins.
Joined(i) ==
    LET d == Defined(chart, i)
    IN  {p \in d \X d :
           /\ p[1] < p[2] /\ ~\E c \in d : p[1] < c /\ c < p[2]
           /\ p[2] = p[1] + 1 \/ chart.opts.extrapolateMissingData}

\* The line from one of them to the other, up to the front.
Piece(i, k, p) ==
    LET f == LineFront(i, k)
    IN  <<PointAt(pos, i, p[1], Part(i, k, p[1])),
          IF f < (p[2] - 1) * N THEN PointBetween(pos, i, 1 + f \div N, f % N, p[1], p[2], N)
          ELSE PointAt(pos, i, p[2], Part(i, k, p[2]))>>

LineSeen(i, k) == {Piece(i, k, p) : p \in {q \in Joined(i) : LineFront(i, k) > (q[1] - 1) * N}}

LineFollows ==
    frame > 0 /\ ~Round(chart) =>
        \A i \in Rows(chart) : tpdraw(chart, i) = "Line" => lines[i] = LineSeen(i, frame)

\* The bars of one column (or row) stand next to each other, and inside it as
\* long as the strokes fit into the spacing: barWidth takes off half a stroke
\* for each bar, the positions a whole one, which adds up to the spacing for
\* eight bars (for four if they have the least width).  Stacked bars lie one
\* beyond the other, away from zero and without overlap, whatever the gaps
\* taken from them (initPassVariableData_part2).  The columns must be wide
\* enough for a bar, and the plot higher than its ticks.
Fitting(ch) == Stacked(ch) \/ nrOfBars(ch) <= IF barWidth(ch) > XUnit(ch) THEN 8 ELSE 4

Inside(p, j) ==
    /\ p.left >= XUnit(chart) * valueHop(chart) * (j - 1)
    /\ p.right <= XUnit(chart) * valueHop(chart) * j
Beside(p, q) == p.right < q.left \/ (Horizontal(chart) /\ q.right < p.left)
Beyond(p, q, sign) == IF sign < 0 THEN q.bottom <= p.top /\ q.top <= q.bottom
                      ELSE q.bottom >= p.top /\ q.top >= q.bottom

Bars(j) == {i \in Column(chart, j) : tpdraw(chart, i) # "Line"}
Sign(i, j) == IF chart.data[i][j] < 0 THEN -1 ELSE 1

BarsApart ==
    pos # <<>> /\ barWidth(chart) > 0 =>
        \A j \in 1..chart.labels : \A i \in Bars(j) :
            /\ Fitting(chart) => Inside(pos[i][j], j)
            /\ \A k \in Bars(j) : i < k =>
                 IF ~Stacked(chart) THEN Beside(pos[i][j], pos[k][j])
                 ELSE availableHeight(chart) >= 0 /\ Sign(i, j) = Sign(k, j) =>
                        Beyond(pos[i][j], pos[k][j], Sign(k, j))

\* The middle of a bar or of a pie segment belongs to that bar or segment
\* alone, and a point is found where it is drawn, however often the mouse has
\* moved before: the handler changes the angles it compares (doMouseAction).
\* A point of a line may lie before a bar and is then shown instead.
Solid(e) ==
    CASE e[1] = "ARC" -> stat[e[3]].segmentAngle > 0
      [] e[1] = "RECT" -> LET b == pos[e[2]][e[3]] IN b.left < b.right /\ b.bottom # b.top
      [] e[1] = "POINT" -> TRUE

MouseFinds ==
    mouse.at # 0 /\ Solid(annotate[mouse.at]) =>
        LET points == {n \in DOMAIN annotate : annotate[n][1] = "POINT"}
            e == annotate[mouse.at]
        IN  IF mouse.click
              THEN mouse.at \in mouse.called /\ (e[1] # "POINT" => mouse.called \ points = {mouse.at})
              ELSE mouse.shown # 0 /\ (mouse.shown = mouse.at \/ mouse.shown \in points)

-----------------------------------------------------------------------------
(* The inductive invariant behind ScaleCovers. *)

\* What the unit and the powers of the model can express: a range within the
\* powers of ten and steps that can be halved exactly.
InReach(b) ==
    /\ b.lo \in Int /\ b.hi \in Int
    /\ b.hi - b.lo >= 16 /\ b.hi - b.lo < 16000000
    /\ b.lo > 0 => b.lo >= 16 /\ b.hi < 16000000

Sized(ch) ==
    /\ ch.height \in Nat /\ ch.labelHeight \in Nat \ {0}
    /\ ch.height \div (2 * ch.labelHeight) <= 16

Ordinary(a) ==
    /\ InReach(bounds[a]) /\ Sized(chart) /\ maxSteps >= 6
    /\ chart.opts.scaleOverride[a] = NoScale /\ Regular(a)

Measured == Sized(chart) /\ \A a \in 1..axis : InReach(bounds[a])

Scale == [graphMin : Int, stepValue : Nat \ {0}, steps : Nat, max : Int, logarithmic : {FALSE}]

\* In the loop the number of steps is exact and can still be halved as often as
\* the least number of steps asks for, or it has been doubled once.
Exact(s) ==
    /\ s.max - s.graphMin = s.steps * s.stepValue
    /\ s.steps >= 1 /\ (s.steps <= 11 \/ s.steps < 2 * minSteps)
    /\ \/ s.stepValue % 16 = 0
       \/ s.stepValue % 8 = 0 /\ s.steps >= 2
       \/ s.stepValue % 4 = 0 /\ s.steps >= 4
       \/ s.stepValue % 2 = 0 /\ s.steps >= 8
       \/ s.steps >= 16

Doubled(s) ==
    s.max - s.graphMin <= s.steps * s.stepValue /\ minSteps <= s.steps /\ s.steps <= 6

\* Or the interval is greater than the first step p: then the step is never a
\* multiple of the interval, or the interval is twice p.
Between(s, i) ==
    /\ s.steps = RoundDiv(s.max - s.graphMin, s.stepValue)
    /\ s.stepValue < 2 * i \/ s.steps >= minSteps
    /\ \E p \in Powers :
         \/ i % (5 * p) = 0 /\ s.stepValue % p = 0 /\ (s.stepValue \div p) % 5 # 0
         \/ /\ i = 2 * p /\ s.stepValue \in {p, 2 * p, 4 * p}
            /\ (s.max - s.graphMin) % i = 0 /\ s.max - s.graphMin <= 15 * p

Adapting(s, b, i) ==
    /\ s \in Scale /\ s.graphMin <= b.lo /\ b.hi <= s.max
    /\ Exact(s) \/ Doubled(s) \/ (i # NotSet /\ Between(s, i))

ScaleIInv ==
    /\ axis \in {1, 2} /\ scales = [a \in {1, 2} |-> scales[a]]
    /\ pc \in {"start", "pass1", "bounds", "waiting"} => axis = 1
    /\ pc \in {"scale", "adapt"} /\ axis = 2 => (Ordinary(1) => Covers(scales[1], bounds[1]))
    /\ pc = "adapt" /\ Ordinary(axis) => Adapting(scales[axis], bounds[axis], interval[axis])
    /\ pc \in {"place", "frame", "done"} /\ ~Round(chart) =>
         \A a \in 1..axis : Ordinary(a) => Covers(scales[a], bounds[a])

-----------------------------------------------------------------------------
(* The inductive invariant behind NeighboursRight. *)

\* The chart after its data have been adapted.
Prepared(ch) ==
    /\ ch.labels \in Nat
    /\ Len(ch.data) \in Nat \ {0} /\ DOMAIN ch.data = 1..Len(ch.data)
    /\ \A i \in Rows(ch) :
         /\ DOMAIN ch.data[i] = 1..ch.labels /\ Len(ch.data[i]) = ch.labels
         /\ \A j \in 1..ch.labels : ch.data[i][j] \in Int
         /\ ch.axis[i] \in 1..2
    /\ ch.type = "Line" /\ ch.labels = 1 => \A i \in Rows(ch) : Defined(ch, i) = {}
    /\ Framed(ch)

\* The statistics are those of the pass over the data, except that the mouse
\* handler may have normalised the angles of a segment.
LinkIInv ==
    /\ pc = "start" => WellFormed(chart)
    /\ pc # "start" => Prepared(chart)
    /\ pc \notin {"start", "pass1"} =>
         IF Round(chart)
           THEN stat \in {[i \in 1..chart.labels |->
                             IF i \in S THEN Normalised(PassPie(chart)[i]) ELSE PassPie(chart)[i]] :
                           S \in SUBSET (1..chart.labels)}
           ELSE stat = PassData(chart)

-----------------------------------------------------------------------------
(* The inductive invariant behind BarsApart. *)

\* In the loop the range of the scale is that of the data or more, and a step
\* is neither lost to the halving nor longer than twice the range.
Stepping(s) ==
    /\ s \in Scale /\ s.max - s.graphMin >= 16
    /\ s.steps = RoundDiv(s.max - s.graphMin, s.stepValue) /\ s.steps >= 1

\* A scale is laid out as long as the interval of the second axis does not
\* round to zero (roundScale rounds it as the first one is).
Graded ==
    /\ Measured
    /\ axis = 2 => interval[2] = NotSet \/ roundScale(interval[1], interval[2]) > 0

PlaceIInv ==
    /\ axis = 2 => ~Stacked(chart)
    /\ pc \in {"bounds", "scale", "adapt", "place"} => ~Round(chart)
    /\ pc \in {"scale", "adapt"} => maxSteps > 0
    /\ pc = "adapt" /\ Graded => Stepping(scales[axis])
    /\ pc \in {"scale", "adapt"} /\ axis = 2 /\ Graded => Rising(scales[1])
    /\ pc \in {"place", "frame", "done"} /\ ~Round(chart) =>
         (dbAxis => axis = 2) /\ (Graded => \A a \in 1..axis : Rising(scales[a]))
    /\ pos # <<>> =>
         /\ pc \in {"frame", "done"} /\ ~Round(chart)
         /\ pos = initPassVariableData_part2(chart, scales, bounds)

-----------------------------------------------------------------------------
(* The inductive invariant behind MouseFinds. *)

\* The charts of which the mouse finds every part: the scales are laid out, the
\* bars fit into their columns, and points found along their whole vertical line
\* are on a scale that cuts values off at its ends.
Findable ==
    \/ Round(chart)
    \/ /\ Graded /\ availableHeight(chart) >= 0
       /\ nrOfBars(chart) > 0 => barWidth(chart) > 0 /\ Fitting(chart)
       /\ chart.opts.detectAnnotateOnFullLine => \A a \in 1..axis : ~scales[a].logarithmic

\* Only the last frame leaves annotations, once, and the mouse has been at
\* nothing else.
FindIInv ==
    /\ annotate = IF pc = "done" THEN Annotations(chart) ELSE <<>>
    /\ pc \in {"frame", "done"} /\ ~Round(chart) => pos # <<>>
    /\ mouse.at # 0 => pc = "done" /\ mouse.at \in 1..Len(annotate)
    /\ mouse.at # 0 /\ Findable => MouseFinds

-----------------------------------------------------------------------------
(* The inductive invariant behind LineFollows. *)

\* The charts whose lines can be followed: the scales are laid out, there is a
\* label (drawLinesDataset reads the first entry of a dataset before it asks
\* whether there is one), and the points of two labels lie apart.
Drawable == Graded /\ availableHeight(chart) >= 0 /\ chart.labels > 0 /\ valueHop(chart) # 0

\* The lines are those of the last frame, which is one of the animation.
LineIInv ==
    /\ frame \in 0..N /\ (pc = "frame" => frame < N)
    /\ frame > 0 => pc \in {"frame", "done"}
    /\ frame > 0 /\ ~Round(chart) =>
         lines = [i \in Rows(chart) |-> drawLinesDataset(chart, stat, pos, frame, i)]
=============================================================================
