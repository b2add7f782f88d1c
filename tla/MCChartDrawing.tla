--------------------------- MODULE MCChartDrawing ---------------------------
(* Charts for TLC: every combination of a few data with the options each    *)
(* part of a pass looks at.                                                 *)
EXTENDS ChartDrawing

Options ==
    [scaleOverride |-> <<NoScale, NoScale>>, logarithmic |-> <<"no", "no">>,
     yAxisMinimumInterval |-> <<NotSet, NotSet>>, graphMin |-> <<NotSet, NotSet>>,
     graphMax |-> <<NotSet, NotSet>>, graphMaximized |-> "no",
     extrapolateMissingData |-> TRUE, animationByDataset |-> FALSE,
     animationLeftToRight |-> FALSE, animationStartWithDataset |-> 1,
     animationStartWithData |-> 1, spaceBetweenBar |-> 0,
     detectAnnotateOnFullLine |-> FALSE, startAngle |-> Circle \div 4, reverseOrder |-> FALSE]

ChartOf(type, data, labels) ==
    [type |-> type, data |-> data, labels |-> labels, axis |-> [i \in DOMAIN data |-> 1],
     drawn |-> [i \in DOMAIN data |-> type], height |-> 110, labelHeight |-> 10,
     width |-> 100, opts |-> Options]

V(n) == n * Unit

\* Scales: bounds of every size and sign, on charts of every height.
Spans == {<<a, b>> \in {-95, -7, 0, 1, 3, 9, 10, 92} \X {-3, 0, 1, 4, 9, 10, 11, 93, 100} : a <= b}
Heights == {15, 20, 30, 40, 70, 110, 200}
Scaled(span, h, o) ==
    [ChartOf("Line", <<<<V(span[1]), V(span[2])>>>>, 2) EXCEPT !.height = h, !.opts = o]
ScaleOptions ==
    {Options}
    \union {[Options EXCEPT !.yAxisMinimumInterval = <<i, NotSet>>] : i \in {V(1), V(2), V(5), V(1) \div 2}}
    \union {[Options EXCEPT !.graphMaximized = m] : m \in {"yes", "bottom", "top"}}
ScaleCharts == {Scaled(s, h, o) : s \in Spans, h \in Heights, o \in ScaleOptions}

\* Two axes, with the options of either; the dashboard's own scale from 0 to
\* 100; decades.
AxisOptions ==
    {Options,
     [Options EXCEPT !.yAxisMinimumInterval = <<NotSet, V(1)>>],
     [Options EXCEPT !.graphMin = <<V(-10), NotSet>>, !.graphMax = <<NotSet, V(100)>>],
     [Options EXCEPT !.scaleOverride[1] = [NoScale EXCEPT !.stepValue = V(10), !.steps = 10]],
     [Options EXCEPT !.logarithmic = <<"yes", "fuzzy">>],
     [Options EXCEPT !.logarithmic = <<"fuzzy", "yes">>]}
AxisCharts ==
    {[ChartOf("Line", <<<<V(r[1]), V(r[2])>>, <<V(r[3]), V(r[4])>>>>, 2)
        EXCEPT !.axis = a, !.opts = o] :
       r \in {0, 1, 90} \X {10, 1000} \X {-4, 1} \X {2, 100},
       a \in {<<1, 2>>, <<2, 2>>, <<2, 1>>}, o \in AxisOptions}

\* Lines with gaps, in every kind of animation.
LineOptions ==
    {[Options EXCEPT !.extrapolateMissingData = e, !.animationByDataset = b,
                     !.animationLeftToRight = l, !.animationStartWithDataset = s[1],
                     !.animationStartWithData = s[2]] :
        e \in BOOLEAN, b \in BOOLEAN, l \in BOOLEAN, s \in {<<1, 1>>, <<2, 1>>, <<1, 2>>, <<1, 4>>, <<1, 5>>}}
LineCharts ==
    {ChartOf("Line", <<<<Missing, V(4), V(-2), Missing, V(1)>>, r>>, 5) : r \in [1..5 -> {Missing, V(3)}]}
LinesDrawn == {[c EXCEPT !.opts = o] : c \in LineCharts, o \in LineOptions}
Singles == {[ChartOf("Line", <<r, s>>, 1) EXCEPT !.opts.detectAnnotateOnFullLine = f] :
              r \in {<<V(1)>>, <<Missing>>}, s \in {<<>>, <<V(7)>>}, f \in BOOLEAN}

\* Bars of one to three datasets, one of them possibly a line, and stacks.
BarData == [1..2 -> {Missing, V(-3), 0, V(5)}]
BarCharts ==
    {[ChartOf("Bar", d, 2) EXCEPT !.drawn = [i \in DOMAIN d |-> IF i = line THEN "Line" ELSE "Bar"],
                                  !.width = w] :
       d \in {<<r>> : r \in BarData} \union {<<r, <<V(2), Missing>>, s>> : r \in BarData, s \in BarData},
       line \in {0, 1, 3}, w \in {40, 100}}
DecadeBars ==
    {[ChartOf("Bar", <<<<V(1), V(n)>>, <<V(7), V(2)>>>>, 2)
        EXCEPT !.drawn = <<"Bar", "Line">>, !.opts.logarithmic[1] = g] : n \in {3, 100, 1000}, g \in {"no", "yes", "fuzzy"}}
ManyBars ==
    {[ChartOf("Bar", [i \in 1..n |-> <<V(i), V(1)>>], 2) EXCEPT !.width = w] :
       n \in {4, 5, 8, 9}, w \in {70, 72, 80, 100, 120, 200}}
StackCharts ==
    {[ChartOf("StackedBar", <<r, s, <<V(4), V(-1)>>>>, 2)
        EXCEPT !.opts.spaceBetweenBar = sp, !.opts.graphMax = <<m, NotSet>>] :
       r \in BarData, s \in BarData, sp \in {0, 2, 20}, m \in {NotSet, V(6)}}

\* Horizontal bars and stacks, with a short row that reversing moves.
RowData == [1..2 -> {Missing, V(-3), V(5)}]
HorizontalCharts ==
    {[ChartOf(t, <<r, <<V(2)>>, s>>, 2)
        EXCEPT !.opts.reverseOrder = rev, !.opts.spaceBetweenBar = sp, !.height = h] :
       t \in {"HorizontalBar", "HorizontalStackedBar"}, r \in RowData, s \in RowData,
       rev \in BOOLEAN, sp \in {0, 2}, h \in {70, 110}}
    \union {[ChartOf("HorizontalBar", <<<<V(1), V(n)>>, <<V(7)>>>>, 2)
                EXCEPT !.opts.logarithmic[1] = g, !.axis = <<1, 2>>] : n \in {3, 100}, g \in {"no", "yes", "fuzzy"}}

\* Pies and doughnuts whose totals divide the circle.
PieCharts ==
    {[ChartOf(t, <<r>>, 3) EXCEPT !.opts.startAngle = s, !.height = h] :
       t \in {"Pie", "Doughnut"}, r \in {<<1, 2, 3>>, <<0, 5, 0>>, <<4, Missing, 4>>, <<-1, 6, 1>>, <<0, 0, 0>>, <<2, 2, 1>>},
       s \in {0, Circle \div 4, (3 * Circle) \div 4}, h \in {10, 110}}

MCCharts == ScaleCharts \union AxisCharts \union LinesDrawn \union Singles
            \union BarCharts \union DecadeBars \union ManyBars \union StackCharts
            \union HorizontalCharts \union PieCharts
=============================================================================
