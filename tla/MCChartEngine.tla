---------------------------- MODULE MCChartEngine ----------------------------
(* An instance of ChartEngine for TLC: two charts, with contents that are     *)
(* animated forth and back, twice, or not at all.                            *)
EXTENDS ChartEngine

Options(v, animation, count, backward) ==
  [ver |-> v, animation |-> animation, animationCount |-> count,
   animationBackward |-> backward]

MCContent == {Options(1, TRUE, 2, TRUE), Options(2, FALSE, 1, FALSE)}
================================================================================
