-------------------------- MODULE MCStatisticTracker --------------------------
(* An instance of StatisticTracker for TLC. *)
EXTENDS StatisticTracker

CONSTANTS s1, s2, s3

MCServices == {s1, s2, s3}
================================================================================
