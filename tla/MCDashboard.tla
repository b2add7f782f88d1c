----------------------------- MODULE MCDashboard -----------------------------
(* An instance of Dashboard for TLC. *)
EXTENDS Dashboard

MCNameOrder == <<"data-store", "queue">>

MCContent ==
  {[ver |-> v, animation |-> animation, animationCount |-> 1,
    animationBackward |-> FALSE] : v \in 1 .. MaxVer, animation \in BOOLEAN}
================================================================================
