--------------------------- MODULE MCCelixSampleQueue ---------------------------
(* Instances of CelixSampleQueue for TLC. *)
EXTENDS CelixSampleQueue, TLC

CONSTANTS c1, c2, c3

MCAll == {c1, c2, c3}
MCTwo == {c1, c2}
MCNone == {}
MCOne == {c1}
MCBurst == {c2}
MCSym == Permutations(MCAll)
================================================================================
