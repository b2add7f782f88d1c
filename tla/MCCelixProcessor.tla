--------------------------- MODULE MCCelixProcessor ---------------------------
(* Instances of CelixProcessor for TLC. *)
EXTENDS CelixProcessor

CONSTANTS q1, q2, d1, d2, k1

MCTwoQueues == {q1, q2}
MCOneQueue == {q1}
MCTwoStores == {d1, d2}
MCOneClient == {k1}
MCSym == Permutations(MCTwoQueues) \cup Permutations(MCTwoStores)
================================================================================
