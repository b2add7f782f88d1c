---------------------------- MODULE MCCelixProducer ----------------------------
(* Instances of CelixProducer for TLC. *)
EXTENDS CelixProducer, TLC

CONSTANTS q1, q2, k1, k2

MCTwoQueues == {q1, q2}
MCOneQueue == {q1}
MCOneClient == {k1}
MCTwoClients == {k1, k2}
MCRates == {0, 1}
MCSym == Permutations(MCTwoQueues)
================================================================================
