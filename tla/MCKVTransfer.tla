----------------------------- MODULE MCKVTransfer -----------------------------
(* Instances of KVTransfer for TLC: a request of two chunks beside one of one, *)
(* and two requests of one chunk.                                              *)
EXTENDS KVTransfer, TLC

CONSTANTS r1, r2, k1, g1, g2, g3, m1, m2

MCTwoChunks == [r \in Reqs |-> IF r = r1 THEN 2 ELSE 1]
MCOneChunk == [r \in Reqs |-> 1]
MCSymmetry == Permutations(Pages) \cup Permutations(MetaSlots)
===============================================================================
