---------------------------- MODULE MCLossyFeed ----------------------------
(* LossyFeed on a few ids, interchangeable as none is synthetic.             *)
EXTENDS LossyFeed, TLC
Symmetry == Permutations(OrderId)
=============================================================================
