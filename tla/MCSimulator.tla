---------------------------- MODULE MCSimulator ----------------------------
(* The simulator on a few ids, all alike: nothing here asks which are       *)
(* synthetic.                                                               *)
EXTENDS Simulator, TLC
Symmetry == Permutations(OrderId)
=============================================================================
