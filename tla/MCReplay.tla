------------------------------ MODULE MCReplay ------------------------------
(* Replay on a few ids, interchangeable as no snapshot is taken here.        *)
EXTENDS Replay, TLC
Symmetry == Permutations(OrderId)
=============================================================================
