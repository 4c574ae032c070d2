---------------------------- MODULE MCSnapshots ----------------------------
(* Snapshots with two local and two venue ids; ids of a kind are           *)
(* interchangeable.                                                        *)
EXTENDS Simulator, TLC
Symmetry == Permutations(SyntheticId) \cup Permutations(OrderId \ SyntheticId)
=============================================================================
