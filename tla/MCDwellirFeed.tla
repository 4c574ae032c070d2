--------------------------- MODULE MCDwellirFeed ---------------------------
(* A venue that uses a few ids, all alike; two wire sizes make a unit, so   *)
(* size 1 is dust and sizes 2 and 3 look the same in the book.              *)
EXTENDS DwellirFeed, TLC
Symmetry == Permutations(OrderId)
=============================================================================
