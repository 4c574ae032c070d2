--------------------------- MODULE MCCaptureFile ---------------------------
(* A venue that uses a few ids, all alike, and a file of a few lines. *)
EXTENDS CaptureFile, TLC
Symmetry == Permutations(OrderId)
=============================================================================
