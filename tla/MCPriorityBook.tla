--------------------------- MODULE MCPriorityBook ---------------------------
(* PriorityBook on a few ids, one wallet (the wallet of an order decides    *)
(* nothing about its priority), two prices and quantities up to QtyLimit-1. *)
EXTENDS PriorityBook, TLC
Symmetry == Permutations(OrderId)
=============================================================================
