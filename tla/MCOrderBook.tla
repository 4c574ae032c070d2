---------------------------- MODULE MCOrderBook ----------------------------
(* OrderBook on a few ids and one or two wallets.  Ids and wallets are      *)
(* interchangeable: no operation compares them.                             *)
EXTENDS OrderBook, TLC
IdSymmetry == Permutations(OrderId)
Symmetry == IdSymmetry \cup Permutations(WalletId)
=============================================================================
