----------------------------- MODULE BookTypes -----------------------------
(***************************************************************************)
(* The vocabulary of src/src/types.rs that the book's modules share.       *)
(* An order's timestamp is left out: no operation of the book reads it.    *)
(***************************************************************************)
EXTENDS Naturals

CONSTANTS
    OrderId,    \* the ids a caller may name
    WalletId,   \* the wallets that own orders
    Price,      \* the price ticks in use
    QtyLimit    \* a Qty is below QtyLimit: 2^64 in the code

ASSUME PriceAssumption == Price \subseteq Nat
ASSUME QtyLimitAssumption == QtyLimit \in Nat \ {0}

Side == {"Bid", "Ask"}
Qty == 0 .. (QtyLimit - 1)
Order == [id: OrderId, wallet: WalletId, side: Side, price: Price, qty: Qty]

\* The (side, price) pairs at which a level may exist.
Queue == Side \X Price
QueueOf(order) == <<order.side, order.price>>

AmendPriorityPolicy == {"Preserve", "LosePriorityOnIncrease"}
BookError ==
    {"ZeroQty", "DuplicateOrderId", "UnknownOrderId", "NonDecreasingSize",
     "SyntheticOrderIdInSnapshot"}
Result == {"Ok"} \cup BookError
=============================================================================
