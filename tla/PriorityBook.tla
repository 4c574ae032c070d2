---------------------------- MODULE PriorityBook ----------------------------
(***************************************************************************)
(* The abstract specification of the order book: a state machine whose     *)
(* only state is the queues of BookQueues and the answer to the last call. *)
(* It says nothing of slots, links or indexes.  OrderBook implements it.   *)
(***************************************************************************)
EXTENDS BookQueues

VARIABLES
    book,     \* the resting orders: Queue -> sequence of orders, oldest first
    result    \* what the last call answered

vars == <<book, result>>

Init == book = EmptyBook /\ result = "Ok"

Answers(outcome) == book' = outcome.book /\ result' = outcome.result

Add(order) == Answers(add(book, order))
Remove(id) == Answers(remove(book, id))
UpdateSize(id, new_qty) == Answers(update_size(book, id, new_qty))
AmendSize(id, new_qty, policy) ==
    Answers(amend_size_with_policy(book, id, new_qty, policy))
Clear == Answers(Done(EmptyBook))

Next ==
    \/ \E order \in Order : Add(order)
    \/ \E id \in OrderId : Remove(id)
    \/ \E id \in OrderId, new_qty \in Qty : UpdateSize(id, new_qty)
    \/ \E id \in OrderId, new_qty \in Qty, policy \in AmendPriorityPolicy :
         AmendSize(id, new_qty, policy)
    \/ Clear

Spec == Init /\ [][Next]_vars

-----------------------------------------------------------------------------
(* An id rests in one place at most, and only with a quantity to fill: what *)
(* lets order_index (src/src/book.rs:109) be a map from ids to single slots. *)
OneRestingOrderPerId ==
    \A k, l \in Queue : \A i \in DOMAIN book[k], j \in DOMAIN book[l] :
        /\ book[k][i].qty > 0
        /\ QueueOf(book[k][i]) = k
        /\ book[k][i].id = book[l][j].id => k = l /\ i = j

(* Time priority: nobody is overtaken.  From one call to the next, an order *)
(* that keeps resting gains no order ahead of it, except when its own size  *)
(* grew and it went behind everyone at its price (book.rs:419-433), or when *)
(* the id was cancelled and used again, which one call cannot do.           *)
NobodyIsOvertaken ==
    [][\A id \in RestingIds(book) \cap RestingIds(book') :
         \/ Ahead(book', id) \subseteq Ahead(book, id)
         \/ /\ get(book', id).qty > get(book, id).qty
            /\ Ahead(book', id) = Ids(book[QueueOf(get(book, id))]) \ {id}]_vars
=============================================================================
