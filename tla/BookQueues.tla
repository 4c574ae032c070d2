----------------------------- MODULE BookQueues -----------------------------
(***************************************************************************)
(* What a limit order book is to its callers, as a value: for every side   *)
(* and price, the orders resting there in time priority.  This module      *)
(* holds no state.  Each public operation of OrderBook (src/src/book.rs)   *)
(* that changes a single order is a function of the queues, returning the  *)
(* queues it leaves and the Result it answers, so that the modules above   *)
(* (PriorityBook, Replay, Simulator) can compose several of them into one  *)
(* handler.  OrderBook.tla models the slab, the lists and the indexes that *)
(* represent these queues and is checked to implement them.                *)
(***************************************************************************)
EXTENDS BookTypes, FiniteSets, Sequences
Lists == INSTANCE SequencesExt

-----------------------------------------------------------------------------
(* Reading the queues *)

\* A book: a queue for every side and price, empty where no level exists.
EmptyBook == [k \in Queue |-> <<>>]

Ids(orders) == {orders[i].id : i \in DOMAIN orders}
RestingIds(book) == UNION {Ids(book[k]) : k \in DOMAIN book}

\* Where an id rests: its queue, and its place there (the slot in order_index).
HomeOf(book, id) == CHOOSE k \in DOMAIN book : id \in Ids(book[k])
PlaceIn(orders, id) == CHOOSE i \in DOMAIN orders : orders[i].id = id

\* OrderBook::get on an id that rests.
get(book, id) ==
    LET orders == book[HomeOf(book, id)] IN orders[PlaceIn(orders, id)]

\* The ids that would be filled before `id`: those ahead of it in its queue.
Ahead(book, id) ==
    LET orders == book[QueueOf(get(book, id))]
    IN  {orders[i].id : i \in 1 .. (PlaceIn(orders, id) - 1)}

-----------------------------------------------------------------------------
(* The primitive changes *)

AppendOrder(book, order) ==
    [book EXCEPT ![QueueOf(order)] = Append(@, order)]

\* An order that rests leaves its queue; the others close up.
DropOrder(book, id) ==
    [book EXCEPT ![HomeOf(book, id)] = Lists!RemoveAt(@, PlaceIn(@, id))]

Resize(book, id, new_qty) ==
    [k \in DOMAIN book |->
        [i \in DOMAIN book[k] |->
            IF book[k][i].id = id THEN [book[k][i] EXCEPT !.qty = new_qty]
                                  ELSE book[k][i]]]

MoveToTail(book, id) == AppendOrder(DropOrder(book, id), get(book, id))

-----------------------------------------------------------------------------
(* The operations: the book they leave and what they answer *)

Done(book) == [book |-> book, result |-> "Ok"]
Fail(book, error) == [book |-> book, result |-> error]

\* A mutant of add: the id is not looked up before the insertion.
MutAddBlind(book, order) ==
    IF order.qty = 0 THEN Fail(book, "ZeroQty") ELSE Done(AppendOrder(book, order))

\* A zero quantity is reported before a duplicate id.
add(book, order) ==
    IF order.qty = 0 THEN Fail(book, "ZeroQty")
    ELSE IF order.id \in RestingIds(book) THEN Fail(book, "DuplicateOrderId")
    ELSE Done(AppendOrder(book, order))

remove(book, id) ==
    IF id \notin RestingIds(book) THEN Fail(book, "UnknownOrderId")
    ELSE Done(DropOrder(book, id))

\* Partial fill: strictly smaller, in place; zero removes the order.
update_size(book, id, new_qty) ==
    IF id \notin RestingIds(book) THEN Fail(book, "UnknownOrderId")
    ELSE IF new_qty >= get(book, id).qty THEN Fail(book, "NonDecreasingSize")
    ELSE IF new_qty = 0 THEN remove(book, id)
    ELSE Done(Resize(book, id, new_qty))

\* A mutant of amend_size_with_policy: the policy is applied to every change
\* of size, not only to an increase.
MutAmendAlwaysLoses(book, id, new_qty, policy) ==
    IF new_qty = 0 THEN remove(book, id)
    ELSE IF id \notin RestingIds(book) THEN Fail(book, "UnknownOrderId")
    ELSE IF policy = "LosePriorityOnIncrease"
    THEN Done(MoveToTail(Resize(book, id, new_qty), id))
    ELSE Done(Resize(book, id, new_qty))

\* A zero quantity cancels, before the id is looked up; an equal one is a no-op;
\* only an increase may cost the order its place.
amend_size_with_policy(book, id, new_qty, policy) ==
    IF new_qty = 0 THEN remove(book, id)
    ELSE IF id \notin RestingIds(book) THEN Fail(book, "UnknownOrderId")
    ELSE IF new_qty > get(book, id).qty /\ policy = "LosePriorityOnIncrease"
    THEN Done(MoveToTail(Resize(book, id, new_qty), id))
    ELSE Done(Resize(book, id, new_qty))

amend_size(book, id, new_qty) ==
    amend_size_with_policy(book, id, new_qty, "Preserve")
=============================================================================
