---------------------------- MODULE BookQueries ----------------------------
(***************************************************************************)
(* The read-only questions of src/src/book.rs that compute something: the  *)
(* place of an order in its queue, the first levels of a side, and the     *)
(* price of a hypothetical taker.                                          *)
(* They read the totals that the levels cache, u64 sums that wrap in a     *)
(* release build, where matching reads the orders themselves.              *)
(***************************************************************************)
EXTENDS BookMatching

\* level.total_qty, which OrderBook.tla shows to be the wrapped sum.
total_qty(orders) ==
    LET upto[n \in 0 .. Len(orders)] ==
            IF n = 0 THEN 0 ELSE (upto[n - 1] + orders[n].qty) % QtyLimit
    IN  upto[Len(orders)]

-----------------------------------------------------------------------------
(* Places in a queue *)

\* QueuePosition: what stands before, what behind, and the level's counters.
Position(ahead, behind, level) ==
    [orders_ahead |-> Len(ahead), qty_ahead |-> total_qty(ahead),
     orders_behind |-> Len(behind), qty_behind |-> total_qty(behind),
     level_order_count |-> Len(level), level_total_qty |-> total_qty(level)]

\* A mutant of queue_position: the order counts itself among those ahead.
MutPosition(book, id) ==
    LET level == book[QueueOf(get(book, id))]
        place == CHOOSE i \in DOMAIN level : level[i].id = id
    IN  Position(SubSeq(level, 1, place), SubSeq(level, place + 1, Len(level)), level)

\* The order of an id that rests is looked for from the head of its level.
queue_position(book, id) ==
    LET level == book[QueueOf(get(book, id))]
        place == CHOOSE i \in DOMAIN level : level[i].id = id
    IN  Position(SubSeq(level, 1, place - 1), SubSeq(level, place + 1, Len(level)), level)

\* A mutant of queue_position_for_new_order: the newcomer joins at the head.
MutPositionForNew(book, side, price) ==
    Position(<<>>, book[<<side, price>>], book[<<side, price>>])

queue_position_for_new_order(book, side, price) ==
    Position(book[<<side, price>>], <<>>, book[<<side, price>>])

-----------------------------------------------------------------------------
(* The first levels of a side: their counters, or their orders *)

\* A mutant of TopPrices: ascending on both sides, best or not.
MutTopPrices(book, side, n) ==
    LET prices == IF side = "Bid" THEN Lists!Reverse(depth(book, side)) ELSE depth(book, side)
    IN  SubSeq(prices, 1, IF n < Len(prices) THEN n ELSE Len(prices))

TopPrices(book, side, n) ==
    LET prices == depth(book, side)
    IN  SubSeq(prices, 1, IF n < Len(prices) THEN n ELSE Len(prices))

top_n_levels_aggregated_for_side(book, side, n) ==
    LET prices == TopPrices(book, side, n)
    IN  [i \in DOMAIN prices |->
            [price |-> prices[i],
             total_qty |-> total_qty(book[<<side, prices[i]>>]),
             order_count |-> Len(book[<<side, prices[i]>>])]]

top_n_levels_for_side(book, side, n) ==
    LET prices == TopPrices(book, side, n)
    IN  [i \in DOMAIN prices |->
            [price |-> prices[i], orders |-> book[<<side, prices[i]>>]]]

-----------------------------------------------------------------------------
(* Slippage.  A field that may be None is a set of at most one value. *)

\* best_ask for a buyer, best_bid for a seller.
reference_price(book, taker_side) ==
    LET makers == depth(book, Opposite(taker_side))
    IN  IF makers = <<>> THEN {} ELSE {makers[1]}

\* A mutant of TakeLevel: the limit is not looked at.
MutTakeLevel(done, price, level_qty, taker_side, limit_price) ==
    LET take == IF done.unfilled_qty < level_qty THEN done.unfilled_qty ELSE level_qty
    IN  [done EXCEPT !.filled_notional = @ + price * take, !.unfilled_qty = @ - take]

\* One level of the walk: skipped once the taker is filled or stopped.
TakeLevel(done, price, level_qty, taker_side, limit_price) ==
    IF done.unfilled_qty = 0 \/ done.limit_stopped THEN done
    ELSE IF ~limit_allows(taker_side, price, limit_price)
    THEN [done EXCEPT !.limit_stopped = TRUE]
    ELSE LET take == IF done.unfilled_qty < level_qty
                     THEN done.unfilled_qty ELSE level_qty
         IN  [done EXCEPT !.filled_notional = @ + price * take,
                          !.unfilled_qty = @ - take]

saturating_sub(a, b) == IF a >= b THEN a - b ELSE 0

\* What was paid beyond the reference price: more for a buyer, less for a seller.
slippage_notional(taker_side, notional, reference_notional) ==
    IF taker_side = "Bid" THEN saturating_sub(notional, reference_notional)
                          ELSE saturating_sub(reference_notional, notional)

\* The levels of the other side, met one after the other.
WalkTotals(book, taker_side, qty, limit_price) ==
    LET makers == depth(book, Opposite(taker_side))
        upto[n \in 0 .. Len(makers)] ==
            IF n = 0 THEN NothingTaken(qty)
            ELSE TakeLevel(upto[n - 1], makers[n],
                           total_qty(book[<<Opposite(taker_side), makers[n]>>]),
                           taker_side, limit_price)
    IN  upto[Len(makers)]

estimate_slippage(book, taker_side, qty, limit_price) ==
    LET walk   == WalkTotals(book, taker_side, qty, limit_price)
        filled == qty - walk.unfilled_qty
    IN  [filled_qty |-> filled, unfilled_qty |-> walk.unfilled_qty,
         filled_notional |-> walk.filled_notional, limit_stopped |-> walk.limit_stopped,
         exhausted_book |-> walk.unfilled_qty > 0 /\ ~walk.limit_stopped,
         slippage_notional |->
             IF filled = 0 THEN {}
             ELSE {slippage_notional(taker_side, walk.filled_notional, reference * filled) :
                     reference \in reference_price(book, taker_side)}]
=============================================================================
