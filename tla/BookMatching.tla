---------------------------- MODULE BookMatching ----------------------------
(***************************************************************************)
(* Matching an incoming order against the book (src/src/book.rs:689-864),  *)
(* as functions of the queues.  A TakerMatch keeps the quantities, the     *)
(* notional, the fills and the reason the walk ended; the average price, a *)
(* float of the two, is left out.                                          *)
(***************************************************************************)
EXTENDS BookFeeds

LimitOrderPolicy == {"Gtc", "Ioc", "Fok", "PostOnly"}
SubmitRejectReason == {"PostOnlyWouldCross", "FillOrKillWouldNotFill"}

Opposite(side) == IF side = "Bid" THEN "Ask" ELSE "Bid"

limit_allows(taker_side, resting_price, limit_price) ==
    IF taker_side = "Bid" THEN resting_price <= limit_price
                          ELSE resting_price >= limit_price

\* A mutant of limit_order_would_cross: equal prices are taken not to cross.
MutCrossStrict(book, side, price) ==
    LET makers == depth(book, Opposite(side))
    IN  makers # <<>> /\ IF side = "Bid" THEN makers[1] < price ELSE makers[1] > price

\* best_ask or best_bid: the first price of the opposite side, if any.
limit_order_would_cross(book, side, price) ==
    LET makers == depth(book, Opposite(side))
    IN  makers # <<>> /\ limit_allows(side, makers[1], price)

-----------------------------------------------------------------------------
(* The match *)

FillDelta(maker, filled_qty) ==
    [maker_order_id |-> maker.id,
     filled_qty |-> filled_qty,
     maker_qty_after |-> maker.qty - filled_qty,
     maker_removed |-> filled_qty = maker.qty]

\* One maker of the walk: skipped once the taker is filled or stopped.
TakeFrom(done, maker, taker_side, limit_price) ==
    IF done.unfilled_qty = 0 \/ done.limit_stopped THEN done
    ELSE IF ~limit_allows(taker_side, maker.price, limit_price)
    THEN [done EXCEPT !.limit_stopped = TRUE]
    ELSE LET filled == IF done.unfilled_qty < maker.qty
                       THEN done.unfilled_qty ELSE maker.qty
         IN  [done EXCEPT !.fills = Append(@, FillDelta(maker, filled)),
                          !.filled_notional = @ + maker.price * filled,
                          !.unfilled_qty = @ - filled]

NothingTaken(qty) ==
    [fills |-> <<>>, filled_notional |-> 0, unfilled_qty |-> qty, limit_stopped |-> FALSE]

\* The makers of a list, met one after the other.
Walk(makers, taker_side, qty, limit_price) ==
    LET upto[n \in 0 .. Len(makers)] ==
            IF n = 0 THEN NothingTaken(qty)
            ELSE TakeFrom(upto[n - 1], makers[n], taker_side, limit_price)
    IN  upto[Len(makers)]

\* A mutant of match_taker_order: newest order first, worst price first.
MutMatchBackwards(book, taker_side, qty, limit_price) ==
    Walk(Lists!Reverse(SideOrders(book, Opposite(taker_side))), taker_side, qty, limit_price)

\* The makers are met best price first and oldest first.
match_taker_order(book, taker_side, qty, limit_price) ==
    Walk(SideOrders(book, Opposite(taker_side)), taker_side, qty, limit_price)

exhausted_book(taker_match) == taker_match.unfilled_qty > 0 /\ ~taker_match.limit_stopped
is_complete(taker_match) == taker_match.unfilled_qty = 0

\* A mutant of ApplyFill: the filled quantity is taken for what is left.
MutApplyFill(book, fill) ==
    IF fill.maker_removed THEN remove(book, fill.maker_order_id)
    ELSE update_size(book, fill.maker_order_id, fill.filled_qty)

ApplyFill(book, fill) ==
    IF fill.maker_removed THEN remove(book, fill.maker_order_id)
    ELSE update_size(book, fill.maker_order_id, fill.maker_qty_after)

\* The fills are applied one by one; the first that fails ends the call.
ApplyFills(book, fills) ==
    LET upto[n \in 0 .. Len(fills)] ==
            IF n = 0 THEN Done(book)
            ELSE IF upto[n - 1].result = "Ok"
            THEN ApplyFill(upto[n - 1].book, fills[n]) ELSE upto[n - 1]
    IN  upto[Len(fills)]

apply_taker_order(book, taker_side, qty, limit_price) ==
    IF qty = 0 THEN Fail(book, "ZeroQty")
    ELSE ApplyFills(book, match_taker_order(book, taker_side, qty, limit_price).fills)

-----------------------------------------------------------------------------
(* Submitting a limit order: the book it leaves, what it answers (an error,  *)
(* a rejection or Ok), the quantity it filled and the quantity it rested.    *)

Submitted(step, filled, rested) ==
    [book |-> step.book, result |-> step.result, filled |-> filled, rested |-> rested]

Matched(book, order) ==
    match_taker_order(book, order.side, order.qty, order.price)
FilledBy(book, order) == order.qty - Matched(book, order).unfilled_qty
Executed(book, order) == apply_taker_order(book, order.side, order.qty, order.price)

SubmitGtc(book, order) ==
    LET taken == Executed(book, order)
        left  == Matched(book, order).unfilled_qty
    IN  IF taken.result = "Ok" /\ left > 0
        THEN Submitted(add(taken.book, [order EXCEPT !.qty = left]),
                       FilledBy(book, order), left)
        ELSE Submitted(taken, FilledBy(book, order), 0)

SubmitIoc(book, order) == Submitted(Executed(book, order), FilledBy(book, order), 0)

SubmitFok(book, order) ==
    IF is_complete(Matched(book, order))
    THEN Submitted(Executed(book, order), order.qty, 0)
    ELSE Submitted(Fail(book, "FillOrKillWouldNotFill"), 0, 0)

SubmitPostOnly(book, order) ==
    IF limit_order_would_cross(book, order.side, order.price)
    THEN Submitted(Fail(book, "PostOnlyWouldCross"), 0, 0)
    ELSE Submitted(add(book, order), 0, order.qty)

SubmitUnder(book, order, policy) ==
    CASE policy = "Gtc"      -> SubmitGtc(book, order)
      [] policy = "Ioc"      -> SubmitIoc(book, order)
      [] policy = "Fok"      -> SubmitFok(book, order)
      [] policy = "PostOnly" -> SubmitPostOnly(book, order)

\* A mutant of submit_limit_order: the id is not looked up before the match.
MutSubmitBlind(book, order, policy) ==
    IF order.qty = 0 THEN Submitted(Fail(book, "ZeroQty"), 0, 0)
    ELSE SubmitUnder(book, order, policy)

submit_limit_order(book, order, policy) ==
    IF order.qty = 0 THEN Submitted(Fail(book, "ZeroQty"), 0, 0)
    ELSE IF order.id \in RestingIds(book)
    THEN Submitted(Fail(book, "DuplicateOrderId"), 0, 0)
    ELSE SubmitUnder(book, order, policy)
=============================================================================
