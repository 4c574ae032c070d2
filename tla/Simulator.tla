----------------------------- MODULE Simulator -----------------------------
(***************************************************************************)
(* A deterministic simulator beside a venue feed: one book holds the       *)
(* venue's orders and the simulator's own (synthetic) ones.  Operations    *)
(* change single orders and may leave the book crossed (OrderBook::add     *)
(* matches nothing), taker orders and limit orders are matched against it, *)
(* and snapshots replace the venue's part of it, or all of it              *)
(* (src/src/book.rs:170, 762, 786).  The queries, which change nothing,    *)
(* are asked in its properties.                                            *)
(***************************************************************************)
EXTENDS BookQueries

CONSTANT MaxSnapshot   \* bound: orders in a snapshot

VARIABLES
    book,      \* the resting orders
    result     \* what the last call answered

vars == <<book, result>>

Snapshot == UNION {[1 .. n -> Order] : n \in 0 .. MaxSnapshot}

Init == book = EmptyBook /\ result = "Ok"

Answers(step) == book' = step.book /\ result' = step.result

ApplyOp(op) == Answers(apply_op(book, op))
ApplyTakerOrder(side, qty, limit_price) ==
    Answers(apply_taker_order(book, side, qty, limit_price))
SubmitLimitOrder(order, policy) == Answers(submit_limit_order(book, order, policy))
ApplySnapshot(orders, policy) ==
    Answers(apply_snapshot_with_policy(book, orders, policy))

Next ==
    \/ \E op \in BookOp : ApplyOp(op)
    \/ \E side \in Side, qty \in Qty, limit_price \in Price :
         ApplyTakerOrder(side, qty, limit_price)
    \/ \E order \in Order, policy \in LimitOrderPolicy : SubmitLimitOrder(order, policy)
    \/ \E orders \in Snapshot, policy \in SnapshotPolicy : ApplySnapshot(orders, policy)

Spec == Init /\ [][Next]_vars

-----------------------------------------------------------------------------
(* Snapshots *)

(* A snapshot that PreserveSynthetic refuses leaves the book untouched: the  *)
(* check before the clear (book.rs:181) foresees every error that the        *)
(* insertions after it (book.rs:186-193) could meet.                         *)
PreserveIsAtomic ==
    \A orders \in Snapshot :
        LET step == apply_snapshot_with_policy(book, orders, "PreserveSynthetic")
        IN  step.result # "Ok" => step.book = book

(* A snapshot refused under Replace has lost the old book: what rests is     *)
(* exactly the orders ahead of the first bad one, nothing of the old book    *)
(* and nothing from behind the fault, and the answer is that one's fault     *)
(* (book.rs:184-188).                                                        *)
Bad(orders, n) == orders[n].qty = 0 \/ \E i \in 1 .. (n - 1) : orders[i].id = orders[n].id
RefusedReplaceKeepsTheBeginning ==
    \A orders \in Snapshot :
        LET step == apply_snapshot_with_policy(book, orders, "Replace")
            bad  == {n \in DOMAIN orders : Bad(orders, n)}
        IN  /\ step.result = "Ok" <=> bad = {}
            /\ \A n \in bad : (\A i \in bad : n <= i) =>
                  /\ step.result = IF orders[n].qty = 0 THEN "ZeroQty" ELSE "DuplicateOrderId"
                  /\ \A k \in Queue :
                       step.book[k] = Those(SubSeq(orders, 1, n - 1), {o \in Order : QueueOf(o) = k})

(* An accepted snapshot gives every level the venue's orders in the order of *)
(* the snapshot, then the local orders that rested there, in the order they  *)
(* had: the simulator loses its place to the venue but not to itself         *)
(* (book.rs:166-169).                                                        *)
LocalOrdersGoBehindTheVenue ==
    \A orders \in Snapshot :
        LET step == apply_snapshot_with_policy(book, orders, "PreserveSynthetic")
        IN  step.result = "Ok" =>
              \A k \in Queue :
                step.book[k] = Those(orders, {o \in Order : QueueOf(o) = k})
                               \o Those(book[k], Synthetic)

-----------------------------------------------------------------------------
(* Matching and submission *)

\* A buyer pays its limit at most, a seller takes its limit at least.
Acceptable(side, price, limit_price) ==
    \/ side = "Bid" /\ price <= limit_price
    \/ side = "Ask" /\ price >= limit_price

(* No submission rests across the book: even in a book that a feed left      *)
(* crossed, no order of the other side is left at a price that a submitted   *)
(* order which rests would have taken (book.rs:799-817, 845-862).            *)
RestingNeverCrosses ==
    \A order \in Order, policy \in LimitOrderPolicy :
        LET step == submit_limit_order(book, order, policy)
        IN  step.result = "Ok" /\ step.rested > 0 =>
              \A price \in Price : Acceptable(order.side, price, order.price) =>
                step.book[<<Opposite(order.side), price>>] = <<>>

(* No submission fails halfway: what is refused, by an error or under its    *)
(* policy, leaves the book untouched ("Rejected FOK/PostOnly submissions do  *)
(* not mutate the book", book.rs:785), though a GTC adds its remainder only  *)
(* after the makers are gone.                                                *)
RefusalChangesNothing ==
    \A order \in Order, policy \in LimitOrderPolicy :
        LET step == submit_limit_order(book, order, policy)
        IN  step.result # "Ok" => step.book = book

QtySum(orders) ==
    LET upto[n \in 0 .. Len(orders)] ==
            IF n = 0 THEN 0 ELSE upto[n - 1] + orders[n].qty
    IN  upto[Len(orders)]

(* A taker trades through nobody.  On the makers' side a beginning of the    *)
(* book, in price-time order, is gone, at most the next order is smaller in  *)
(* place, and the rest is as it was; the taker's side is untouched; what the *)
(* makers lost is what the match said; every maker hit was within the limit, *)
(* and an unfilled taker leaves none within it, and none at all when it      *)
(* exhausted the book (book.rs:689-758, 762-780).                            *)
NobodyIsTradedThrough ==
    \A side \in Side, qty \in Qty \ {0}, limit_price \in Price :
        LET taker_match == match_taker_order(book, side, qty, limit_price)
            before == SideOrders(book, Opposite(side))
            after  == SideOrders(apply_taker_order(book, side, qty, limit_price).book,
                                 Opposite(side))
            gone   == Len(before) - Len(after)
            within(orders) ==
                Those(orders, {o \in Order : Acceptable(side, o.price, limit_price)})
        IN  /\ gone >= 0
            /\ \A i \in DOMAIN after :
                 /\ after[i].qty <= before[gone + i].qty
                 /\ after[i] = [before[gone + i] EXCEPT !.qty = after[i].qty]
                 /\ i > 1 => after[i] = before[gone + i]
            /\ QtySum(before) - QtySum(after) = qty - taker_match.unfilled_qty
            /\ QtySum(before) - QtySum(after) = QtySum(within(before)) - QtySum(within(after))
            /\ taker_match.unfilled_qty > 0 => within(after) = <<>>
            /\ exhausted_book(taker_match) <=> taker_match.unfilled_qty > 0 /\ after = <<>>
            /\ SideOrders(apply_taker_order(book, side, qty, limit_price).book, side)
                 = SideOrders(book, side)

(* A submission accounts for its quantity: what it filled and what it rested *)
(* add up to what it asked for, except for what an IOC cancels, and a FOK is *)
(* filled whole; the book moved by exactly these amounts (book.rs:786-864).  *)
SubmissionsAddUp ==
    \A order \in Order, policy \in LimitOrderPolicy :
        LET step == submit_limit_order(book, order, policy)
            makers == Opposite(order.side)
        IN  step.result = "Ok" =>
              /\ step.filled + step.rested <= order.qty
              /\ policy # "Ioc" => step.filled + step.rested = order.qty
              /\ policy \in {"Ioc", "Fok"} => step.rested = 0
              /\ policy = "PostOnly" => step.filled = 0
              /\ QtySum(SideOrders(step.book, makers))
                   = QtySum(SideOrders(book, makers)) - step.filled
              /\ QtySum(SideOrders(step.book, order.side))
                   = QtySum(SideOrders(book, order.side)) + step.rested

-----------------------------------------------------------------------------
(* The queries *)

Makers(taker_side, price) == book[<<Opposite(taker_side), price>>]

(* An estimate from the totals foretells the match of the orders: the same   *)
(* quantities, notional and stop, and as slippage the distance of every fill *)
(* from the best price.  Where a total has wrapped it never promises more    *)
(* than the book would fill (book.rs:601-681 against 689-758).               *)
EstimateForetellsTheMatch ==
    \A side \in Side, qty \in Qty, limit_price \in Price :
        LET estimate    == estimate_slippage(book, side, qty, limit_price)
            taker_match == match_taker_order(book, side, qty, limit_price)
            Paid(i)     == get(book, taker_match.fills[i].maker_order_id).price
            Gap(i)      == IF Paid(i) > Paid(1) THEN Paid(i) - Paid(1) ELSE Paid(1) - Paid(i)
            gaps == [i \in DOMAIN taker_match.fills |->
                        [qty |-> Gap(i) * taker_match.fills[i].filled_qty]]
        IN  /\ estimate.filled_qty <= qty - taker_match.unfilled_qty
            /\ (\A price \in Price : QtySum(Makers(side, price)) < QtyLimit) =>
                 /\ estimate.filled_qty = qty - taker_match.unfilled_qty
                 /\ estimate.filled_notional = taker_match.filled_notional
                 /\ estimate.limit_stopped = taker_match.limit_stopped
                 /\ estimate.exhausted_book = exhausted_book(taker_match)
                 /\ estimate.slippage_notional =
                      IF gaps = <<>> THEN {} ELSE {QtySum(gaps)}

(* An order's place says when it is filled: a taker reaches it exactly if it *)
(* wants more than all that rests at better prices and what queue_position   *)
(* counts ahead, and passes orders_ahead makers of the level on the way      *)
(* (book.rs:479-528; types.rs:160-165).                                      *)
QueuePositionForetellsTheFill ==
    \A id \in RestingIds(book), qty \in Qty :
        LET order    == get(book, id)
            position == queue_position(book, id)
            taker    == Opposite(order.side)
            hit      == match_taker_order(book, taker, qty, order.price).fills
            better   == Those(SideOrders(book, order.side),
                          {o \in Order : /\ o.price # order.price
                                         /\ Acceptable(taker, o.price, order.price)})
        IN  QtySum(Makers(taker, order.price)) < QtyLimit =>
              /\ (\E i \in DOMAIN hit : hit[i].maker_order_id = id)
                   <=> qty > QtySum(better) + position.qty_ahead
              /\ \A i \in DOMAIN hit :
                   hit[i].maker_order_id = id => i = Len(better) + position.orders_ahead + 1

(* A newcomer finds what was foretold: an order that rests, added or         *)
(* submitted under any policy, has ahead of it what                          *)
(* queue_position_for_new_order said before, and nothing behind              *)
(* (book.rs:530-552).                                                        *)
NewcomersFindWhatWasForetold ==
    \A order \in Order, policy \in LimitOrderPolicy :
        LET step     == submit_limit_order(book, order, policy)
            foretold == queue_position_for_new_order(book, order.side, order.price)
            found    == queue_position(step.book, order.id)
        IN  step.result = "Ok" /\ step.rested > 0 =>
              /\ found.orders_ahead = foretold.orders_ahead
              /\ found.qty_ahead = foretold.qty_ahead
              /\ found.orders_behind = 0

(* The levels shown are the levels traded: a taker for what the first n      *)
(* levels add up to, limited to the last of them, is filled by exactly the   *)
(* orders shown in them, in the order they are shown and each to the end     *)
(* (book.rs:577-593, 947-973 against 689-758).                               *)
TopLevelsAreTradedFirst ==
    \A side \in Side, n \in 1 .. Cardinality(Price) :
        LET totals == top_n_levels_aggregated_for_side(book, side, n)
            shown  == top_n_levels_for_side(book, side, n)
            orders == Lists!FlattenSeq([i \in DOMAIN shown |-> shown[i].orders])
            wanted == QtySum([i \in DOMAIN totals |-> [qty |-> totals[i].total_qty]])
            taker_match == match_taker_order(book, Opposite(side), wanted,
                                             shown[Len(shown)].price)
        IN  shown # <<>> /\ QtySum(orders) < QtyLimit =>
              /\ taker_match.unfilled_qty = 0
              /\ [i \in DOMAIN taker_match.fills |-> taker_match.fills[i].maker_order_id]
                   = [i \in DOMAIN orders |-> orders[i].id]
              /\ \A i \in DOMAIN taker_match.fills : taker_match.fills[i].maker_removed
=============================================================================
