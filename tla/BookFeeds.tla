----------------------------- MODULE BookFeeds -----------------------------
(***************************************************************************)
(* How a feed changes a book: the operations of a venue-neutral stream     *)
(* (BookOp, src/src/types.rs) applied strictly or under a replay policy,   *)
(* and snapshots that replace the book.  Functions of the queues, like     *)
(* those of BookQueues: each returns the book it leaves and its answer.    *)
(***************************************************************************)
EXTENDS BookQueues

CONSTANT SyntheticId   \* the ids with the high bit set: local simulator orders
ASSUME SyntheticIdAssumption == SyntheticId \subseteq OrderId

BookOp ==
    [kind: {"Add"}, order: Order]
      \cup [kind: {"Remove"}, id: OrderId]
      \cup [kind: {"UpdateSize", "AmendSize"}, id: OrderId, new_qty: Qty]

IdOf(op) == IF op.kind = "Add" THEN op.order.id ELSE op.id

apply_op(book, op) ==
    CASE op.kind = "Add"        -> add(book, op.order)
      [] op.kind = "Remove"     -> remove(book, op.id)
      [] op.kind = "UpdateSize" -> update_size(book, op.id, op.new_qty)
      [] op.kind = "AmendSize"  -> amend_size(book, op.id, op.new_qty)

-----------------------------------------------------------------------------
(* Replay under a policy *)

ReplayPolicy ==
    [missing_order: {"Error", "Skip"},
     duplicate_add: {"Error", "Skip"},
     non_decreasing_update: {"Error", "TreatAsAmend"}]
STRICT ==
    [missing_order |-> "Error", duplicate_add |-> "Error",
     non_decreasing_update |-> "Error"]
DWELLIR_TOLERANT ==
    [missing_order |-> "Skip", duplicate_add |-> "Skip",
     non_decreasing_update |-> "TreatAsAmend"]

\* ReplayApplyOutcome, with the book it leaves: `why` is the error, or the
\* reason the operation was skipped or coerced.
Outcome(book, kind, why) == [book |-> book, outcome |-> kind, why |-> why]

\* A strict answer as an outcome.
Answered(call, kind) ==
    IF call.result = "Ok" THEN Outcome(call.book, kind, "Ok")
                          ELSE Outcome(call.book, "Error", call.result)

Tolerated(book, tolerance, reason, error) ==
    IF tolerance = "Skip" THEN Outcome(book, "Skipped", reason)
                          ELSE Outcome(book, "Error", error)

IsAdd(op) == op.kind = "Add"
Grows(book, op) == op.kind = "UpdateSize" /\ op.new_qty >= get(book, op.id).qty

\* Mutants of apply_op_with_policy: only a strict increase is coerced; every
\* update is coerced; the missing order of an amendment is not looked for.
MutCoerceIncrease(book, op, policy) ==
    LET rests == IdOf(op) \in RestingIds(book)
    IN  CASE IsAdd(op) /\ rests ->
               Tolerated(book, policy.duplicate_add, "DuplicateAdd", "DuplicateOrderId")
          [] ~IsAdd(op) /\ ~rests ->
               Tolerated(book, policy.missing_order, "MissingOrder", "UnknownOrderId")
          [] /\ rests /\ op.kind = "UpdateSize" /\ op.new_qty > get(book, op.id).qty
             /\ policy.non_decreasing_update = "TreatAsAmend" ->
               Answered(amend_size(book, op.id, op.new_qty), "Coerced")
          [] OTHER -> Answered(apply_op(book, op), "Applied")
MutCoerceAll(book, op, policy) ==
    LET rests == IdOf(op) \in RestingIds(book)
    IN  CASE IsAdd(op) /\ rests ->
               Tolerated(book, policy.duplicate_add, "DuplicateAdd", "DuplicateOrderId")
          [] ~IsAdd(op) /\ ~rests ->
               Tolerated(book, policy.missing_order, "MissingOrder", "UnknownOrderId")
          [] /\ rests /\ op.kind = "UpdateSize"
             /\ policy.non_decreasing_update = "TreatAsAmend" ->
               Answered(amend_size(book, op.id, op.new_qty), "Coerced")
          [] OTHER -> Answered(apply_op(book, op), "Applied")
MutMissingAmend(book, op, policy) ==
    LET rests == IdOf(op) \in RestingIds(book)
    IN  CASE IsAdd(op) /\ rests ->
               Tolerated(book, policy.duplicate_add, "DuplicateAdd", "DuplicateOrderId")
          [] ~IsAdd(op) /\ op.kind # "AmendSize" /\ ~rests ->
               Tolerated(book, policy.missing_order, "MissingOrder", "UnknownOrderId")
          [] /\ rests /\ Grows(book, op)
             /\ policy.non_decreasing_update = "TreatAsAmend" ->
               Answered(amend_size(book, op.id, op.new_qty), "Coerced")
          [] OTHER -> Answered(apply_op(book, op), "Applied")

\* The id is looked up before anything else; an update that does not shrink the
\* order may be taken for an amendment; the rest is apply_op's.
apply_op_with_policy(book, op, policy) ==
    LET rests == IdOf(op) \in RestingIds(book)
    IN  CASE IsAdd(op) /\ rests ->
               Tolerated(book, policy.duplicate_add, "DuplicateAdd", "DuplicateOrderId")
          [] ~IsAdd(op) /\ ~rests ->
               Tolerated(book, policy.missing_order, "MissingOrder", "UnknownOrderId")
          [] /\ rests /\ Grows(book, op)
             /\ policy.non_decreasing_update = "TreatAsAmend" ->
               Answered(amend_size(book, op.id, op.new_qty), "Coerced")
          [] OTHER -> Answered(apply_op(book, op), "Applied")

-----------------------------------------------------------------------------
(* Snapshots *)

\* The first of two prices is the better one to trade at: the higher bid, the
\* lower ask.
Better(side, p, q) == IF side = "Bid" THEN p > q ELSE p < q

\* DepthIter: the prices of a side that have orders, best first.
depth(book, side) ==
    LET prices == {p \in Price : book[<<side, p>>] # <<>>}
    IN  CHOOSE best \in [1 .. Cardinality(prices) -> prices] :
          /\ \A p \in prices : \E i \in DOMAIN best : best[i] = p
          /\ \A i, j \in DOMAIN best : i < j => Better(side, best[i], best[j])

\* The orders of a side, level by level, each level in time priority.
SideOrders(book, side) ==
    LET prices == depth(book, side)
    IN  Lists!FlattenSeq([i \in DOMAIN prices |-> book[<<side, prices[i]>>]])

book_order(book) == SideOrders(book, "Bid") \o SideOrders(book, "Ask")

\* The orders of a list that are in a set, in the order of the list.
Those(orders, kind) ==
    LET upto[n \in 0 .. Len(orders)] ==
            IF n = 0 THEN <<>>
            ELSE IF orders[n] \in kind
            THEN Append(upto[n - 1], orders[n]) ELSE upto[n - 1]
    IN  upto[Len(orders)]

Synthetic == {o \in Order : o.id \in SyntheticId}
synthetic_orders_in_book_order(book) == Those(book_order(book), Synthetic)

\* A mutant of AddAll: the orders behind one that is refused are added as well.
MutAddAll(start, orders) ==
    LET upto[n \in 0 .. Len(orders)] ==
            IF n = 0 THEN Done(start)
            ELSE LET step == add(upto[n - 1].book, orders[n])
                 IN  IF upto[n - 1].result = "Ok" THEN step
                     ELSE Fail(step.book, upto[n - 1].result)
    IN  upto[Len(orders)]

\* Adding a list of orders stops at the first that is refused.
AddAll(start, orders) ==
    LET upto[n \in 0 .. Len(orders)] ==
            IF n = 0 THEN Done(start)
            ELSE IF upto[n - 1].result = "Ok"
            THEN add(upto[n - 1].book, orders[n]) ELSE upto[n - 1]
    IN  upto[Len(orders)]

\* A mutant of SnapshotFault: ids that come twice in the snapshot are not seen.
MutSnapshotFault(orders, preserved, i) ==
    CASE orders[i].qty = 0 -> "ZeroQty"
      [] orders[i].qty # 0 /\ orders[i].id \in Ids(preserved) -> "DuplicateOrderId"
      [] /\ orders[i].qty # 0 /\ orders[i].id \notin Ids(preserved)
         /\ orders[i].id \in SyntheticId -> "SyntheticOrderIdInSnapshot"
      [] OTHER -> "Ok"

\* What validate_preserve_synthetic_snapshot finds wrong with the i-th order.
SnapshotFault(orders, preserved, i) ==
    IF orders[i].qty = 0 THEN "ZeroQty"
    ELSE IF orders[i].id \in Ids(preserved) THEN "DuplicateOrderId"
    ELSE IF orders[i].id \in SyntheticId THEN "SyntheticOrderIdInSnapshot"
    ELSE IF \E j \in 1 .. (i - 1) : orders[j].id = orders[i].id THEN "DuplicateOrderId"
    ELSE "Ok"

\* The first fault is reported.
validate_preserve_synthetic_snapshot(orders, preserved) ==
    LET faulty == {i \in DOMAIN orders : SnapshotFault(orders, preserved, i) # "Ok"}
        first  == CHOOSE i \in faulty : \A j \in faulty : i <= j
    IN  IF faulty = {} THEN "Ok" ELSE SnapshotFault(orders, preserved, first)

SnapshotPolicy == {"Replace", "PreserveSynthetic"}

\* Mutants of Replaced: the book is not cleared first; the local orders go
\* back in before the venue's.
MutReplaced(book, orders, preserved) == AddAll(book, orders \o preserved)
MutPreservedFirst(book, orders, preserved) == AddAll(EmptyBook, preserved \o orders)

\* The cleared book refilled with the snapshot, then with what is preserved.
Replaced(book, orders, preserved) == AddAll(EmptyBook, orders \o preserved)

\* Only PreserveSynthetic looks at the snapshot before it clears the book.
apply_snapshot_with_policy(book, orders, policy) ==
    LET preserved == IF policy = "PreserveSynthetic"
                     THEN synthetic_orders_in_book_order(book) ELSE <<>>
        fault == IF policy = "PreserveSynthetic"
                 THEN validate_preserve_synthetic_snapshot(orders, preserved) ELSE "Ok"
    IN  IF fault = "Ok" THEN Replaced(book, orders, preserved) ELSE Fail(book, fault)

apply_snapshot(book, orders) == apply_snapshot_with_policy(book, orders, "Replace")
=============================================================================
