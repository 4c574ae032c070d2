--------------------------- MODULE DwellirDecode ---------------------------
(***************************************************************************)
(* The Dwellir adapter (src/src/dwellir.rs): what one decoded message of   *)
(* the L4 feed becomes.  A message is either a snapshot, the venue's       *)
(* orders, or a list of diffs with the set of ids that the same message    *)
(* carries an order status for.  JSON, hex and the texts of statuses are   *)
(* left out; a size on the wire is a number of the finest decimal the      *)
(* venue uses, of which Grain make one unit of a Qty.                      *)
(***************************************************************************)
EXTENDS BookFeeds

CONSTANT Grain   \* 10^(decimals on the wire - qty_digits)
ASSUME GrainAssumption == Grain \in Nat \ {0}

\* A mutant of parse_fixed: rounds away from zero.
MutRoundUp(sz) == (sz + Grain - 1) \div Grain

\* Excess decimals are cut off, toward zero.
parse_fixed(sz) == sz \div Grain

\* An order of the wire, in the book's units.
parse_order(order) == [order EXCEPT !.qty = parse_fixed(@)]

\* The snapshot of a message: every level's orders, one after the other.
decode_snapshot(orders) == [i \in DOMAIN orders |-> parse_order(orders[i])]

-----------------------------------------------------------------------------
(* Diffs: "new" carries the order, whose side is read from the status; "update" *)
(* (a fill) and "modified" (an amendment) carry the size left; "remove" and a   *)
(* diff of unknown shape carry the id alone.                                    *)

EmptyBatch ==
    [ops |-> <<>>, removed |-> {}, collapsed_complete_fills |-> 0,
     dropped_duplicate_removes |-> 0, unresolved_new |-> 0]

\* ReasonedBookOp: an operation, the diff it comes from, and whether the message
\* has a status text for its id.
reasoned_venue_op(op, diff, statuses) ==
    [op |-> op, diff |-> diff, status |-> IdOf(op) \in statuses]

Emit(batch, reasoned) == [batch EXCEPT !.ops = Append(@, reasoned)]

\* A mutant of EmitRemove: a second removal in a message is passed on.
MutEmitRemove(batch, oid, diff, statuses) ==
    Emit(batch, reasoned_venue_op([kind |-> "Remove", id |-> oid], diff, statuses))

\* One removal per id and message: the others are counted and dropped.
EmitRemove(batch, oid, diff, statuses) ==
    IF oid \in batch.removed
    THEN [batch EXCEPT !.dropped_duplicate_removes = @ + 1]
    ELSE Emit([batch EXCEPT !.removed = @ \cup {oid}],
              reasoned_venue_op([kind |-> "Remove", id |-> oid], diff, statuses))

\* A mutant of EmitSize: a complete fill keeps the kind of its diff.
MutEmitSize(batch, kind, diff, oid, sz, statuses) ==
    IF parse_fixed(sz) = 0
    THEN EmitRemove([batch EXCEPT !.collapsed_complete_fills = @ + 1], oid, diff, statuses)
    ELSE Emit(batch, reasoned_venue_op([kind |-> kind, id |-> oid, new_qty |-> parse_fixed(sz)],
                                       diff, statuses))

\* A size that parses to zero is a complete fill, whatever the diff.
EmitSize(batch, kind, diff, oid, sz, statuses) ==
    IF parse_fixed(sz) = 0
    THEN EmitRemove([batch EXCEPT !.collapsed_complete_fills = @ + 1],
                    oid, "CompleteFillCollapsed", statuses)
    ELSE Emit(batch, reasoned_venue_op([kind |-> kind, id |-> oid, new_qty |-> parse_fixed(sz)],
                                       diff, statuses))

\* A new order whose message has no status for it has no side: it is skipped.
EmitNew(batch, order, statuses) ==
    IF order.id \notin statuses THEN [batch EXCEPT !.unresolved_new = @ + 1]
    ELSE Emit(batch, reasoned_venue_op([kind |-> "Add", order |-> parse_order(order)],
                                       "New", statuses))

DecodeDiff(batch, diff, statuses) ==
    CASE diff.kind = "remove"   -> EmitRemove(batch, diff.oid, "Remove", statuses)
      [] diff.kind = "new"      -> EmitNew(batch, diff.order, statuses)
      [] diff.kind = "update"   ->
           EmitSize(batch, "UpdateSize", "Update", diff.oid, diff.sz, statuses)
      [] diff.kind = "modified" ->
           EmitSize(batch, "AmendSize", "Modified", diff.oid, diff.sz, statuses)
      [] diff.kind = "unknown"  -> batch

decode_updates_with_meta(diffs, statuses) ==
    LET upto[n \in 0 .. Len(diffs)] ==
            IF n = 0 THEN EmptyBatch ELSE DecodeDiff(upto[n - 1], diffs[n], statuses)
    IN  upto[Len(diffs)]

\* The operations alone: decode_line hides the causes and the skipped orders.
strip_update_batch(batch) ==
    [ops |-> [i \in DOMAIN batch.ops |-> batch.ops[i].op],
     collapsed_complete_fills |-> batch.collapsed_complete_fills,
     dropped_duplicate_removes |-> batch.dropped_duplicate_removes]
=============================================================================
