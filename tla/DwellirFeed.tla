---------------------------- MODULE DwellirFeed ----------------------------
(***************************************************************************)
(* The loop of src/examples/dwellir_live_sp500.rs:54-95 behind a venue:    *)
(* every message of the feed is decoded; a snapshot replaces the book, and *)
(* ends the loop if it is refused; the operations of an update message are *)
(* applied one by one with apply_op, and those that are refused are        *)
(* logged.  Its reports and its deadline are LiveLoop's.                   *)
(***************************************************************************)
EXTENDS DwellirDecode, DwellirVenue

VARIABLES
    replica,    \* the consumer's book
    unseen,     \* ids the feed, once decoded, does not describe in full
    refused,    \* ids refused in the last message without a known cause
    running     \* no snapshot was refused yet

consumerVars == <<replica, unseen, refused, running>>
vars == <<venue, used, diffs, statuses, replica, unseen, refused, running>>

Init ==
    /\ VenueInit
    /\ replica = EmptyBook /\ unseen = {} /\ refused = {} /\ running = TRUE

-----------------------------------------------------------------------------
(* The consumer *)

\* One operation of a message: the book, and the ids that were refused so far.
Consume(done, op) ==
    LET step == apply_op(done.book, op)
    IN  [book    |-> step.book,
         refused |-> IF step.result = "Ok" THEN done.refused
                                           ELSE done.refused \cup {IdOf(op)}]
ConsumeAll(book, ops) ==
    LET upto[n \in 0 .. Len(ops)] ==
            IF n = 0 THEN [book |-> book, refused |-> {}] ELSE Consume(upto[n - 1], ops[n])
    IN  upto[Len(ops)]

\* What a block does not let the decoder see: a new order without a status has no
\* side, a size below the unit is taken for zero, and so is a fill below the unit.
Told(block) == {block[i] : i \in DOMAIN block}
DiffId(diff) == IF diff.kind = "new" THEN diff.order.id ELSE diff.oid
Sizes(diff) ==
    CASE diff.kind = "new" -> {diff.order.qty}
      [] diff.kind \in {"update", "modified"} -> {diff.sz}
      [] OTHER -> {}
Unresolved(block, with_status) ==
    {DiffId(diff) : diff \in
        {d \in Told(block) : d.kind = "new" /\ d.order.id \notin with_status}}
Dust(block) ==
    {DiffId(diff) : diff \in
        {d \in Told(block) : \E sz \in Sizes(d) : 0 < sz /\ sz < Grain}}
Invisible(block) ==
    {DiffId(diff) : diff \in
        {d \in Told(block) : d.kind = "update" /\ d.origSz \div Grain = d.sz \div Grain}}

Updates ==
    LET after == ConsumeAll(replica, strip_update_batch(decode_updates_with_meta(diffs, statuses)).ops)
    IN  /\ running /\ diffs # <<>>
        /\ replica' = after.book
        /\ refused' = after.refused \ Invisible(diffs)
        /\ unseen' = unseen \cup Unresolved(diffs, statuses) \cup Dust(diffs)
        /\ diffs' = <<>> /\ statuses' = {}
        /\ UNCHANGED <<venue, used, running>>

\* A snapshot comes between two blocks; an error of apply_snapshot ends the loop.
Snapshot ==
    LET step == apply_snapshot(replica, decode_snapshot(book_order(venue)))
    IN  /\ running /\ diffs = <<>>
        /\ replica' = step.book
        /\ running' = (step.result = "Ok")
        /\ unseen' = {} /\ refused' = {}
        /\ UNCHANGED <<venue, used, diffs, statuses>>

Next ==
    \/ running /\ VenueNext /\ UNCHANGED consumerVars
    \/ Updates
    \/ Snapshot

Spec == Init /\ [][Next]_vars

-----------------------------------------------------------------------------
(* Between messages, the replica is the venue's book in the book's units:    *)
(* every level holds the same orders in the same places, sizes cut to the    *)
(* unit, but for the orders that came without a status or were once smaller  *)
(* than a unit (dwellir.rs:240-410, 484-514).                                *)
InUnits(orders) == [i \in DOMAIN orders |-> [orders[i] EXCEPT !.qty = @ \div Grain]]
ReplicaIsTheVenue ==
    running /\ diffs = <<>> =>
        \A k \in Queue :
            replica[k] = InUnits(Those(venue[k], {o \in WireOrder : o.id \notin unseen}))

(* The adapter hides the venue's encoding: no operation it derives is         *)
(* refused, and a complete fill sent as an update and a remove is one removal *)
(* (dwellir.rs:261-264), except for the orders the feed does not describe and *)
(* for fills too small to be seen.                                            *)
OnlyTheUnseenAreRefused == refused \subseteq unseen

(* The causes tell a fill from a cancellation: a removal that the decoder    *)
(* derives is marked as a collapsed complete fill exactly if the message     *)
(* brought the order to nothing (the venue sends the update before the       *)
(* remove, so the removal comes from the update and the remove is dropped),  *)
(* and an operation carries a status exactly if the message has one for its  *)
(* id (dwellir.rs:280-291, 348-401; types.rs:88-140).                        *)
Emptied(block) ==
    {DiffId(diff) : diff \in
        {d \in Told(block) : d.kind \in {"update", "modified"} /\ d.sz < Grain}}
CausesTellFillsFromCancels ==
    LET ops == decode_updates_with_meta(diffs, statuses).ops
    IN  \A i \in DOMAIN ops :
            /\ ops[i].op.kind = "Remove" =>
                 (ops[i].diff = "CompleteFillCollapsed" <=> ops[i].op.id \in Emptied(diffs))
            /\ ops[i].status <=> IdOf(ops[i].op) \in statuses
=============================================================================
