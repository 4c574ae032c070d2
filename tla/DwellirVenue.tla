---------------------------- MODULE DwellirVenue ----------------------------
(***************************************************************************)
(* The venue behind the Dwellir feed.  It is external: modelled from       *)
(* src/docs/l4-protocol.md and from what the adapter and its tests expect. *)
(* Ids are never used twice; a block of diffs is sent as one message; a    *)
(* complete fill is an update to size zero followed by a remove in the     *)
(* same message (dwellir.rs:643-648); an amendment keeps its place.        *)
(***************************************************************************)
EXTENDS BookQueues

CONSTANTS
    WireSide,   \* the sides of the venue that trade
    WireSize,   \* the sizes an order has on the wire
    MaxDiffs    \* bound: diffs in a message
ASSUME WireSideAssumption == WireSide \subseteq Side
\* No order is without a size, and no size overflows.
ASSUME WireSizeAssumption == WireSize \subseteq Qty \ {0}

VARIABLES
    venue,      \* the venue's book, sizes as on the wire
    used,       \* ids the venue has used
    diffs,      \* the block the venue is building
    statuses    \* new ids with an order status in that block

venueVars == <<venue, used, diffs, statuses>>

VenueInit == venue = EmptyBook /\ used = {} /\ diffs = <<>> /\ statuses = {}

WireOrder == [id: OrderId, wallet: WalletId, side: WireSide, price: Price, qty: WireSize]

\* The venue's book changes and the block grows.
Reports(book, more) ==
    /\ Len(diffs) + Len(more) <= MaxDiffs
    /\ venue' = book
    /\ diffs' = diffs \o more

\* The message may come without a status for the order.  Statuses of the other
\* ids only add a text to the operations' causes.
Opens(order) ==
    /\ order.id \notin used
    /\ used' = used \cup {order.id}
    /\ statuses' \in {statuses, statuses \cup {order.id}}
    /\ Reports(AppendOrder(venue, order), <<[kind |-> "new", order |-> order]>>)

Cancels(id) ==
    /\ id \in RestingIds(venue)
    /\ Reports(DropOrder(venue, id), <<[kind |-> "remove", oid |-> id]>>)
    /\ UNCHANGED <<used, statuses>>

\* An update diff: the size before it, origSz, and the size left, newSz.
Update(id, sz) ==
    [kind |-> "update", oid |-> id, origSz |-> get(venue, id).qty, sz |-> sz]

FillsPartly(id, sz) ==
    /\ id \in RestingIds(venue)
    /\ sz < get(venue, id).qty
    /\ Reports(Resize(venue, id, sz), <<Update(id, sz)>>)
    /\ UNCHANGED <<used, statuses>>

FillsWhole(id) ==
    /\ id \in RestingIds(venue)
    /\ Reports(DropOrder(venue, id),
             <<Update(id, 0), [kind |-> "remove", oid |-> id]>>)
    /\ UNCHANGED <<used, statuses>>

Modifies(id, sz) ==
    /\ id \in RestingIds(venue)
    /\ Reports(Resize(venue, id, sz), <<[kind |-> "modified", oid |-> id, sz |-> sz]>>)
    /\ UNCHANGED <<used, statuses>>

SendsUnknown(id) ==
    /\ id \in RestingIds(venue)
    /\ Reports(venue, <<[kind |-> "unknown", oid |-> id]>>)
    /\ UNCHANGED <<used, statuses>>

VenueNext ==
    \/ \E order \in WireOrder : Opens(order)
    \/ \E id \in OrderId : Cancels(id)
    \/ \E id \in OrderId, sz \in WireSize : FillsPartly(id, sz)
    \/ \E id \in OrderId : FillsWhole(id)
    \/ \E id \in OrderId, sz \in WireSize : Modifies(id, sz)
    \/ \E id \in OrderId : SendsUnknown(id)
=============================================================================
