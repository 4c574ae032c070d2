----------------------------- MODULE OrderBook -----------------------------
(***************************************************************************)
(* struct OrderBook of src/src/book.rs, field by field: a slab of order    *)
(* nodes with its list of free slots, the map from order ids to slots, the *)
(* price levels, each the ends of a doubly-linked list through the slab    *)
(* with a cached count and a cached total, and the map from wallets to the *)
(* ids they own.  One action per public operation that changes them.       *)
(*                                                                         *)
(* Vec, HashMap and BTreeMap become functions whose domain is what the     *)
(* container holds: DOMAIN slab is the slots that are Some, slab_len the   *)
(* length of the Vec.  bids and asks are one function, levels, on the      *)
(* pairs of a side and a price.  Arithmetic is that of a release build:    *)
(* sums wrap at QtyLimit (a debug build panics where they would wrap).     *)
(***************************************************************************)
EXTENDS BookTypes, Integers, FiniteSets, Sequences

CONSTANT NoSlot   \* None, where a slot is expected

ASSUME NoSlotAssumption == NoSlot \notin Nat

VARIABLES
    slab,           \* live slot -> [order, prev, next]
    slab_len,       \* slots ever pushed since the last clear
    free_list,      \* freed slots, the next one to reuse last
    order_index,    \* id of a resting order -> slot
    levels,         \* <<side, price>> -> [order_count, total_qty, head, tail]
    wallet_index,   \* wallet -> set of ids
    result          \* what the last call answered

vars == <<slab, slab_len, free_list, order_index, levels, wallet_index, result>>

Link == Nat \cup {NoSlot}
OrderNode == [order: Order, prev: Link, next: Link]
Level == [order_count: Nat, total_qty: Qty, head: Link, tail: Link]

-----------------------------------------------------------------------------
(* Maps, and arithmetic on u64 *)

EmptyMap == [k \in {} |-> k]
Insert(map, key, value) ==
    [k \in DOMAIN map \cup {key} |-> IF k = key THEN value ELSE map[k]]
Without(map, key) == [k \in DOMAIN map \ {key} |-> map[k]]

WrapAdd(a, b) == (a + b) % QtyLimit
WrapSub(a, b) == (a - b) % QtyLimit

-----------------------------------------------------------------------------
(* The list of a level.  Each returns the slab and the level it leaves. *)

NewLevel == [order_count |-> 0, total_qty |-> 0, head |-> NoSlot, tail |-> NoSlot]
NewNode(order) == [order |-> order, prev |-> NoSlot, next |-> NoSlot]

WithLinks(node, prev, next) == [node EXCEPT !.prev = prev, !.next = next]
WithEnds(level, head, tail) == [level EXCEPT !.head = head, !.tail = tail]

WithCounters(level, count, total) ==
    [level EXCEPT !.order_count = count, !.total_qty = total]

\* A level's counters when an order of this quantity joins or leaves it.
Grown(level, qty) ==
    WithCounters(level, level.order_count + 1, WrapAdd(level.total_qty, qty))
Shrunk(level, qty) ==
    WithCounters(level, level.order_count - 1, WrapSub(level.total_qty, qty))

link_tail(nodes, level, slot) ==
    IF level.tail = NoSlot
    THEN [slab  |-> nodes,
          level |-> WithEnds(level, slot, slot)]
    ELSE [slab  |-> [nodes EXCEPT ![level.tail].next = slot,
                                  ![slot].prev = level.tail],
          level |-> WithEnds(level, level.head, slot)]

\* Mutants of unlink: the neighbour after keeps its old prev; a tail that
\* leaves does not hand its place to the one before.
MutUnlinkOneWay(nodes, level, prev, next) ==
    [slab  |-> [s \in DOMAIN nodes |->
                  WithLinks(nodes[s], nodes[s].prev,
                            IF s = prev THEN next ELSE nodes[s].next)],
     level |-> WithEnds(level, IF prev = NoSlot THEN next ELSE level.head,
                               IF next = NoSlot THEN prev ELSE level.tail)]
MutUnlinkKeepsTail(nodes, level, prev, next) ==
    [slab  |-> [s \in DOMAIN nodes |->
                  WithLinks(nodes[s], IF s = next THEN prev ELSE nodes[s].prev,
                                      IF s = prev THEN next ELSE nodes[s].next)],
     level |-> WithEnds(level, IF prev = NoSlot THEN next ELSE level.head,
                               level.tail)]

\* The neighbours of a node that left, or the ends of its level, close the gap.
unlink(nodes, level, prev, next) ==
    [slab  |-> [s \in DOMAIN nodes |->
                  WithLinks(nodes[s], IF s = next THEN prev ELSE nodes[s].prev,
                                      IF s = prev THEN next ELSE nodes[s].next)],
     level |-> WithEnds(level, IF prev = NoSlot THEN next ELSE level.head,
                               IF next = NoSlot THEN prev ELSE level.tail)]

\* A mutant of move_to_tail: the moved node keeps the links it had.
MutMoveStale(nodes, level, slot) ==
    IF level.tail = slot THEN [slab |-> nodes, level |-> level]
    ELSE LET out == unlink(nodes, level, nodes[slot].prev, nodes[slot].next)
         IN  link_tail(out.slab, out.level, slot)

move_to_tail(nodes, level, slot) ==
    IF level.tail = slot THEN [slab |-> nodes, level |-> level]
    ELSE LET out   == unlink(nodes, level, nodes[slot].prev, nodes[slot].next)
             alone == [out.slab EXCEPT ![slot] = WithLinks(@, NoSlot, NoSlot)]
         IN  link_tail(alone, out.level, slot)

-----------------------------------------------------------------------------
Init ==
    /\ slab = EmptyMap
    /\ slab_len = 0
    /\ free_list = <<>>
    /\ order_index = EmptyMap
    /\ levels = EmptyMap
    /\ wallet_index = EmptyMap
    /\ result = "Ok"

\* The call returns an error and changes nothing.
Fail(error) ==
    /\ result' = error
    /\ UNCHANGED <<slab, slab_len, free_list, order_index, levels, wallet_index>>

Rests(id) == id \in DOMAIN order_index
NodeOf(id) == slab[order_index[id]]

\* Mutants of FreshSlot: the index of the new last element is taken after the
\* push; the free list is read at the wrong end.
MutFreshSlot == IF free_list = <<>> THEN slab_len + 1 ELSE free_list[Len(free_list)]
MutFreshHead == IF free_list = <<>> THEN slab_len ELSE free_list[1]

\* alloc_slot: the slot freed last, or a new one at the end of the slab.
FreshSlot == IF free_list = <<>> THEN slab_len ELSE free_list[Len(free_list)]
TakeFreshSlot ==
    IF free_list = <<>>
    THEN slab_len' = slab_len + 1 /\ free_list' = free_list
    ELSE /\ slab_len' = slab_len
         /\ free_list' = SubSeq(free_list, 1, Len(free_list) - 1)

\* The successful path of add.
InsertOrder(order) ==
    LET queue  == QueueOf(order)
        level  == IF queue \in DOMAIN levels THEN levels[queue] ELSE NewLevel
        linked == link_tail(Insert(slab, FreshSlot, NewNode(order)),
                            Grown(level, order.qty), FreshSlot)
        owned  == IF order.wallet \in DOMAIN wallet_index
                  THEN wallet_index[order.wallet] ELSE {}
    IN  /\ TakeFreshSlot
        /\ slab' = linked.slab
        /\ levels' = Insert(levels, queue, linked.level)
        /\ order_index' = Insert(order_index, order.id, FreshSlot)
        /\ wallet_index' = Insert(wallet_index, order.wallet, owned \cup {order.id})
        /\ result' = "Ok"

\* Insert a new order: zero quantity first, then a duplicate id.
add(order) ==
    \/ order.qty = 0 /\ Fail("ZeroQty")
    \/ order.qty # 0 /\ Rests(order.id) /\ Fail("DuplicateOrderId")
    \/ order.qty # 0 /\ ~Rests(order.id) /\ InsertOrder(order)

\* A mutant of WithoutOwned: the wallet's entry is dropped with its first id.
MutWithoutOwned(wallet, id) == Without(wallet_index, wallet)

\* The wallet's set loses the id, and the map loses a set left empty.
WithoutOwned(wallet, id) ==
    IF wallet_index[wallet] = {id} THEN Without(wallet_index, wallet)
    ELSE [wallet_index EXCEPT ![wallet] = @ \ {id}]

\* A mutant of FreeSlot: the slot of a removed order is lost.
MutFreeSlot(slot) == UNCHANGED free_list
FreeSlot(slot) == free_list' = Append(free_list, slot)

\* A mutant of Vacated: a level is kept when its last order leaves.
MutVacated(queue, level) == [levels EXCEPT ![queue] = level]

\* A level goes with its last order.
Vacated(queue, level) ==
    IF level.order_count = 0 THEN Without(levels, queue)
    ELSE [levels EXCEPT ![queue] = level]

\* The successful path of remove.
TakeOut(id) ==
    LET slot  == order_index[id]
        node  == slab[slot]
        order == node.order
        queue == QueueOf(order)
        cut   == unlink(Without(slab, slot), Shrunk(levels[queue], order.qty),
                        node.prev, node.next)
    IN  /\ order_index' = Without(order_index, id)
        /\ slab' = cut.slab
        /\ FreeSlot(slot)
        /\ levels' = Vacated(queue, cut.level)
        /\ wallet_index' = WithoutOwned(order.wallet, id)
        /\ result' = "Ok"
        /\ UNCHANGED slab_len

remove(id) ==
    \/ ~Rests(id) /\ Fail("UnknownOrderId")
    \/ Rests(id) /\ TakeOut(id)

WithQty(node, qty) == [node EXCEPT !.order.qty = qty]

\* The level's total after one of its orders went from old_qty to new_qty.
Adjusted(total, old_qty, new_qty) ==
    IF new_qty > old_qty THEN WrapAdd(total, new_qty - old_qty)
                         ELSE WrapSub(total, old_qty - new_qty)

\* The slab and the level of an order once its quantity is new_qty.
NodesResized(slot, new_qty) == [slab EXCEPT ![slot] = WithQty(@, new_qty)]
LevelResized(slot, new_qty) ==
    LET order == slab[slot].order
        level == levels[QueueOf(order)]
    IN  WithCounters(level, level.order_count,
                     Adjusted(level.total_qty, order.qty, new_qty))

\* The order's quantity and its level's total follow each other.
SetQty(id, new_qty) ==
    LET slot  == order_index[id]
        queue == QueueOf(slab[slot].order)
    IN  /\ slab' = NodesResized(slot, new_qty)
        /\ levels' = [levels EXCEPT ![queue] = LevelResized(slot, new_qty)]
        /\ result' = "Ok"
        /\ UNCHANGED <<slab_len, free_list, order_index, wallet_index>>

\* A partial fill: strictly smaller, in place; zero removes the order.
update_size(id, new_qty) ==
    \/ ~Rests(id) /\ Fail("UnknownOrderId")
    \/ Rests(id) /\ new_qty >= NodeOf(id).order.qty /\ Fail("NonDecreasingSize")
    \/ Rests(id) /\ new_qty < NodeOf(id).order.qty /\ new_qty = 0 /\ TakeOut(id)
    \/ Rests(id) /\ new_qty < NodeOf(id).order.qty /\ new_qty # 0 /\ SetQty(id, new_qty)

\* An increase under LosePriorityOnIncrease: the order goes behind its level.
GrowAndMove(id, new_qty) ==
    LET slot  == order_index[id]
        queue == QueueOf(slab[slot].order)
        moved == move_to_tail(NodesResized(slot, new_qty),
                              LevelResized(slot, new_qty), slot)
    IN  /\ slab' = moved.slab
        /\ levels' = [levels EXCEPT ![queue] = moved.level]
        /\ result' = "Ok"
        /\ UNCHANGED <<slab_len, free_list, order_index, wallet_index>>

\* Zero cancels; an equal quantity changes nothing; only an increase may move.
amend_size_with_policy(id, new_qty, policy) ==
    \/ new_qty = 0 /\ remove(id)
    \/ new_qty # 0 /\ ~Rests(id) /\ Fail("UnknownOrderId")
    \/ new_qty # 0 /\ Rests(id) /\ new_qty = NodeOf(id).order.qty /\ Fail("Ok")
    \/ /\ new_qty # 0 /\ Rests(id) /\ new_qty # NodeOf(id).order.qty
       /\ policy = "Preserve" \/ new_qty < NodeOf(id).order.qty
       /\ SetQty(id, new_qty)
    \/ /\ new_qty # 0 /\ Rests(id) /\ new_qty > NodeOf(id).order.qty
       /\ policy = "LosePriorityOnIncrease"
       /\ GrowAndMove(id, new_qty)

clear ==
    /\ slab' = EmptyMap /\ slab_len' = 0 /\ free_list' = <<>>
    /\ order_index' = EmptyMap /\ levels' = EmptyMap /\ wallet_index' = EmptyMap
    /\ result' = "Ok"

Next ==
    \/ \E order \in Order : add(order)
    \/ \E id \in OrderId : remove(id)
    \/ \E id \in OrderId, new_qty \in Qty : update_size(id, new_qty)
    \/ \E id \in OrderId, new_qty \in Qty, policy \in AmendPriorityPolicy :
         amend_size_with_policy(id, new_qty, policy)
    \/ clear

Spec == Init /\ [][Next]_vars

-----------------------------------------------------------------------------
(* Correctness *)

TypeOK ==
    /\ slab_len \in Nat
    /\ DOMAIN slab \subseteq 0 .. (slab_len - 1)
    /\ slab \in [DOMAIN slab -> OrderNode]
    /\ free_list \in Seq(Nat)
    /\ DOMAIN order_index \subseteq OrderId
    /\ order_index \in [DOMAIN order_index -> Nat]
    /\ DOMAIN levels \subseteq Queue
    /\ levels \in [DOMAIN levels -> Level]
    /\ DOMAIN wallet_index \subseteq WalletId
    /\ wallet_index \in [DOMAIN wallet_index -> SUBSET OrderId]
    /\ result \in Result

(* Every `expect("slab slot present for indexed order")` holds: the index    *)
(* and the slab name each other, and no resting order has a zero quantity.   *)
IndexExact ==
    /\ \A id \in DOMAIN order_index :
         /\ order_index[id] \in DOMAIN slab
         /\ slab[order_index[id]].order.id = id
    /\ \A s \in DOMAIN slab :
         /\ slab[s].order.id \in DOMAIN order_index
         /\ order_index[slab[s].order.id] = s
         /\ slab[s].order.qty # 0

(* The arena neither leaks a slot nor hands one out twice: the free list is  *)
(* the vacant slots, each once (alloc_slot and remove, book.rs:938, 353).    *)
FreeListExact ==
    /\ \A s \in 0 .. (slab_len - 1) :
         s \notin DOMAIN slab <=> \E i \in DOMAIN free_list : free_list[i] = s
    /\ \A i \in DOMAIN free_list : free_list[i] \in 0 .. (slab_len - 1)
    /\ \A i, j \in DOMAIN free_list : free_list[i] = free_list[j] => i = j

(* The links of a level never reach a freed slot or another level's order:   *)
(* next and prev are inverse, and the ends of the list are the level's head  *)
(* and tail (link_tail, unlink, move_to_tail, book.rs:1028-1069).            *)
LinksConsistent ==
    /\ \A q \in DOMAIN levels :
         /\ levels[q].head \in DOMAIN slab /\ QueueOf(slab[levels[q].head].order) = q
         /\ levels[q].tail \in DOMAIN slab /\ QueueOf(slab[levels[q].tail].order) = q
    /\ \A s \in DOMAIN slab :
         LET node == slab[s]
             q    == QueueOf(node.order)
         IN  /\ q \in DOMAIN levels
             /\ node.next = NoSlot <=> levels[q].tail = s
             /\ node.prev = NoSlot <=> levels[q].head = s
             /\ node.next # NoSlot =>
                  /\ node.next \in DOMAIN slab
                  /\ QueueOf(slab[node.next].order) = q
                  /\ slab[node.next].prev = s
             /\ node.prev # NoSlot =>
                  /\ node.prev \in DOMAIN slab
                  /\ QueueOf(slab[node.prev].order) = q
                  /\ slab[node.prev].next = s

(* The links of a level run through all its orders, each once: with stamps   *)
(* increasing from head to tail, no order of the level falls between two     *)
(* neighbours.  Without it a list could close on itself beside its level.    *)
InTimeOrder(stamp) ==
    /\ \A s, t \in DOMAIN slab : stamp[s] = stamp[t] => s = t
    /\ \A s \in DOMAIN slab :
         slab[s].next # NoSlot => stamp[s] < stamp[slab[s].next]
    /\ \A s, t \in DOMAIN slab :
         QueueOf(slab[s].order) = QueueOf(slab[t].order) /\ stamp[s] < stamp[t] =>
           /\ slab[s].next # NoSlot /\ stamp[slab[s].next] <= stamp[t]
           /\ slab[t].prev # NoSlot /\ stamp[s] <= stamp[slab[t].prev]
LevelsAreChains == \E stamp \in [DOMAIN slab -> 0 .. slab_len] : InTimeOrder(stamp)

(* A level exists exactly while an order rests at its price, and counts the  *)
(* orders there: best_bid and best_ask, which read the keys of the map, never *)
(* quote a price nobody rests at (book.rs:369-371, 559-565).                 *)
SlotsAt(q) == {s \in DOMAIN slab : QueueOf(slab[s].order) = q}
LevelsExact ==
    /\ DOMAIN levels = {QueueOf(slab[s].order) : s \in DOMAIN slab}
    /\ \A q \in DOMAIN levels : levels[q].order_count = Cardinality(SlotsAt(q))

(* A wallet is listed exactly while it owns a resting order, with exactly    *)
(* the ids it owns (orders_by_wallet, book.rs:903-906).                      *)
OwnedBy(w) == {slab[s].order.id : s \in {t \in DOMAIN slab : slab[t].order.wallet = w}}
WalletsExact ==
    /\ DOMAIN wallet_index = {slab[s].order.wallet : s \in DOMAIN slab}
    /\ \A w \in DOMAIN wallet_index : wallet_index[w] = OwnedBy(w)

-----------------------------------------------------------------------------
(* The walk of a level from head to tail, and what it represents *)

\* The slots met from `slot` on, `fuel` of them at most: a list has no more
\* slots than the slab, and a walk that would not end stops all the same.
SlotsFrom[fuel \in Nat] ==
    [slot \in Link |->
        IF fuel = 0 \/ slot \notin DOMAIN slab THEN <<>>
        ELSE <<slot>> \o SlotsFrom[fuel - 1][slab[slot].next]]

SlotsOf(q) ==
    IF q \in DOMAIN levels THEN SlotsFrom[slab_len + 1][levels[q].head] ELSE <<>>

\* orders_at: the orders of a level in the order the walk yields them.
orders_at(q) == [i \in DOMAIN SlotsOf(q) |-> slab[SlotsOf(q)[i]].order]

\* The sum that a walk adds up, order by order.
TotalQty(orders) ==
    LET upto[n \in 0 .. Len(orders)] ==
            IF n = 0 THEN 0 ELSE upto[n - 1] + orders[n].qty
    IN  upto[Len(orders)]

(* assert_invariants (book.rs:911-936): on every level, the walk yields orders *)
(* of that level only, as many as it counts, ends at its tail, and adds up to  *)
(* its total; a release build keeps the total modulo 2^64.                     *)
AssertInvariants ==
    /\ \A q \in DOMAIN levels :
         LET walk == SlotsOf(q)
         IN  /\ \A i \in DOMAIN walk : QueueOf(slab[walk[i]].order) = q
             /\ levels[q].order_count = Len(walk)
             /\ levels[q].total_qty = TotalQty(orders_at(q)) % QtyLimit
             /\ levels[q].tail = walk[Len(walk)]
    /\ Cardinality(DOMAIN order_index) = Cardinality(DOMAIN slab)

(* The walks of the levels are the queues of PriorityBook, and every call     *)
(* answers as PriorityBook does and changes the queues as it does: the slab,  *)
(* its links and its indexes are invisible.                                   *)
Abstract == INSTANCE PriorityBook
              WITH book <- [q \in Queue |-> orders_at(q)], result <- result
ImplementsPriorityBook == Abstract!Spec
=============================================================================
