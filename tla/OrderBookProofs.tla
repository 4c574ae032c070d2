-------------------------- MODULE OrderBookProofs --------------------------
(***************************************************************************)
(* Proofs about OrderBook for every set of ids, wallets and prices and     *)
(* every width of Qty.                                                     *)
(*                                                                         *)
(* First, its structures stay consistent.  The invariants of OrderBook are *)
(* not inductive on their own: LinksConsistent would admit a ring of       *)
(* orders beside the list of its level, and removing the only order the    *)
(* list reaches would then leave a level without a head.  Inv adds         *)
(* ChainsAreStamped, which excludes rings.                                 *)
(*                                                                         *)
(* Then, the slab and its links implement the queues of PriorityBook.      *)
(* SlotsOf follows the next links of a level as orders_at and              *)
(* assert_invariants do.  It is defined by recursion on the fuel of the    *)
(* walk, which no prover here unfolds: SlotsFromUnfolds shows its defining *)
(* equation, through the finite approximations of the function.  From Inv  *)
(* the walk of every level is then complete (WalkIsComplete): it starts at *)
(* the head, follows the links, ends at the tail and passes every order of *)
(* the level exactly once.  Each call changes the walks as the call of     *)
(* PriorityBook changes its sequences: insert extends one (InsertShows), a *)
(* removal cuts one (TakeOutShows), a new quantity keeps them              *)
(* (SetQtyShows), and an order that loses its place turns one              *)
(* (GrowAndMoveShows).                                                     *)
(*                                                                         *)
(* The cached total of a level is the sum of what its walk shows, modulo   *)
(* 2^64 (TotalsExact), which needs the remainders of sums; with it         *)
(* assert_invariants never fails.                                          *)
(***************************************************************************)
EXTENDS OrderBook, SequenceTheorems, FiniteSetTheorems, FunctionTheorems,
        WellFoundedInduction, TLAPS

-----------------------------------------------------------------------------
(* The records *)

\* Release-build sums stay within u64: a wrapped result is a quantity again.
LEMMA ArithmeticType ==
    ASSUME NEW a \in Qty, NEW b \in Qty
    PROVE  WrapAdd(a, b) \in Qty /\ WrapSub(a, b) \in Qty
BY QtyLimitAssumption DEF WrapAdd, WrapSub, Qty

\* The side and price of an order name a queue.
LEMMA QueueOfType == \A order \in Order : QueueOf(order) \in Queue
BY DEF Order, QueueOf, Queue

\* None is a possible link, and so is every slot.
LEMMA NoSlotIsNoSlot == NoSlot \in Link /\ Nat \subseteq Link
BY DEF Link

\* Rewriting prev and next keeps a node a node and leaves its order alone.
LEMMA WithLinksType ==
    ASSUME NEW node \in OrderNode, NEW prev \in Link, NEW next \in Link
    PROVE  /\ WithLinks(node, prev, next) \in OrderNode
           /\ WithLinks(node, prev, next).order = node.order
           /\ WithLinks(node, prev, next).prev = prev
           /\ WithLinks(node, prev, next).next = next
BY DEF OrderNode, WithLinks

\* Rewriting head and tail leaves a level's counters alone.
LEMMA WithEndsType ==
    ASSUME NEW level \in Level, NEW head \in Link, NEW tail \in Link
    PROVE  /\ WithEnds(level, head, tail) \in Level
           /\ WithEnds(level, head, tail).order_count = level.order_count
           /\ WithEnds(level, head, tail).total_qty = level.total_qty
           /\ WithEnds(level, head, tail).head = head
           /\ WithEnds(level, head, tail).tail = tail
<1> DEFINE first == [level EXCEPT !.head = head]
<1>1. first = [order_count |-> level.order_count, total_qty |-> level.total_qty,
               head |-> head, tail |-> level.tail]
  BY DEF Level
<1>2. first \in Level  BY <1>1 DEF Level
<1>3. WithEnds(level, head, tail) = [first EXCEPT !.tail = tail]  BY DEF WithEnds
<1>4. [first EXCEPT !.tail = tail] =
        [order_count |-> first.order_count, total_qty |-> first.total_qty,
         head |-> first.head, tail |-> tail]
  <2> HIDE DEF first
  <2> QED  BY <1>2 DEF Level
<1> QED  BY <1>1, <1>2, <1>3, <1>4 DEF Level

\* Rewriting the counters leaves a level's ends alone.
LEMMA WithCountersType ==
    ASSUME NEW level \in Level, NEW count \in Nat, NEW total \in Qty
    PROVE  /\ WithCounters(level, count, total) \in Level
           /\ WithCounters(level, count, total).order_count = count
           /\ WithCounters(level, count, total).head = level.head
           /\ WithCounters(level, count, total).tail = level.tail
<1> DEFINE first == [level EXCEPT !.order_count = count]
<1>1. first = [order_count |-> count, total_qty |-> level.total_qty,
               head |-> level.head, tail |-> level.tail]
  BY DEF Level
<1>2. first \in Level  BY <1>1 DEF Level
<1>3. WithCounters(level, count, total) = [first EXCEPT !.total_qty = total]
  BY DEF WithCounters
<1>4. [first EXCEPT !.total_qty = total] =
        [order_count |-> first.order_count, total_qty |-> total,
         head |-> first.head, tail |-> first.tail]
  <2> HIDE DEF first
  <2> QED  BY <1>2 DEF Level
<1> QED  BY <1>1, <1>2, <1>3, <1>4 DEF Level

\* A level that an order joins counts one more; its ends do not move yet.
LEMMA GrownType ==
    ASSUME NEW level \in Level, NEW qty \in Qty
    PROVE  /\ Grown(level, qty) \in Level
           /\ Grown(level, qty).order_count = level.order_count + 1
           /\ Grown(level, qty).head = level.head
           /\ Grown(level, qty).tail = level.tail
<1>0. level.order_count \in Nat /\ level.total_qty \in Qty  BY DEF Level
<1>1. level.order_count + 1 \in Nat  BY <1>0
<1>2. WrapAdd(level.total_qty, qty) \in Qty
  BY <1>0, ArithmeticType
<1> QED  BY <1>1, <1>2, WithCountersType DEF Grown

\* A non-empty level that an order leaves counts one less (book.rs:364-365):
\* the u32 count does not go below zero.
LEMMA ShrunkType ==
    ASSUME NEW level \in Level, NEW qty \in Qty, level.order_count # 0
    PROVE  /\ Shrunk(level, qty) \in Level
           /\ Shrunk(level, qty).order_count = level.order_count - 1
           /\ Shrunk(level, qty).head = level.head
           /\ Shrunk(level, qty).tail = level.tail
<1>0. level.order_count \in Nat /\ level.total_qty \in Qty  BY DEF Level
<1>1. level.order_count - 1 \in Nat  BY <1>0
<1>2. WrapSub(level.total_qty, qty) \in Qty
  BY <1>0, ArithmeticType
<1> QED  BY <1>1, <1>2, WithCountersType DEF Shrunk

\* A new quantity leaves an order's id, owner, queue and links alone.
LEMMA WithQtyType ==
    ASSUME NEW node \in OrderNode, NEW qty \in Qty
    PROVE  /\ WithQty(node, qty) \in OrderNode
           /\ WithQty(node, qty).prev = node.prev
           /\ WithQty(node, qty).next = node.next
           /\ WithQty(node, qty).order.id = node.order.id
           /\ WithQty(node, qty).order.wallet = node.order.wallet
           /\ WithQty(node, qty).order.qty = qty
           /\ QueueOf(WithQty(node, qty).order) = QueueOf(node.order)
<1> DEFINE order == [node.order EXCEPT !.qty = qty]
<1>1. /\ order \in Order
      /\ order.id = node.order.id /\ order.wallet = node.order.wallet /\ order.qty = qty
      /\ QueueOf(order) = QueueOf(node.order)
  BY DEF OrderNode, Order, QueueOf
<1>2. WithQty(node, qty) = [node EXCEPT !.order = order]  BY DEF WithQty
<1> HIDE DEF order
<1> QED  BY <1>1, <1>2 DEF OrderNode

-----------------------------------------------------------------------------
(* The lists: what link_tail, unlink and move_to_tail leave *)

\* link_tail on a level (book.rs:1028-1036): the slot is the new tail, and the
\* head of a level that had none.
LEMMA LinkTailLevel ==
    ASSUME NEW nodes, NEW level \in Level, NEW slot \in Link,
           NEW new, new = link_tail(nodes, level, slot).level
    PROVE  /\ new \in Level
           /\ new.order_count = level.order_count
           /\ new.head = IF level.tail = NoSlot THEN slot ELSE level.head
           /\ new.tail = slot
<1> DEFINE h == IF level.tail = NoSlot THEN slot ELSE level.head
<1>1. h \in Link  BY DEF Level
<1>2. new = WithEnds(level, h, slot)  BY DEF link_tail
<1> HIDE DEF h
<1>3. /\ new \in Level
      /\ new.order_count = level.order_count
      /\ new.head = h
      /\ new.tail = slot
  BY <1>1, <1>2, WithEndsType
<1> QED  BY <1>3 DEF h

\* link_tail on the slab: the old tail's next and the slot's prev, nothing else.
LEMMA LinkTailEffect ==
    ASSUME NEW nodes, nodes \in [DOMAIN nodes -> OrderNode],
           DOMAIN nodes \subseteq Link, NoSlot \notin DOMAIN nodes,
           NEW level \in Level, NEW slot \in DOMAIN nodes, level.tail # slot,
           level.tail # NoSlot => level.tail \in DOMAIN nodes,
           NEW r, r = link_tail(nodes, level, slot)
    PROVE  /\ r.slab \in [DOMAIN nodes -> OrderNode]
           /\ \A s \in DOMAIN nodes :
                /\ r.slab[s].order = nodes[s].order
                /\ r.slab[s].next = IF s = level.tail THEN slot ELSE nodes[s].next
                /\ r.slab[s].prev = IF s = slot /\ level.tail # NoSlot
                                    THEN level.tail ELSE nodes[s].prev
           /\ r.level \in Level
           /\ r.level.order_count = level.order_count
           /\ r.level.head = IF level.tail = NoSlot THEN slot ELSE level.head
           /\ r.level.tail = slot
<1>0. /\ r.level \in Level
      /\ r.level.order_count = level.order_count
      /\ r.level.head = IF level.tail = NoSlot THEN slot ELSE level.head
      /\ r.level.tail = slot
  <2>1. slot \in Link  OBVIOUS
  <2> QED  BY <2>1, LinkTailLevel
<1>1. CASE level.tail = NoSlot
  <2>1. r.slab = nodes  BY <1>1 DEF link_tail
  <2> QED  BY <1>0, <1>1, <2>1
<1>2. CASE level.tail # NoSlot
  <2> DEFINE t == level.tail
             one == [nodes EXCEPT ![t].next = slot]
  <2>1. t \in DOMAIN nodes /\ t \in Link /\ slot \in Link  BY <1>2
  <2>2. r.slab = [one EXCEPT ![slot].prev = t]  BY <1>2 DEF link_tail
  <2>3. /\ one \in [DOMAIN nodes -> OrderNode]
        /\ \A s \in DOMAIN nodes :
             /\ one[s].order = nodes[s].order
             /\ one[s].next = IF s = t THEN slot ELSE nodes[s].next
             /\ one[s].prev = nodes[s].prev
    BY <2>1 DEF OrderNode
  <2>4. /\ r.slab \in [DOMAIN nodes -> OrderNode]
        /\ \A s \in DOMAIN nodes :
             /\ r.slab[s].order = one[s].order
             /\ r.slab[s].next = one[s].next
             /\ r.slab[s].prev = IF s = slot THEN t ELSE one[s].prev
    <3> HIDE DEF one
    <3> QED  BY <2>1, <2>2, <2>3 DEF OrderNode
  <2> QED  BY <1>0, <1>2, <2>3, <2>4
<1> QED  BY <1>1, <1>2

\* unlink (book.rs:1038-1052): only the two neighbours' links that named the
\* slot change, and the ends when there is no neighbour.
LEMMA UnlinkEffect ==
    ASSUME NEW nodes, nodes \in [DOMAIN nodes -> OrderNode],
           NEW level \in Level, NEW prev \in Link, NEW next \in Link,
           NEW r, r = unlink(nodes, level, prev, next)
    PROVE  /\ r.slab \in [DOMAIN nodes -> OrderNode]
           /\ \A s \in DOMAIN nodes :
                /\ r.slab[s].order = nodes[s].order
                /\ r.slab[s].next = IF s = prev THEN next ELSE nodes[s].next
                /\ r.slab[s].prev = IF s = next THEN prev ELSE nodes[s].prev
           /\ r.level \in Level
           /\ r.level.order_count = level.order_count
           /\ r.level.head = IF prev = NoSlot THEN next ELSE level.head
           /\ r.level.tail = IF next = NoSlot THEN prev ELSE level.tail
<1> DEFINE h == IF prev = NoSlot THEN next ELSE level.head
           t == IF next = NoSlot THEN prev ELSE level.tail
           n(s) == IF s = prev THEN next ELSE nodes[s].next
           p(s) == IF s = next THEN prev ELSE nodes[s].prev
<1>1. h \in Link /\ t \in Link  BY DEF Level
<1>2. r.level = WithEnds(level, h, t)  BY DEF unlink
<1>3. r.slab = [s \in DOMAIN nodes |-> WithLinks(nodes[s], p(s), n(s))]
  BY DEF unlink
<1>4. \A s \in DOMAIN nodes : n(s) \in Link /\ p(s) \in Link  BY DEF OrderNode
<1>5. /\ r.slab \in [DOMAIN nodes -> OrderNode]
      /\ \A s \in DOMAIN nodes :
           /\ r.slab[s].order = nodes[s].order
           /\ r.slab[s].next = n(s)
           /\ r.slab[s].prev = p(s)
  <2> HIDE DEF n, p
  <2>1. \A s \in DOMAIN nodes :
          /\ WithLinks(nodes[s], p(s), n(s)) \in OrderNode
          /\ WithLinks(nodes[s], p(s), n(s)).order = nodes[s].order
          /\ WithLinks(nodes[s], p(s), n(s)).prev = p(s)
          /\ WithLinks(nodes[s], p(s), n(s)).next = n(s)
    BY <1>4, WithLinksType
  <2> QED  BY <1>3, <2>1
<1>6. /\ r.level \in Level
      /\ r.level.order_count = level.order_count
      /\ r.level.head = h
      /\ r.level.tail = t
  <2> HIDE DEF h, t
  <2> QED  BY <1>1, <1>2, WithEndsType
<1> QED  BY <1>5, <1>6

\* move_to_tail (book.rs:1054-1069) on a slot that is not the tail: the gap it
\* leaves is closed and it is linked behind the old tail.
LEMMA MoveToTailEffect ==
    ASSUME NEW nodes, nodes \in [DOMAIN nodes -> OrderNode],
           DOMAIN nodes \subseteq Link, NoSlot \notin DOMAIN nodes,
           NEW level \in Level, NEW slot \in DOMAIN nodes, level.tail # slot,
           NEW prev, prev = nodes[slot].prev, NEW next, next = nodes[slot].next,
           level.tail \in DOMAIN nodes, next \in DOMAIN nodes,
           NEW r, r = move_to_tail(nodes, level, slot)
    PROVE  /\ r.slab \in [DOMAIN nodes -> OrderNode]
           /\ \A s \in DOMAIN nodes :
                /\ r.slab[s].order = nodes[s].order
                /\ r.slab[s].next = IF s = level.tail THEN slot
                                    ELSE IF s = slot THEN NoSlot
                                    ELSE IF s = prev THEN next ELSE nodes[s].next
                /\ r.slab[s].prev = IF s = slot THEN level.tail
                                    ELSE IF s = next THEN prev ELSE nodes[s].prev
           /\ r.level \in Level
           /\ r.level.order_count = level.order_count
           /\ r.level.head = IF prev = NoSlot THEN next ELSE level.head
           /\ r.level.tail = slot
<1>1. prev \in Link /\ next \in Link /\ next # NoSlot /\ level.tail # NoSlot
  BY DEF OrderNode
<1> DEFINE out   == unlink(nodes, level, prev, next)
           alone == [out.slab EXCEPT ![slot] = WithLinks(out.slab[slot], NoSlot, NoSlot)]
<1>2. r = link_tail(alone, out.level, slot)  BY DEF move_to_tail
<1>3. /\ out.slab \in [DOMAIN nodes -> OrderNode]
      /\ \A s \in DOMAIN nodes :
           /\ out.slab[s].order = nodes[s].order
           /\ out.slab[s].next = IF s = prev THEN next ELSE nodes[s].next
           /\ out.slab[s].prev = IF s = next THEN prev ELSE nodes[s].prev
      /\ out.level \in Level
      /\ out.level.order_count = level.order_count
      /\ out.level.head = IF prev = NoSlot THEN next ELSE level.head
      /\ out.level.tail = level.tail
  <2> HIDE DEF out
  <2>1. out = unlink(nodes, level, prev, next)  BY DEF out
  <2>2. next # NoSlot  BY <1>1
  <2>3. /\ out.slab \in [DOMAIN nodes -> OrderNode]
        /\ \A s \in DOMAIN nodes :
             /\ out.slab[s].order = nodes[s].order
             /\ out.slab[s].next = IF s = prev THEN next ELSE nodes[s].next
             /\ out.slab[s].prev = IF s = next THEN prev ELSE nodes[s].prev
        /\ out.level \in Level
        /\ out.level.order_count = level.order_count
        /\ out.level.head = IF prev = NoSlot THEN next ELSE level.head
        /\ out.level.tail = IF next = NoSlot THEN prev ELSE level.tail
    <3>1. prev \in Link /\ next \in Link  BY <1>1
    <3>2. nodes \in [DOMAIN nodes -> OrderNode]  OBVIOUS
    <3> QED  BY ONLY <2>1, <3>1, <3>2, UnlinkEffect, level \in Level
  <2> QED  BY <2>2, <2>3
<1>4. /\ alone \in [DOMAIN nodes -> OrderNode]
      /\ \A s \in DOMAIN nodes :
           /\ alone[s].order = nodes[s].order
           /\ alone[s].next = IF s = slot THEN NoSlot ELSE out.slab[s].next
           /\ alone[s].prev = IF s = slot THEN NoSlot ELSE out.slab[s].prev
  <2> HIDE DEF out
  <2>1. out.slab[slot] \in OrderNode  BY <1>3
  <2> DEFINE new == WithLinks(out.slab[slot], NoSlot, NoSlot)
  <2>2. /\ new \in OrderNode
        /\ new.order = out.slab[slot].order
        /\ new.prev = NoSlot
        /\ new.next = NoSlot
    <3>1. NoSlot \in Link  BY NoSlotIsNoSlot
    <3> QED  BY ONLY <2>1, <3>1, WithLinksType
  <2> HIDE DEF new
  <2>3. alone = [out.slab EXCEPT ![slot] = new]  BY DEF new
  <2> HIDE DEF alone
  <2> QED  BY <1>3, <2>2, <2>3
<1>5. /\ r.slab \in [DOMAIN nodes -> OrderNode]
      /\ \A s \in DOMAIN nodes :
           /\ r.slab[s].order = alone[s].order
           /\ r.slab[s].next = IF s = level.tail THEN slot ELSE alone[s].next
           /\ r.slab[s].prev = IF s = slot THEN level.tail ELSE alone[s].prev
      /\ r.level \in Level
      /\ r.level.order_count = out.level.order_count
      /\ r.level.head = out.level.head
      /\ r.level.tail = slot
  <2> HIDE DEF out, alone
  <2>1. DOMAIN alone = DOMAIN nodes  BY <1>4
  <2> QED  BY <1>1, <1>2, <1>3, <1>4, <2>1, LinkTailEffect
<1> HIDE DEF out, alone
<1> QED  BY <1>3, <1>4, <1>5

-----------------------------------------------------------------------------
(* The arena: alloc_slot and the free list *)

\* alloc_slot (book.rs:938-945) hands out a vacant slot, and the free list is
\* exact again once that slot holds an order.
LEMMA AllocEffect ==
    ASSUME TypeOK, FreeListExact, TakeFreshSlot
    PROVE  /\ FreshSlot \in Nat /\ FreshSlot \notin DOMAIN slab
           /\ slab_len' \in Nat /\ FreshSlot \in 0 .. (slab_len' - 1)
           /\ 0 .. (slab_len - 1) \subseteq 0 .. (slab_len' - 1)
           /\ free_list' \in Seq(Nat)
           /\ DOMAIN slab' = DOMAIN slab \cup {FreshSlot} => FreeListExact'
<1>0. /\ slab_len \in Nat /\ DOMAIN slab \subseteq 0 .. (slab_len - 1)
      /\ free_list \in Seq(Nat)
  BY DEF TypeOK
<1>1. CASE free_list = <<>>
  <2>1. FreshSlot = slab_len /\ slab_len' = slab_len + 1 /\ free_list' = free_list
    BY <1>1 DEF FreshSlot, TakeFreshSlot
  <2>2. DOMAIN free_list = {}  BY <1>1
  <2>3. \A s \in 0 .. (slab_len - 1) : s \in DOMAIN slab
    BY <2>2 DEF FreeListExact
  <2>4. DOMAIN free_list' = {}  BY <2>1, <2>2
  <2>5. ASSUME DOMAIN slab' = DOMAIN slab \cup {FreshSlot}
        PROVE  FreeListExact'
    <3>1. \A s \in 0 .. (slab_len' - 1) : s \in DOMAIN slab'
      BY <1>0, <2>1, <2>3, <2>5
    <3> QED  BY <2>4, <3>1 DEF FreeListExact
  <2>6. FreshSlot \in Nat /\ FreshSlot \notin DOMAIN slab  BY <1>0, <2>1
  <2>7. slab_len \in Nat /\ slab_len' = slab_len + 1 /\ FreshSlot = slab_len
    BY <1>0, <2>1
  <2>8. /\ slab_len' \in Nat /\ FreshSlot \in 0 .. (slab_len' - 1)
        /\ 0 .. (slab_len - 1) \subseteq 0 .. (slab_len' - 1)
    BY ONLY <2>7
  <2> QED  BY <1>0, <2>1, <2>5, <2>6, <2>8
<1>2. CASE free_list # <<>>
  <2> DEFINE n == Len(free_list)
  <2>1. n \in Nat \ {0} /\ DOMAIN free_list = 1 .. n
    BY <1>0, <1>2
  <2>2. /\ FreshSlot = free_list[n] /\ slab_len' = slab_len
        /\ free_list' = SubSeq(free_list, 1, n - 1)
    BY <1>2 DEF FreshSlot, TakeFreshSlot
  <2>3. /\ free_list' \in Seq(Nat) /\ DOMAIN free_list' = 1 .. (n - 1)
        /\ \A i \in 1 .. (n - 1) : free_list'[i] = free_list[i]
    BY <1>0, <2>1, <2>2
  <2>4. FreshSlot \in 0 .. (slab_len - 1) /\ FreshSlot \notin DOMAIN slab
    BY <1>0, <2>1, <2>2 DEF FreeListExact
  <2>5. ASSUME DOMAIN slab' = DOMAIN slab \cup {FreshSlot}
        PROVE  FreeListExact'
    <3> HIDE DEF n
    <3>1. \A i \in 1 .. (n - 1) : i \in DOMAIN free_list /\ n \in DOMAIN free_list /\ i # n
      BY <2>1
    <3>2. \A i, j \in DOMAIN free_list' : free_list'[i] = free_list'[j] => i = j
      BY <2>3, <3>1 DEF FreeListExact
    <3>3. \A i \in DOMAIN free_list' : free_list'[i] \in 0 .. (slab_len' - 1)
      BY <2>2, <2>3, <3>1 DEF FreeListExact
    <3>4. \A i \in DOMAIN free_list' : free_list'[i] # FreshSlot
      BY <2>2, <2>3, <3>1 DEF FreeListExact
    <3>5. ASSUME NEW s \in 0 .. (slab_len' - 1)
          PROVE  s \notin DOMAIN slab' <=> \E i \in DOMAIN free_list' : free_list'[i] = s
      <4>1. CASE s = FreshSlot  BY <2>5, <3>4, <4>1
      <4>2. CASE s # FreshSlot
        <5>1. s \notin DOMAIN slab <=> \E i \in DOMAIN free_list : free_list[i] = s
          BY <2>2 DEF FreeListExact
        <5>2. \A i \in DOMAIN free_list : free_list[i] = s => i \in 1 .. (n - 1)
          BY <2>1, <2>2, <4>2
        <5> QED  BY <2>3, <2>5, <3>1, <4>2, <5>1, <5>2
      <4> QED  BY <4>1, <4>2
    <3> QED  BY <3>2, <3>3, <3>5 DEF FreeListExact
  <2> QED  BY <1>0, <2>2, <2>3, <2>4, <2>5
<1> QED  BY <1>1, <1>2

\* Freeing a live slot (book.rs:353) keeps the free list exact.
LEMMA FreeEffect ==
    ASSUME TypeOK, FreeListExact, NEW slot \in DOMAIN slab,
           FreeSlot(slot), slab_len' = slab_len,
           DOMAIN slab' = DOMAIN slab \ {slot}
    PROVE  free_list' \in Seq(Nat) /\ FreeListExact'
<1> DEFINE n == Len(free_list)
<1>0. /\ slab_len \in Nat /\ DOMAIN slab \subseteq 0 .. (slab_len - 1)
      /\ free_list \in Seq(Nat) /\ n \in Nat /\ DOMAIN free_list = 1 .. n
  BY DEF TypeOK
<1>1. slot \in Nat /\ slot \in 0 .. (slab_len - 1)  BY <1>0
<1>2. /\ free_list' \in Seq(Nat) /\ DOMAIN free_list' = 1 .. (n + 1)
      /\ \A i \in 1 .. n : free_list'[i] = free_list[i]
      /\ free_list'[n + 1] = slot
  BY <1>0, <1>1 DEF FreeSlot
<1>3. \A i \in DOMAIN free_list : free_list[i] # slot
  BY <1>1 DEF FreeListExact
<1>4. \A i \in DOMAIN free_list' : i = n + 1 \/ i \in DOMAIN free_list
  BY <1>0, <1>2
<1>5. \A i \in DOMAIN free_list' : free_list'[i] \in 0 .. (slab_len' - 1)
  BY <1>0, <1>1, <1>2, <1>4 DEF FreeListExact
<1>6. \A i, j \in DOMAIN free_list' : free_list'[i] = free_list'[j] => i = j
  BY <1>0, <1>2, <1>3, <1>4 DEF FreeListExact
<1>7. ASSUME NEW s \in 0 .. (slab_len' - 1)
      PROVE  s \notin DOMAIN slab' <=> \E i \in DOMAIN free_list' : free_list'[i] = s
  <2>1. n + 1 \in DOMAIN free_list' /\ DOMAIN free_list \subseteq DOMAIN free_list'
    BY <1>0, <1>2
  <2>2. s \notin DOMAIN slab <=> \E i \in DOMAIN free_list : free_list[i] = s
    BY DEF FreeListExact
  <2> QED  BY <1>0, <1>2, <1>4, <2>1, <2>2
<1> QED  BY <1>2, <1>5, <1>6, <1>7 DEF FreeListExact

-----------------------------------------------------------------------------
(* The inductive invariant, and what each action leaves *)

\* The next order to arrive can be stamped `bound`, after everyone.
ChainsAreStamped ==
    \E bound \in Nat : \E stamp \in [DOMAIN slab -> Nat] :
        /\ \A s \in DOMAIN slab : stamp[s] < bound
        /\ InTimeOrder(stamp)

Inv ==
    /\ TypeOK /\ IndexExact /\ FreeListExact /\ LinksConsistent
    /\ ChainsAreStamped /\ LevelsExact /\ WalletsExact

TailAt(q)  == IF q \in DOMAIN levels THEN levels[q].tail ELSE NoSlot
HeadAt(q)  == IF q \in DOMAIN levels THEN levels[q].head ELSE NoSlot
CountAt(q) == IF q \in DOMAIN levels THEN levels[q].order_count ELSE 0

\* Live slots are numbers, never None, and hold well-typed nodes.
LEMMA SlotFacts ==
    ASSUME TypeOK
    PROVE  /\ DOMAIN slab \subseteq Nat /\ DOMAIN slab \subseteq Link
           /\ NoSlot \notin DOMAIN slab
           /\ \A s \in DOMAIN slab :
                /\ slab[s] \in OrderNode
                /\ slab[s].order \in Order
                /\ slab[s].prev \in Link /\ slab[s].next \in Link
                /\ QueueOf(slab[s].order) \in Queue
BY NoSlotAssumption, NoSlotIsNoSlot, QueueOfType DEF TypeOK, OrderNode

\* What the successful path of add (book.rs:324-341) leaves of the slab and the levels.
LEMMA InsertEffect ==
    ASSUME TypeOK, FreeListExact, LinksConsistent,
           NEW order \in Order, InsertOrder(order)
    PROVE  LET f == FreshSlot
               q == QueueOf(order)
           IN  /\ slab' \in [DOMAIN slab \cup {f} -> OrderNode]
               /\ \A s \in DOMAIN slab :
                    /\ slab'[s].order = slab[s].order
                    /\ slab'[s].next = IF s = TailAt(q) THEN f ELSE slab[s].next
                    /\ slab'[s].prev = slab[s].prev
               /\ slab'[f].order = order
               /\ slab'[f].next = NoSlot
               /\ slab'[f].prev = TailAt(q)
               /\ levels' \in [DOMAIN levels \cup {q} -> Level]
               /\ \A k \in DOMAIN levels : k # q => levels'[k] = levels[k]
               /\ levels'[q].order_count = CountAt(q) + 1
               /\ levels'[q].head = IF HeadAt(q) = NoSlot THEN f ELSE HeadAt(q)
               /\ levels'[q].tail = f
<1> DEFINE f == FreshSlot
           q == QueueOf(order)
           level == IF q \in DOMAIN levels THEN levels[q] ELSE NewLevel
           grown == Grown(level, order.qty)
           nodes == Insert(slab, f, NewNode(order))
           linked == link_tail(nodes, grown, f)
<1>1. f \in Nat /\ f \notin DOMAIN slab /\ f \in Link /\ f # NoSlot
  <2>1. TakeFreshSlot  BY DEF InsertOrder
  <2> QED  BY <2>1, AllocEffect, NoSlotIsNoSlot, NoSlotAssumption
<1>2. slab' = linked.slab /\ levels' = Insert(levels, q, linked.level)
  BY DEF InsertOrder
<1>3. NewNode(order) \in OrderNode /\ NewNode(order).order = order
      /\ NewNode(order).prev = NoSlot /\ NewNode(order).next = NoSlot
  BY NoSlotIsNoSlot DEF NewNode, OrderNode
<1>4. /\ nodes \in [DOMAIN slab \cup {f} -> OrderNode]
      /\ nodes[f] = NewNode(order)
      /\ \A s \in DOMAIN slab : nodes[s] = slab[s]
  BY <1>1, <1>3, SlotFacts DEF Insert
<1>5. /\ level \in Level /\ level.order_count = CountAt(q)
      /\ level.head = HeadAt(q) /\ level.tail = TailAt(q)
  <2>1. CASE q \in DOMAIN levels
    BY <2>1 DEF TypeOK, CountAt, HeadAt, TailAt
  <2>2. CASE q \notin DOMAIN levels
    <3>1. 0 \in Qty  BY QtyLimitAssumption DEF Qty
    <3> QED  BY <2>2, <3>1, NoSlotIsNoSlot DEF NewLevel, Level, CountAt, HeadAt, TailAt
  <2> QED  BY <2>1, <2>2
<1>6. /\ grown \in Level /\ grown.order_count = CountAt(q) + 1
      /\ grown.head = HeadAt(q) /\ grown.tail = TailAt(q)
  <2> HIDE DEF level
  <2>1. order.qty \in Qty  BY DEF Order
  <2> QED  BY <1>5, <2>1, GrownType
<1>7. TailAt(q) # NoSlot => TailAt(q) \in DOMAIN slab
  BY DEF LinksConsistent, TailAt
<1>8. HeadAt(q) = NoSlot <=> TailAt(q) = NoSlot
  BY SlotFacts DEF LinksConsistent, TailAt, HeadAt
<1>9. /\ linked.slab \in [DOMAIN slab \cup {f} -> OrderNode]
      /\ \A s \in DOMAIN slab \cup {f} :
           /\ linked.slab[s].order = nodes[s].order
           /\ linked.slab[s].next = IF s = TailAt(q) THEN f ELSE nodes[s].next
           /\ linked.slab[s].prev = IF s = f /\ TailAt(q) # NoSlot
                                    THEN TailAt(q) ELSE nodes[s].prev
      /\ linked.level \in Level
      /\ linked.level.order_count = grown.order_count
      /\ linked.level.head = IF TailAt(q) = NoSlot THEN f ELSE grown.head
      /\ linked.level.tail = f
  <2>0. DOMAIN nodes = DOMAIN slab \cup {f}  BY <1>4
  <2>1. nodes \in [DOMAIN nodes -> OrderNode] /\ f \in DOMAIN nodes
        /\ DOMAIN nodes \subseteq Link /\ NoSlot \notin DOMAIN nodes
    BY <1>1, <1>4, SlotFacts
  <2>2. grown \in Level /\ grown.tail = TailAt(q) /\ grown.tail # f
        /\ (grown.tail # NoSlot => grown.tail \in DOMAIN nodes)
    BY <1>1, <1>6, <1>7, <2>0
  <2> HIDE DEF nodes, grown
  <2>3. linked = link_tail(nodes, grown, f)  OBVIOUS
  <2> HIDE DEF linked, f, q
  <2>4. /\ linked.slab \in [DOMAIN nodes -> OrderNode]
        /\ \A s \in DOMAIN nodes :
             /\ linked.slab[s].order = nodes[s].order
             /\ linked.slab[s].next = IF s = grown.tail THEN f ELSE nodes[s].next
             /\ linked.slab[s].prev = IF s = f /\ grown.tail # NoSlot
                                      THEN grown.tail ELSE nodes[s].prev
        /\ linked.level \in Level
        /\ linked.level.order_count = grown.order_count
        /\ linked.level.head = IF grown.tail = NoSlot THEN f ELSE grown.head
        /\ linked.level.tail = f
    BY ONLY <2>1, <2>2, <2>3, LinkTailEffect
  <2> QED  BY <2>0, <2>2, <2>4
<1> HIDE DEF level, grown, nodes, linked, f, q
<1>10. /\ slab' \in [DOMAIN slab \cup {f} -> OrderNode]
       /\ \A s \in DOMAIN slab :
            /\ slab'[s].order = slab[s].order
            /\ slab'[s].next = IF s = TailAt(q) THEN f ELSE slab[s].next
            /\ slab'[s].prev = slab[s].prev
       /\ slab'[f].order = order
       /\ slab'[f].next = NoSlot
       /\ slab'[f].prev = TailAt(q)
  BY <1>1, <1>2, <1>3, <1>4, <1>7, <1>9
<1>11. /\ levels' \in [DOMAIN levels \cup {q} -> Level]
       /\ \A k \in DOMAIN levels : k # q => levels'[k] = levels[k]
       /\ levels'[q] = linked.level
  <2>1. levels \in [DOMAIN levels -> Level]  BY DEF TypeOK
  <2> QED  BY <1>2, <1>9, <2>1 DEF Insert
<1> QED  BY <1>6, <1>8, <1>9, <1>10, <1>11 DEF f, q

\* The slab is finite, so the slots of a level are.
LEMMA SlotsAtFinite ==
    ASSUME TypeOK, NEW q
    PROVE  IsFiniteSet(SlotsAt(q))
<1>1. 0 \in Int /\ slab_len - 1 \in Int  BY DEF TypeOK
<1>2. IsFiniteSet(0 .. (slab_len - 1))  BY ONLY <1>1, FS_Interval
<1>3. SlotsAt(q) \subseteq 0 .. (slab_len - 1)  BY DEF SlotsAt, TypeOK
<1> QED  BY <1>2, <1>3, FS_Subset

\* The level of a live slot exists, and its count is 1 exactly when the slot is
\* alone there: the test of book.rs:367 prunes the level at the right time.
LEMMA CountFacts ==
    ASSUME TypeOK, LevelsExact, NEW slot \in DOMAIN slab
    PROVE  LET q == QueueOf(slab[slot].order)
           IN  /\ q \in DOMAIN levels
               /\ levels[q].order_count \in Nat \ {0}
               /\ levels[q].order_count = 1 => SlotsAt(q) = {slot}
               /\ SlotsAt(q) = {slot} => levels[q].order_count = 1
<1> DEFINE q == QueueOf(slab[slot].order)
<1>1. q \in DOMAIN levels /\ levels[q].order_count = Cardinality(SlotsAt(q))
  BY DEF LevelsExact
<1>2. slot \in SlotsAt(q)  BY DEF SlotsAt
<1>3. IsFiniteSet(SlotsAt(q))  BY SlotsAtFinite
<1> HIDE DEF q
<1>4. /\ IsFiniteSet(SlotsAt(q) \ {slot})
      /\ Cardinality(SlotsAt(q) \ {slot}) = Cardinality(SlotsAt(q)) - 1
      /\ Cardinality(SlotsAt(q)) \in Nat
      /\ Cardinality(SlotsAt(q) \ {slot}) \in Nat
  BY <1>2, <1>3, FS_RemoveElement, FS_CardinalityType
<1>5. Cardinality(SlotsAt(q) \ {slot}) = 0 <=> SlotsAt(q) \ {slot} = {}
  BY <1>4, FS_EmptySet
<1> QED  BY <1>1, <1>2, <1>4, <1>5 DEF q

\* What the successful path of remove (book.rs:345-380) leaves of the slab and
\* the levels.
LEMMA TakeOutEffect ==
    ASSUME TypeOK, IndexExact, LevelsExact, NEW id \in DOMAIN order_index, TakeOut(id)
    PROVE  LET slot  == order_index[id]
               q     == QueueOf(slab[slot].order)
               p     == slab[slot].prev
               n     == slab[slot].next
               count == levels[q].order_count
           IN  /\ slab' \in [DOMAIN slab \ {slot} -> OrderNode]
               /\ \A s \in DOMAIN slab \ {slot} :
                    /\ slab'[s].order = slab[s].order
                    /\ slab'[s].next = IF s = p THEN n ELSE slab[s].next
                    /\ slab'[s].prev = IF s = n THEN p ELSE slab[s].prev
               /\ \A k \in DOMAIN levels : k # q => levels'[k] = levels[k]
               /\ count = 1 => levels' \in [DOMAIN levels \ {q} -> Level]
               /\ count # 1 =>
                    /\ levels' \in [DOMAIN levels -> Level]
                    /\ levels'[q].order_count = count - 1
                    /\ levels'[q].head = IF p = NoSlot THEN n ELSE levels[q].head
                    /\ levels'[q].tail = IF n = NoSlot THEN p ELSE levels[q].tail
<1> DEFINE slot  == order_index[id]
           q     == QueueOf(slab[slot].order)
           p     == slab[slot].prev
           n     == slab[slot].next
           count == levels[q].order_count
           nodes == Without(slab, slot)
           shrunk == Shrunk(levels[q], slab[slot].order.qty)
           cut   == unlink(nodes, shrunk, p, n)
<1>1. slot \in DOMAIN slab  BY DEF IndexExact
<1>2. /\ q \in DOMAIN levels /\ levels \in [DOMAIN levels -> Level]
      /\ levels[q] \in Level /\ count \in Nat \ {0}
  BY <1>1, CountFacts DEF TypeOK
<1>3. p \in Link /\ n \in Link /\ slab[slot].order.qty \in Qty
  BY <1>1, SlotFacts DEF Order
<1>4. nodes \in [DOMAIN slab \ {slot} -> OrderNode] /\ \A s \in DOMAIN slab \ {slot} : nodes[s] = slab[s]
  BY SlotFacts DEF Without
<1>5. /\ shrunk \in Level /\ shrunk.order_count = count - 1
      /\ shrunk.head = levels[q].head /\ shrunk.tail = levels[q].tail
  <2> HIDE DEF q
  <2>1. levels[q].order_count # 0  BY <1>2
  <2> QED  BY <1>2, <1>3, <2>1, ShrunkType
<1>6. slab' = cut.slab /\ levels' = Vacated(q, cut.level)
  BY DEF TakeOut
<1>7. /\ cut.slab \in [DOMAIN slab \ {slot} -> OrderNode]
      /\ \A s \in DOMAIN slab \ {slot} :
           /\ cut.slab[s].order = nodes[s].order
           /\ cut.slab[s].next = IF s = p THEN n ELSE nodes[s].next
           /\ cut.slab[s].prev = IF s = n THEN p ELSE nodes[s].prev
      /\ cut.level \in Level
      /\ cut.level.order_count = shrunk.order_count
      /\ cut.level.head = IF p = NoSlot THEN n ELSE shrunk.head
      /\ cut.level.tail = IF n = NoSlot THEN p ELSE shrunk.tail
  <2>1. DOMAIN nodes = DOMAIN slab \ {slot} /\ nodes \in [DOMAIN nodes -> OrderNode]
    BY <1>4
  <2>2. cut = unlink(nodes, shrunk, p, n)  OBVIOUS
  <2> HIDE DEF nodes, shrunk, cut, p, n
  <2>3. /\ cut.slab \in [DOMAIN nodes -> OrderNode]
        /\ \A s \in DOMAIN nodes :
             /\ cut.slab[s].order = nodes[s].order
             /\ cut.slab[s].next = IF s = p THEN n ELSE nodes[s].next
             /\ cut.slab[s].prev = IF s = n THEN p ELSE nodes[s].prev
        /\ cut.level \in Level
        /\ cut.level.order_count = shrunk.order_count
        /\ cut.level.head = IF p = NoSlot THEN n ELSE shrunk.head
        /\ cut.level.tail = IF n = NoSlot THEN p ELSE shrunk.tail
    BY ONLY <1>3, <1>5, <2>1, <2>2, UnlinkEffect
  <2> QED  BY <2>1, <2>3
<1> HIDE DEF nodes, shrunk, cut, p, n, q, count, slot
<1>8. CASE count = 1
  <2>1. levels' = Without(levels, q)  BY <1>5, <1>6, <1>7, <1>8 DEF Vacated
  <2>2. /\ levels' \in [DOMAIN levels \ {q} -> Level]
        /\ \A k \in DOMAIN levels : k # q => levels'[k] = levels[k]
    BY <1>2, <2>1 DEF Without
  <2> QED  BY <1>4, <1>6, <1>7, <1>8, <2>2 DEF slot, q, p, n, count
<1>9. CASE count # 1
  <2>1. levels' = [levels EXCEPT ![q] = cut.level]
    BY <1>2, <1>5, <1>6, <1>7, <1>9 DEF Vacated
  <2>2. /\ levels' \in [DOMAIN levels -> Level]
        /\ \A k \in DOMAIN levels : k # q => levels'[k] = levels[k]
        /\ levels'[q].order_count = count - 1
        /\ levels'[q].head = IF p = NoSlot THEN n ELSE levels[q].head
        /\ levels'[q].tail = IF n = NoSlot THEN p ELSE levels[q].tail
    BY <1>2, <1>5, <1>7, <2>1
  <2> QED  BY <1>4, <1>6, <1>7, <1>9, <2>2 DEF slot, q, p, n, count
<1> QED  BY <1>8, <1>9

\* A change of size touches one order's quantity and its level's total only.
LEMMA ResizeEffect ==
    ASSUME TypeOK, LevelsExact, NEW slot \in DOMAIN slab, NEW new_qty \in Qty
    PROVE  LET q     == QueueOf(slab[slot].order)
               nodes == NodesResized(slot, new_qty)
               level == LevelResized(slot, new_qty)
           IN  /\ nodes \in [DOMAIN slab -> OrderNode]
               /\ \A s \in DOMAIN slab :
                    /\ nodes[s].order.id = slab[s].order.id
                    /\ nodes[s].order.wallet = slab[s].order.wallet
                    /\ nodes[s].order.qty = IF s = slot THEN new_qty ELSE slab[s].order.qty
                    /\ QueueOf(nodes[s].order) = QueueOf(slab[s].order)
                    /\ nodes[s].next = slab[s].next
                    /\ nodes[s].prev = slab[s].prev
               /\ level \in Level
               /\ level.order_count = levels[q].order_count
               /\ level.head = levels[q].head
               /\ level.tail = levels[q].tail
<1> DEFINE q     == QueueOf(slab[slot].order)
           total == Adjusted(levels[q].total_qty, slab[slot].order.qty, new_qty)
           nodes == NodesResized(slot, new_qty)
           level == LevelResized(slot, new_qty)
<1>1. /\ q \in DOMAIN levels /\ levels[q] \in Level
      /\ levels[q].order_count \in Nat /\ levels[q].total_qty \in Qty
  <2>1. q \in DOMAIN levels /\ levels[q] \in Level  BY CountFacts DEF TypeOK
  <2> HIDE DEF q
  <2> QED  BY <2>1 DEF Level
<1>2. total \in Qty
  <2>1. slab[slot].order.qty \in Qty  BY SlotFacts DEF Order
  <2> DEFINE old == slab[slot].order.qty
  <2>2. old \in 0 .. (QtyLimit - 1) /\ new_qty \in 0 .. (QtyLimit - 1)
    BY <2>1 DEF Qty
  <2> HIDE DEF old
  <2>3. new_qty > old => new_qty - old \in Qty
    BY <2>2, QtyLimitAssumption DEF Qty
  <2>4. ~(new_qty > old) => old - new_qty \in Qty
    BY <2>2, QtyLimitAssumption DEF Qty
  <2>5. total = Adjusted(levels[q].total_qty, old, new_qty)  BY DEF old
  <2> QED  BY <1>1, <2>3, <2>4, <2>5, ArithmeticType DEF Adjusted
<1>3. /\ level \in Level /\ level.order_count = levels[q].order_count
      /\ level.head = levels[q].head /\ level.tail = levels[q].tail
  <2>1. level = WithCounters(levels[q], levels[q].order_count, total)
    BY DEF LevelResized
  <2> DEFINE before == levels[q]
             count  == levels[q].order_count
  <2>2. before \in Level /\ count \in Nat  BY <1>1
  <2>3. level = WithCounters(before, count, total)  BY <2>1
  <2> HIDE DEF q, level, total, before, count
  <2>4. /\ WithCounters(before, count, total) \in Level
        /\ WithCounters(before, count, total).order_count = count
        /\ WithCounters(before, count, total).head = before.head
        /\ WithCounters(before, count, total).tail = before.tail
    BY <1>2, <2>2, WithCountersType
  <2>5. /\ level \in Level /\ level.order_count = count
        /\ level.head = before.head /\ level.tail = before.tail
    BY <2>3, <2>4
  <2> QED  BY <2>5 DEF before, count
<1>4. /\ slab \in [DOMAIN slab -> OrderNode]
      /\ WithQty(slab[slot], new_qty) \in OrderNode
  BY SlotFacts, WithQtyType DEF TypeOK
<1>5. nodes \in [DOMAIN slab -> OrderNode]  BY <1>4 DEF NodesResized
<1>6. ASSUME NEW s \in DOMAIN slab
      PROVE  /\ nodes[s].order.id = slab[s].order.id
             /\ nodes[s].order.wallet = slab[s].order.wallet
             /\ nodes[s].order.qty = IF s = slot THEN new_qty ELSE slab[s].order.qty
             /\ QueueOf(nodes[s].order) = QueueOf(slab[s].order)
             /\ nodes[s].next = slab[s].next
             /\ nodes[s].prev = slab[s].prev
  <2>1. CASE s = slot
    <3>1. nodes[s] = WithQty(slab[s], new_qty) /\ slab[s] \in OrderNode
      BY <1>4, <2>1, SlotFacts DEF NodesResized
    <3> QED  BY ONLY <2>1, <3>1, WithQtyType, new_qty \in Qty
  <2>2. CASE s # slot
    <3>1. nodes[s] = slab[s]  BY <1>4, <2>2 DEF NodesResized
    <3> QED  BY <2>2, <3>1
  <2> QED  BY <2>1, <2>2
<1> QED  BY <1>3, <1>5, <1>6

\* What a change of size in place (book.rs:406-415, 454-474) leaves.
LEMMA SetQtyEffect ==
    ASSUME TypeOK, IndexExact, LevelsExact,
           NEW id \in DOMAIN order_index, NEW new_qty \in Qty, SetQty(id, new_qty)
    PROVE  LET slot == order_index[id]
               q    == QueueOf(slab[slot].order)
           IN  /\ slab' \in [DOMAIN slab -> OrderNode]
               /\ \A s \in DOMAIN slab :
                    /\ slab'[s].order.id = slab[s].order.id
                    /\ slab'[s].order.wallet = slab[s].order.wallet
                    /\ slab'[s].order.qty = IF s = slot THEN new_qty ELSE slab[s].order.qty
                    /\ QueueOf(slab'[s].order) = QueueOf(slab[s].order)
                    /\ slab'[s].next = slab[s].next
                    /\ slab'[s].prev = slab[s].prev
               /\ levels' \in [DOMAIN levels -> Level]
               /\ \A k \in DOMAIN levels :
                    /\ levels'[k].order_count = levels[k].order_count
                    /\ levels'[k].head = levels[k].head
                    /\ levels'[k].tail = levels[k].tail
<1> DEFINE slot  == order_index[id]
           q     == QueueOf(slab[slot].order)
           level == LevelResized(slot, new_qty)
           nodes == NodesResized(slot, new_qty)
<1>1. slot \in DOMAIN slab  BY DEF IndexExact
<1>2. slab' = nodes /\ levels' = [levels EXCEPT ![q] = level]  BY DEF SetQty
<1>3. /\ nodes \in [DOMAIN slab -> OrderNode]
      /\ \A s \in DOMAIN slab :
           /\ nodes[s].order.id = slab[s].order.id
           /\ nodes[s].order.wallet = slab[s].order.wallet
           /\ nodes[s].order.qty = IF s = slot THEN new_qty ELSE slab[s].order.qty
           /\ QueueOf(nodes[s].order) = QueueOf(slab[s].order)
           /\ nodes[s].next = slab[s].next
           /\ nodes[s].prev = slab[s].prev
      /\ level \in Level
      /\ level.order_count = levels[q].order_count
      /\ level.head = levels[q].head
      /\ level.tail = levels[q].tail
  BY <1>1, ResizeEffect
<1>4. levels \in [DOMAIN levels -> Level]  BY DEF TypeOK
<1> HIDE DEF nodes, level, q
<1>5. /\ levels' \in [DOMAIN levels -> Level]
      /\ \A k \in DOMAIN levels :
           /\ levels'[k].order_count = levels[k].order_count
           /\ levels'[k].head = levels[k].head
           /\ levels'[k].tail = levels[k].tail
  BY <1>2, <1>3, <1>4
<1> QED  BY <1>2, <1>3, <1>5

\* What an increase that loses priority (book.rs:467-471) leaves.
LEMMA GrowAndMoveEffect ==
    ASSUME TypeOK, IndexExact, LinksConsistent, LevelsExact,
           NEW id \in DOMAIN order_index, NEW new_qty \in Qty, GrowAndMove(id, new_qty)
    PROVE  LET slot == order_index[id]
               q    == QueueOf(slab[slot].order)
               p    == slab[slot].prev
               n    == slab[slot].next
               t    == levels[q].tail
           IN  /\ slab' \in [DOMAIN slab -> OrderNode]
               /\ levels' \in [DOMAIN levels -> Level]
               /\ \A k \in DOMAIN levels : k # q => levels'[k] = levels[k]
               /\ levels'[q].order_count = levels[q].order_count
               /\ levels'[q].tail = slot
               /\ levels'[q].head = IF t # slot /\ p = NoSlot THEN n ELSE levels[q].head
               /\ \A s \in DOMAIN slab :
                    /\ slab'[s].order.id = slab[s].order.id
                    /\ slab'[s].order.wallet = slab[s].order.wallet
                    /\ slab'[s].order.qty = IF s = slot THEN new_qty ELSE slab[s].order.qty
                    /\ QueueOf(slab'[s].order) = QueueOf(slab[s].order)
                    /\ slab'[s].next = IF t = slot THEN slab[s].next
                                       ELSE IF s = t THEN slot
                                       ELSE IF s = slot THEN NoSlot
                                       ELSE IF s = p THEN n ELSE slab[s].next
                    /\ slab'[s].prev = IF t = slot THEN slab[s].prev
                                       ELSE IF s = slot THEN t
                                       ELSE IF s = n THEN p ELSE slab[s].prev
<1> DEFINE slot  == order_index[id]
           q     == QueueOf(slab[slot].order)
           p     == slab[slot].prev
           n     == slab[slot].next
           t     == levels[q].tail
           level == LevelResized(slot, new_qty)
           nodes == NodesResized(slot, new_qty)
           moved == move_to_tail(nodes, level, slot)
<1>1. slot \in DOMAIN slab  BY DEF IndexExact
<1>2. slab' = moved.slab /\ levels' = [levels EXCEPT ![q] = moved.level]
  BY DEF GrowAndMove
<1>3. /\ nodes \in [DOMAIN slab -> OrderNode]
      /\ \A s \in DOMAIN slab :
           /\ nodes[s].order.id = slab[s].order.id
           /\ nodes[s].order.wallet = slab[s].order.wallet
           /\ nodes[s].order.qty = IF s = slot THEN new_qty ELSE slab[s].order.qty
           /\ QueueOf(nodes[s].order) = QueueOf(slab[s].order)
           /\ nodes[s].next = slab[s].next
           /\ nodes[s].prev = slab[s].prev
      /\ level \in Level
      /\ level.order_count = levels[q].order_count
      /\ level.head = levels[q].head
      /\ level.tail = t
  BY <1>1, ResizeEffect
<1>4. levels \in [DOMAIN levels -> Level] /\ q \in DOMAIN levels
  BY <1>1, CountFacts DEF TypeOK
<1>5. DOMAIN nodes = DOMAIN slab  BY <1>3
<1>6. CASE t = slot
  <2>1. moved.slab = nodes /\ moved.level = level
    BY <1>3, <1>6 DEF move_to_tail
  <2> HIDE DEF nodes, level, moved, q, slot
  <2> QED  BY <1>2, <1>3, <1>4, <1>6, <2>1 DEF slot, q
<1>7. CASE t # slot
  <2>1. t \in DOMAIN slab /\ n \in DOMAIN slab
    BY <1>1, <1>4, <1>7, SlotFacts DEF LinksConsistent
  <2>2. moved = move_to_tail(nodes, level, slot)  OBVIOUS
  <2> HIDE DEF nodes, level, moved
  <2>10. p = nodes[slot].prev /\ n = nodes[slot].next  BY <1>1, <1>3
  <2>11. DOMAIN nodes \subseteq Link /\ NoSlot \notin DOMAIN nodes  BY <1>5, SlotFacts
  <2> HIDE DEF p, n, slot, q, t
  <2>3. /\ nodes \in [DOMAIN nodes -> OrderNode] /\ DOMAIN nodes \subseteq Link
        /\ NoSlot \notin DOMAIN nodes /\ slot \in DOMAIN nodes
        /\ p = nodes[slot].prev /\ n = nodes[slot].next
        /\ level \in Level /\ level.tail # slot
        /\ level.tail \in DOMAIN nodes /\ n \in DOMAIN nodes
    BY <1>1, <1>3, <1>5, <1>7, <2>1, <2>10, <2>11
  <2>4. /\ moved.slab \in [DOMAIN nodes -> OrderNode]
        /\ \A s \in DOMAIN nodes :
             /\ moved.slab[s].order = nodes[s].order
             /\ moved.slab[s].next = IF s = level.tail THEN slot
                                     ELSE IF s = slot THEN NoSlot
                                     ELSE IF s = p THEN n ELSE nodes[s].next
             /\ moved.slab[s].prev = IF s = slot THEN level.tail
                                     ELSE IF s = n THEN p ELSE nodes[s].prev
        /\ moved.level \in Level
        /\ moved.level.order_count = level.order_count
        /\ moved.level.head = IF p = NoSlot THEN n ELSE level.head
        /\ moved.level.tail = slot
    BY ONLY <2>2, <2>3, MoveToTailEffect
  <2>5. /\ levels' \in [DOMAIN levels -> Level]
        /\ \A k \in DOMAIN levels : k # q => levels'[k] = levels[k]
        /\ levels'[q] = moved.level
    BY <1>2, <1>4, <2>4
  <2>6. slab' = moved.slab  BY <1>2
  <2> QED  BY <1>3, <1>5, <1>7, <2>4, <2>5, <2>6 DEF slot, q, p, n, t
<1> QED  BY <1>6, <1>7

-----------------------------------------------------------------------------
(* InsertOrder preserves the invariant *)

\* add indexes the new order at its slot and disturbs no other entry.
LEMMA InsertKeepsIndex ==
    ASSUME Inv, NEW order \in Order, order.qty # 0, ~Rests(order.id), InsertOrder(order)
    PROVE  IndexExact'
<1> DEFINE f == FreshSlot
<1>1. /\ DOMAIN slab' = DOMAIN slab \cup {f}
      /\ \A s \in DOMAIN slab : slab'[s].order = slab[s].order
      /\ slab'[f].order = order
  BY InsertEffect DEF Inv
<1>2. f \notin DOMAIN slab
  BY AllocEffect DEF Inv, InsertOrder
<1>3. /\ DOMAIN order_index' = DOMAIN order_index \cup {order.id}
      /\ order_index'[order.id] = f
      /\ \A id \in DOMAIN order_index : order_index'[id] = order_index[id]
  BY DEF InsertOrder, Insert, Rests
<1> HIDE DEF f
<1>4. ASSUME NEW s \in DOMAIN slab'
      PROVE  /\ slab'[s].order.id \in DOMAIN order_index'
             /\ order_index'[slab'[s].order.id] = s
             /\ slab'[s].order.qty # 0
  BY <1>1, <1>2, <1>3 DEF Inv, IndexExact
<1>5. ASSUME NEW id \in DOMAIN order_index'
      PROVE  /\ order_index'[id] \in DOMAIN slab'
             /\ slab'[order_index'[id]].order.id = id
  BY <1>1, <1>2, <1>3 DEF Inv, IndexExact
<1> QED  BY <1>4, <1>5 DEF IndexExact

\* add keeps the types.
LEMMA InsertKeepsType ==
    ASSUME Inv, NEW order \in Order, InsertOrder(order)
    PROVE  TypeOK'
<1> DEFINE f == FreshSlot
           q == QueueOf(order)
<1>1. /\ f \in Nat /\ slab_len' \in Nat /\ f \in 0 .. (slab_len' - 1)
      /\ 0 .. (slab_len - 1) \subseteq 0 .. (slab_len' - 1)
      /\ free_list' \in Seq(Nat)
  BY AllocEffect DEF Inv, InsertOrder
<1>2. /\ slab' \in [DOMAIN slab \cup {f} -> OrderNode]
      /\ levels' \in [DOMAIN levels \cup {q} -> Level]
  BY InsertEffect DEF Inv
<1>3. q \in Queue /\ order.id \in OrderId /\ order.wallet \in WalletId
  BY QueueOfType DEF Order
<1>4. /\ DOMAIN order_index' \subseteq OrderId
      /\ order_index' \in [DOMAIN order_index' -> Nat]
  BY <1>1, <1>3 DEF Inv, TypeOK, InsertOrder, Insert
<1>5. /\ DOMAIN wallet_index' \subseteq WalletId
      /\ wallet_index' \in [DOMAIN wallet_index' -> SUBSET OrderId]
  BY <1>3 DEF Inv, TypeOK, InsertOrder, Insert
<1>6. result' \in Result  BY DEF InsertOrder, Result
<1> HIDE DEF f, q
<1>7. DOMAIN slab' \subseteq 0 .. (slab_len' - 1)
  BY <1>1, <1>2 DEF Inv, TypeOK
<1>8. DOMAIN levels' \subseteq Queue  BY <1>2, <1>3 DEF Inv, TypeOK
<1>9. slab' \in [DOMAIN slab' -> OrderNode] /\ levels' \in [DOMAIN levels' -> Level]
  BY <1>2
<1> QED  BY <1>1, <1>4, <1>5, <1>6, <1>7, <1>8, <1>9 DEF TypeOK

\* add consumes exactly the slot it fills.
LEMMA InsertKeepsFreeList ==
    ASSUME Inv, NEW order \in Order, InsertOrder(order)
    PROVE  FreeListExact'
<1>1. DOMAIN slab' = DOMAIN slab \cup {FreshSlot}  BY InsertEffect DEF Inv
<1>2. TakeFreshSlot  BY DEF InsertOrder
<1> QED  BY <1>1, <1>2, AllocEffect DEF Inv

\* add keeps the lists doubly linked, whether the level existed or not.
LEMMA InsertKeepsLinks ==
    ASSUME Inv, NEW order \in Order, InsertOrder(order)
    PROVE  LinksConsistent'
<1> DEFINE f == FreshSlot
           q == QueueOf(order)
           t == TailAt(q)
           h == HeadAt(q)
<1>1. /\ DOMAIN slab' = DOMAIN slab \cup {f}
      /\ \A s \in DOMAIN slab :
           /\ slab'[s].order = slab[s].order
           /\ slab'[s].next = IF s = t THEN f ELSE slab[s].next
           /\ slab'[s].prev = slab[s].prev
      /\ slab'[f].order = order
      /\ slab'[f].next = NoSlot
      /\ slab'[f].prev = t
      /\ DOMAIN levels' = DOMAIN levels \cup {q}
      /\ \A k \in DOMAIN levels : k # q => levels'[k] = levels[k]
      /\ levels'[q].head = IF h = NoSlot THEN f ELSE h
      /\ levels'[q].tail = f
  BY InsertEffect DEF Inv
<1>2. f \notin DOMAIN slab /\ f # NoSlot /\ NoSlot \notin DOMAIN slab
  BY AllocEffect, SlotFacts, NoSlotAssumption DEF Inv, InsertOrder
<1>3. /\ q \in DOMAIN levels => t = levels[q].tail /\ h = levels[q].head
      /\ q \notin DOMAIN levels => t = NoSlot /\ h = NoSlot
      /\ \A s \in DOMAIN slab : QueueOf(slab'[s].order) = QueueOf(slab[s].order)
      /\ QueueOf(slab'[f].order) = q
  BY <1>1 DEF TailAt, HeadAt
<1>4. LinksConsistent  BY DEF Inv
<1> HIDE DEF f, q, t, h
<1>5. q \in DOMAIN levels =>
        /\ t \in DOMAIN slab /\ QueueOf(slab[t].order) = q /\ slab[t].next = NoSlot
        /\ h \in DOMAIN slab /\ QueueOf(slab[h].order) = q /\ slab[h].prev = NoSlot
  BY SMTT(30), <1>3, <1>4 DEF LinksConsistent
<1>6. ASSUME NEW k \in DOMAIN levels'
      PROVE  /\ levels'[k].head \in DOMAIN slab' /\ QueueOf(slab'[levels'[k].head].order) = k
             /\ levels'[k].tail \in DOMAIN slab' /\ QueueOf(slab'[levels'[k].tail].order) = k
  <2>1. CASE k = q  BY <1>1, <1>2, <1>3, <1>5, <2>1
  <2>2. CASE k # q
    <3>1. /\ k \in DOMAIN levels /\ levels'[k] = levels[k]
          /\ levels[k].head \in DOMAIN slab /\ QueueOf(slab[levels[k].head].order) = k
          /\ levels[k].tail \in DOMAIN slab /\ QueueOf(slab[levels[k].tail].order) = k
      BY <1>1, <1>4, <2>2 DEF LinksConsistent
    <3> QED  BY <1>1, <1>3, <3>1
  <2> QED  BY <2>1, <2>2
<1>7. ASSUME NEW s \in DOMAIN slab', NEW k, k = QueueOf(slab'[s].order)
      PROVE  /\ k \in DOMAIN levels'
             /\ slab'[s].next = NoSlot <=> levels'[k].tail = s
             /\ slab'[s].prev = NoSlot <=> levels'[k].head = s
             /\ slab'[s].next # NoSlot =>
                  /\ slab'[s].next \in DOMAIN slab'
                  /\ QueueOf(slab'[slab'[s].next].order) = k
                  /\ slab'[slab'[s].next].prev = s
             /\ slab'[s].prev # NoSlot =>
                  /\ slab'[s].prev \in DOMAIN slab'
                  /\ QueueOf(slab'[slab'[s].prev].order) = k
                  /\ slab'[slab'[s].prev].next = s
  <2>1. CASE s = f
    <3>1. k = q  BY <1>3, <1>7, <2>1
    <3> QED  BY <1>1, <1>2, <1>3, <1>5, <2>1, <3>1
  <2>2. CASE s # f
    <3>1. s \in DOMAIN slab /\ k = QueueOf(slab[s].order)  BY <1>1, <1>3, <1>7, <2>2
    <3>2. /\ k \in DOMAIN levels
          /\ slab[s].next = NoSlot <=> levels[k].tail = s
          /\ slab[s].prev = NoSlot <=> levels[k].head = s
          /\ slab[s].next # NoSlot =>
               /\ slab[s].next \in DOMAIN slab
               /\ QueueOf(slab[slab[s].next].order) = k
               /\ slab[slab[s].next].prev = s
          /\ slab[s].prev # NoSlot =>
               /\ slab[s].prev \in DOMAIN slab
               /\ QueueOf(slab[slab[s].prev].order) = k
               /\ slab[slab[s].prev].next = s
      BY <1>4, <3>1 DEF LinksConsistent
    <3>3. k # q => s # t  BY <1>2, <1>3, <1>5, <3>1
    <3>4. levels'[k].tail = IF k = q THEN f ELSE levels[k].tail
      BY <1>1, <3>2
    <3>5. levels'[k].head = levels[k].head
      BY <1>1, <1>2, <1>3, <1>5, <3>2
    <3>6. /\ slab'[s].next = IF s = t THEN f ELSE slab[s].next
          /\ slab'[s].prev = slab[s].prev
      BY <1>1, <3>1
    <3>7. slab'[s].next = NoSlot <=> levels'[k].tail = s
      BY <1>2, <1>3, <1>5, <2>2, <3>2, <3>3, <3>4, <3>6
    <3>8. slab'[s].next # NoSlot =>
            /\ slab'[s].next \in DOMAIN slab'
            /\ QueueOf(slab'[slab'[s].next].order) = k
            /\ slab'[slab'[s].next].prev = s
      BY <1>1, <1>2, <1>3, <1>5, <3>1, <3>2, <3>3, <3>6
    <3>9. slab'[s].prev # NoSlot =>
            /\ slab'[s].prev \in DOMAIN slab'
            /\ QueueOf(slab'[slab'[s].prev].order) = k
            /\ slab'[slab'[s].prev].next = s
      BY <1>1, <1>2, <1>3, <1>5, <3>1, <3>2, <3>3, <3>6
    <3> QED  BY <1>1, <3>2, <3>5, <3>6, <3>7, <3>8, <3>9
  <2> QED  BY <2>1, <2>2
<1> QED  BY <1>6, <1>7 DEF LinksConsistent

\* add creates the level of a new price and counts the order at any other.
LEMMA InsertKeepsLevels ==
    ASSUME Inv, NEW order \in Order, InsertOrder(order)
    PROVE  LevelsExact'
<1> DEFINE f == FreshSlot
           q == QueueOf(order)
<1>1. /\ DOMAIN slab' = DOMAIN slab \cup {f}
      /\ \A s \in DOMAIN slab : slab'[s].order = slab[s].order
      /\ slab'[f].order = order
      /\ DOMAIN levels' = DOMAIN levels \cup {q}
      /\ \A k \in DOMAIN levels : k # q => levels'[k] = levels[k]
      /\ levels'[q].order_count = CountAt(q) + 1
  BY InsertEffect DEF Inv
<1>2. f \notin DOMAIN slab  BY AllocEffect DEF Inv, InsertOrder
<1>3. /\ DOMAIN levels = {QueueOf(slab[s].order) : s \in DOMAIN slab}
      /\ \A k \in DOMAIN levels : levels[k].order_count = Cardinality(SlotsAt(k))
  BY DEF Inv, LevelsExact
<1>4. /\ \A s \in DOMAIN slab : QueueOf(slab'[s].order) = QueueOf(slab[s].order)
      /\ QueueOf(slab'[f].order) = q
  BY <1>1
<1> HIDE DEF f, q
<1>5. DOMAIN levels' = {QueueOf(slab'[s].order) : s \in DOMAIN slab'}
  BY <1>1, <1>3, <1>4
<1>6. CountAt(q) = Cardinality(SlotsAt(q))
  <2>1. CASE q \in DOMAIN levels  BY <1>3, <2>1 DEF CountAt
  <2>2. CASE q \notin DOMAIN levels
    <3>1. SlotsAt(q) = {}  BY <1>3, <2>2 DEF SlotsAt
    <3> QED  BY <2>2, <3>1, FS_EmptySet DEF CountAt
  <2> QED  BY <2>1, <2>2
<1>7. ASSUME NEW k \in DOMAIN levels'
      PROVE  levels'[k].order_count = Cardinality(SlotsAt(k)')
  <2>1. CASE k = q
    <3>1. SlotsAt(k)' = SlotsAt(k) \cup {f} /\ f \notin SlotsAt(k)
      BY <1>1, <1>2, <1>4, <2>1 DEF SlotsAt
    <3>2. IsFiniteSet(SlotsAt(k))  BY SlotsAtFinite DEF Inv
    <3>3. Cardinality(SlotsAt(k)') = Cardinality(SlotsAt(k)) + 1
      BY <3>1, <3>2, FS_AddElement
    <3> QED  BY <1>1, <1>6, <2>1, <3>3
  <2>2. CASE k # q
    <3>1. SlotsAt(k)' = SlotsAt(k)  BY <1>1, <1>2, <1>4, <2>2 DEF SlotsAt
    <3> QED  BY <1>1, <1>3, <2>2, <3>1
  <2> QED  BY <2>1, <2>2
<1> QED  BY <1>5, <1>7 DEF LevelsExact

\* add lists the id under its wallet and under no other.
LEMMA InsertKeepsWallets ==
    ASSUME Inv, NEW order \in Order, InsertOrder(order)
    PROVE  WalletsExact'
<1> DEFINE f == FreshSlot
           w == order.wallet
           owned == IF w \in DOMAIN wallet_index THEN wallet_index[w] ELSE {}
<1>1. /\ DOMAIN slab' = DOMAIN slab \cup {f}
      /\ \A s \in DOMAIN slab : slab'[s].order = slab[s].order
      /\ slab'[f].order = order
  BY InsertEffect DEF Inv
<1>2. f \notin DOMAIN slab  BY AllocEffect DEF Inv, InsertOrder
<1>3. /\ DOMAIN wallet_index' = DOMAIN wallet_index \cup {w}
      /\ wallet_index'[w] = owned \cup {order.id}
      /\ \A k \in DOMAIN wallet_index : k # w => wallet_index'[k] = wallet_index[k]
  BY DEF InsertOrder, Insert
<1>4. /\ DOMAIN wallet_index = {slab[s].order.wallet : s \in DOMAIN slab}
      /\ \A k \in DOMAIN wallet_index : wallet_index[k] = OwnedBy(k)
  BY DEF Inv, WalletsExact
<1>5. owned = OwnedBy(w)  BY <1>4 DEF OwnedBy
<1> HIDE DEF f, owned
<1>6. DOMAIN wallet_index' = {slab'[s].order.wallet : s \in DOMAIN slab'}
  BY <1>1, <1>2, <1>3, <1>4
<1>7. OwnedBy(w)' = OwnedBy(w) \cup {order.id}
  BY <1>1, <1>2 DEF OwnedBy
<1>8. \A k : k # w => OwnedBy(k)' = OwnedBy(k)
  BY <1>1, <1>2 DEF OwnedBy
<1> QED  BY <1>3, <1>4, <1>5, <1>6, <1>7, <1>8 DEF WalletsExact

-----------------------------------------------------------------------------
(* TakeOut preserves the invariant *)

\* remove forgets the id and its slot together.
LEMMA TakeOutKeepsIndex ==
    ASSUME Inv, NEW id \in DOMAIN order_index, TakeOut(id)
    PROVE  IndexExact'
<1> DEFINE slot == order_index[id]
<1>1. /\ DOMAIN slab' = DOMAIN slab \ {slot}
      /\ \A s \in DOMAIN slab \ {slot} : slab'[s].order = slab[s].order
  BY TakeOutEffect DEF Inv
<1>2. /\ DOMAIN order_index' = DOMAIN order_index \ {id}
      /\ \A i \in DOMAIN order_index' : order_index'[i] = order_index[i]
  BY DEF TakeOut, Without
<1>3. slot \in DOMAIN slab /\ slab[slot].order.id = id  BY DEF Inv, IndexExact
<1> HIDE DEF slot
<1>4. ASSUME NEW i \in DOMAIN order_index'
      PROVE  order_index'[i] \in DOMAIN slab' /\ slab'[order_index'[i]].order.id = i
  BY <1>1, <1>2, <1>3 DEF Inv, IndexExact
<1>5. ASSUME NEW s \in DOMAIN slab'
      PROVE  /\ slab'[s].order.id \in DOMAIN order_index'
             /\ order_index'[slab'[s].order.id] = s
             /\ slab'[s].order.qty # 0
  BY <1>1, <1>2, <1>3 DEF Inv, IndexExact, slot
<1> QED  BY <1>4, <1>5 DEF IndexExact

\* remove gives its slot back once.
LEMMA TakeOutKeepsFreeList ==
    ASSUME Inv, NEW id \in DOMAIN order_index, TakeOut(id)
    PROVE  free_list' \in Seq(Nat) /\ FreeListExact'
<1> DEFINE slot == order_index[id]
<1>1. slot \in DOMAIN slab  BY DEF Inv, IndexExact
<1>2. FreeSlot(slot) /\ slab_len' = slab_len  BY DEF TakeOut
<1>3. DOMAIN slab' = DOMAIN slab \ {slot}  BY TakeOutEffect DEF Inv
<1> HIDE DEF slot
<1> QED  BY <1>1, <1>2, <1>3, FreeEffect DEF Inv

\* remove keeps the types.
LEMMA TakeOutKeepsType ==
    ASSUME Inv, NEW id \in DOMAIN order_index, TakeOut(id)
    PROVE  TypeOK'
<1> DEFINE slot == order_index[id]
           q    == QueueOf(slab[slot].order)
           w    == slab[slot].order.wallet
<1>0. slot \in DOMAIN slab  BY DEF Inv, IndexExact
<1>1. slab' \in [DOMAIN slab' -> OrderNode] /\ DOMAIN slab' \subseteq DOMAIN slab
  BY TakeOutEffect DEF Inv
<1>2. slab_len' = slab_len /\ result' \in Result  BY DEF TakeOut, Result
<1>3. free_list' \in Seq(Nat)  BY TakeOutKeepsFreeList
<1>4. levels' \in [DOMAIN levels' -> Level] /\ DOMAIN levels' \subseteq DOMAIN levels
  BY TakeOutEffect DEF Inv
<1>5. /\ order_index' \in [DOMAIN order_index' -> Nat]
      /\ DOMAIN order_index' \subseteq DOMAIN order_index
  BY DEF Inv, TypeOK, TakeOut, Without
<1>6. /\ wallet_index' \in [DOMAIN wallet_index' -> SUBSET OrderId]
      /\ DOMAIN wallet_index' \subseteq DOMAIN wallet_index
  <2>1. wallet_index \in [DOMAIN wallet_index -> SUBSET OrderId]
    BY DEF Inv, TypeOK
  <2>2. wallet_index' = WithoutOwned(w, id)  BY DEF TakeOut
  <2> HIDE DEF w
  <2> QED  BY <2>1, <2>2 DEF WithoutOwned, Without
<1> QED  BY <1>1, <1>2, <1>3, <1>4, <1>5, <1>6 DEF Inv, TypeOK

\* remove takes the id from its wallet, and the wallet with its last id
\* (book.rs:373-378).
LEMMA TakeOutKeepsWallets ==
    ASSUME Inv, NEW id \in DOMAIN order_index, TakeOut(id)
    PROVE  WalletsExact'
<1>0. PICK slot, w : slot = order_index[id] /\ w = slab[slot].order.wallet
  OBVIOUS
<1>1. /\ DOMAIN slab' = DOMAIN slab \ {slot}
      /\ \A s \in DOMAIN slab \ {slot} : slab'[s].order = slab[s].order
  BY <1>0, TakeOutEffect DEF Inv
<1>2. slot \in DOMAIN slab /\ slab[slot].order.id = id  BY <1>0 DEF Inv, IndexExact
<1>3. wallet_index' = WithoutOwned(w, id)  BY <1>0 DEF TakeOut
<1>4. /\ DOMAIN wallet_index = {slab[s].order.wallet : s \in DOMAIN slab}
      /\ \A k \in DOMAIN wallet_index : wallet_index[k] = OwnedBy(k)
      /\ wallet_index \in [DOMAIN wallet_index -> SUBSET OrderId]
  BY DEF Inv, WalletsExact, TypeOK
<1>5. \A s \in DOMAIN slab : slab[s].order.id = id => s = slot
  BY <1>0 DEF Inv, IndexExact
<1>6. OwnedBy(w)' = OwnedBy(w) \ {id}
  BY <1>1, <1>2, <1>5 DEF OwnedBy
<1>7. \A k : k # w => OwnedBy(k)' = OwnedBy(k)
  BY <1>0, <1>1, <1>2 DEF OwnedBy
<1>8. w \in DOMAIN wallet_index /\ id \in OwnedBy(w)
  BY <1>0, <1>2, <1>4 DEF OwnedBy
<1>9. \A k : k \in {slab[s].order.wallet : s \in DOMAIN slab} <=> OwnedBy(k) # {}
  BY DEF OwnedBy
<1>10. \A k : k \in {slab'[s].order.wallet : s \in DOMAIN slab'} <=> OwnedBy(k)' # {}
  BY DEF OwnedBy
<1>11. OwnedBy(w) = {id} <=> OwnedBy(w)' = {}  BY <1>6, <1>8
<1>12. CASE OwnedBy(w) = {id}
  <2>1. wallet_index' = Without(wallet_index, w)
    BY <1>3, <1>4, <1>8, <1>12 DEF WithoutOwned
  <2>2. /\ DOMAIN wallet_index' = DOMAIN wallet_index \ {w}
        /\ \A k \in DOMAIN wallet_index' : wallet_index'[k] = OwnedBy(k)'
    BY <1>4, <1>7, <2>1 DEF Without
  <2>3. DOMAIN wallet_index' = {slab'[s].order.wallet : s \in DOMAIN slab'}
    BY <1>4, <1>7, <1>9, <1>10, <1>11, <1>12, <2>2
  <2> QED  BY <2>2, <2>3 DEF WalletsExact
<1>13. CASE OwnedBy(w) # {id}
  <2>1. wallet_index' = [wallet_index EXCEPT ![w] = wallet_index[w] \ {id}]
    BY <1>3, <1>4, <1>8, <1>13 DEF WithoutOwned
  <2>2. /\ DOMAIN wallet_index' = DOMAIN wallet_index
        /\ \A k \in DOMAIN wallet_index' : wallet_index'[k] = OwnedBy(k)'
    BY <1>4, <1>6, <1>7, <2>1
  <2>3. DOMAIN wallet_index' = {slab'[s].order.wallet : s \in DOMAIN slab'}
    BY <1>4, <1>7, <1>8, <1>9, <1>10, <1>11, <1>13, <2>2
  <2> QED  BY <2>2, <2>3 DEF WalletsExact
<1> QED  BY <1>12, <1>13

\* remove takes the order from its level's count, and the level with its last
\* order (book.rs:369-371).
LEMMA TakeOutKeepsLevels ==
    ASSUME Inv, NEW id \in DOMAIN order_index, TakeOut(id)
    PROVE  LevelsExact'
<1>0. PICK slot, q, count : /\ slot = order_index[id]
                           /\ q = QueueOf(slab[slot].order)
                           /\ count = levels[q].order_count
  OBVIOUS
<1>1. /\ DOMAIN slab' = DOMAIN slab \ {slot}
      /\ \A s \in DOMAIN slab \ {slot} : slab'[s].order = slab[s].order
      /\ \A k \in DOMAIN levels : k # q => levels'[k] = levels[k]
      /\ count = 1 => DOMAIN levels' = DOMAIN levels \ {q}
      /\ count # 1 => /\ DOMAIN levels' = DOMAIN levels
                      /\ levels'[q].order_count = count - 1
  BY <1>0, TakeOutEffect DEF Inv
<1>2. slot \in DOMAIN slab  BY <1>0 DEF Inv, IndexExact
<1>3. q \in DOMAIN levels /\ (count = 1 <=> SlotsAt(q) = {slot})
  BY <1>0, <1>2, CountFacts DEF Inv
<1>4. /\ DOMAIN levels = {QueueOf(slab[s].order) : s \in DOMAIN slab}
      /\ \A k \in DOMAIN levels : levels[k].order_count = Cardinality(SlotsAt(k))
  BY DEF Inv, LevelsExact
<1>5. \A s \in DOMAIN slab' : QueueOf(slab'[s].order) = QueueOf(slab[s].order)
  BY <1>1
<1>6. slot \in SlotsAt(q)  BY <1>0, <1>2 DEF SlotsAt
<1>7. count = Cardinality(SlotsAt(q))  BY <1>0, <1>3, <1>4
<1>8. SlotsAt(q)' = SlotsAt(q) \ {slot}
  BY <1>1, <1>5 DEF SlotsAt
<1>9. \A k : k # q => SlotsAt(k)' = SlotsAt(k)
  BY <1>0, <1>1, <1>2, <1>5 DEF SlotsAt
<1>10. \A k : /\ k \in {QueueOf(slab[s].order) : s \in DOMAIN slab} <=> SlotsAt(k) # {}
              /\ k \in {QueueOf(slab'[s].order) : s \in DOMAIN slab'} <=> SlotsAt(k)' # {}
  BY DEF SlotsAt
<1>11. IsFiniteSet(SlotsAt(q))  BY SlotsAtFinite DEF Inv
<1>12. Cardinality(SlotsAt(q)') = count - 1
  BY <1>6, <1>7, <1>8, <1>11, FS_RemoveElement
<1>13. SlotsAt(q)' = {} <=> count = 1  BY <1>3, <1>6, <1>8
<1>14. DOMAIN levels' = {QueueOf(slab'[s].order) : s \in DOMAIN slab'}
  BY <1>1, <1>3, <1>4, <1>9, <1>10, <1>13
<1>15. ASSUME NEW k \in DOMAIN levels'
       PROVE  levels'[k].order_count = Cardinality(SlotsAt(k)')
  <2>1. CASE k = q  BY <1>1, <1>3, <1>12, <2>1
  <2>2. CASE k # q
    <3>1. k \in DOMAIN levels  BY <1>1
    <3> QED  BY <1>1, <1>4, <1>9, <2>2, <3>1
  <2> QED  BY <2>1, <2>2
<1> QED  BY <1>14, <1>15 DEF LevelsExact

\* On a chain no slot is its own neighbour, and a slot without neighbours is
\* alone at its price: what the links alone do not say.
LEMMA ChainFacts ==
    ASSUME Inv, NEW slot \in DOMAIN slab
    PROVE  /\ slab[slot].next # slot /\ slab[slot].prev # slot
           /\ slab[slot].next = slab[slot].prev => slab[slot].next = NoSlot
           /\ slab[slot].next = NoSlot /\ slab[slot].prev = NoSlot =>
                SlotsAt(QueueOf(slab[slot].order)) = {slot}
<1>1. PICK stamp \in [DOMAIN slab -> Nat] : InTimeOrder(stamp)
  BY DEF Inv, ChainsAreStamped
<1>2. slab[slot].next # NoSlot =>
        /\ slab[slot].next \in DOMAIN slab /\ slab[slab[slot].next].prev = slot
        /\ stamp[slot] < stamp[slab[slot].next]
  BY <1>1 DEF Inv, LinksConsistent, InTimeOrder
<1>3. slab[slot].prev # NoSlot =>
        /\ slab[slot].prev \in DOMAIN slab /\ slab[slab[slot].prev].next = slot
        /\ stamp[slab[slot].prev] < stamp[slot]
  <2>1. slab[slot].prev # NoSlot =>
          slab[slot].prev \in DOMAIN slab /\ slab[slab[slot].prev].next = slot
    BY DEF Inv, LinksConsistent
  <2>2. slot # NoSlot  BY SlotFacts DEF Inv
  <2> QED  BY <1>1, <2>1, <2>2 DEF InTimeOrder
<1>4. slot # NoSlot  BY SlotFacts DEF Inv
<1>5. ASSUME slab[slot].next = NoSlot, slab[slot].prev = NoSlot,
             NEW s \in SlotsAt(QueueOf(slab[slot].order))
      PROVE  s = slot
  <2>1. s \in DOMAIN slab /\ QueueOf(slab[s].order) = QueueOf(slab[slot].order)
    BY DEF SlotsAt
  <2>2. ~(stamp[s] < stamp[slot]) /\ ~(stamp[slot] < stamp[s])
    BY <1>1, <1>5, <2>1 DEF InTimeOrder
  <2>3. stamp[s] = stamp[slot]  BY <1>1, <2>1, <2>2
  <2> QED  BY <1>1, <2>1, <2>3 DEF InTimeOrder
<1>6. slot \in SlotsAt(QueueOf(slab[slot].order))  BY DEF SlotsAt
<1> QED  BY <1>1, <1>2, <1>3, <1>4, <1>5, <1>6

\* remove closes the gap: no link and no end of a level reaches the freed slot.
LEMMA TakeOutKeepsLinks ==
    ASSUME Inv, NEW id \in DOMAIN order_index, TakeOut(id)
    PROVE  LinksConsistent'
<1>0. PICK slot, q, p, n, count :
        /\ slot = order_index[id] /\ q = QueueOf(slab[slot].order)
        /\ p = slab[slot].prev /\ n = slab[slot].next
        /\ count = levels[q].order_count
  OBVIOUS
<1>1. /\ DOMAIN slab' = DOMAIN slab \ {slot}
      /\ \A s \in DOMAIN slab \ {slot} :
           /\ slab'[s].order = slab[s].order
           /\ slab'[s].next = IF s = p THEN n ELSE slab[s].next
           /\ slab'[s].prev = IF s = n THEN p ELSE slab[s].prev
      /\ \A k \in DOMAIN levels : k # q => levels'[k] = levels[k]
      /\ count = 1 => DOMAIN levels' = DOMAIN levels \ {q}
      /\ count # 1 =>
           /\ DOMAIN levels' = DOMAIN levels
           /\ levels'[q].head = IF p = NoSlot THEN n ELSE levels[q].head
           /\ levels'[q].tail = IF n = NoSlot THEN p ELSE levels[q].tail
  <2>1. TypeOK /\ IndexExact /\ LevelsExact  BY DEF Inv
  <2> QED  BY ONLY <1>0, <2>1, TakeOutEffect, TakeOut(id), id \in DOMAIN order_index
<1>2. slot \in DOMAIN slab /\ slot # NoSlot  BY <1>0, SlotFacts DEF Inv, IndexExact
<1>3. /\ q \in DOMAIN levels
      /\ count = 1 <=> SlotsAt(q) = {slot}
  BY <1>0, <1>2, CountFacts DEF Inv
<1>4. /\ n # slot /\ p # slot
      /\ n = p => n = NoSlot
      /\ n = NoSlot /\ p = NoSlot => count = 1
  BY <1>0, <1>2, <1>3, ChainFacts
<1>5. LinksConsistent  BY DEF Inv
<1>6. /\ n = NoSlot <=> levels[q].tail = slot
      /\ p = NoSlot <=> levels[q].head = slot
      /\ n # NoSlot => n \in DOMAIN slab /\ QueueOf(slab[n].order) = q /\ slab[n].prev = slot
      /\ p # NoSlot => p \in DOMAIN slab /\ QueueOf(slab[p].order) = q /\ slab[p].next = slot
  BY <1>0, <1>2, <1>5 DEF LinksConsistent
<1>7. \A s \in DOMAIN slab' : QueueOf(slab'[s].order) = QueueOf(slab[s].order)
  BY <1>1
<1>8. count = 1 => \A s \in DOMAIN slab' : QueueOf(slab[s].order) # q
  BY <1>1, <1>3 DEF SlotsAt
<1>9. ASSUME NEW k \in DOMAIN levels'
      PROVE  /\ levels'[k].head \in DOMAIN slab' /\ QueueOf(slab'[levels'[k].head].order) = k
             /\ levels'[k].tail \in DOMAIN slab' /\ QueueOf(slab'[levels'[k].tail].order) = k
  <2>1. /\ k \in DOMAIN levels
        /\ levels[k].head \in DOMAIN slab /\ QueueOf(slab[levels[k].head].order) = k
        /\ levels[k].tail \in DOMAIN slab /\ QueueOf(slab[levels[k].tail].order) = k
    BY <1>1, <1>5 DEF LinksConsistent
  <2>2. CASE k = q
    <3>1. count # 1  BY <1>1, <2>2
    <3>2. levels'[k].head \in DOMAIN slab' /\ QueueOf(slab[levels'[k].head].order) = k
      BY <1>1, <1>2, <1>4, <1>6, <2>1, <2>2, <3>1
    <3>3. levels'[k].tail \in DOMAIN slab' /\ QueueOf(slab[levels'[k].tail].order) = k
      BY <1>1, <1>2, <1>4, <1>6, <2>1, <2>2, <3>1
    <3> QED  BY <1>7, <3>2, <3>3
  <2>3. CASE k # q
    <3>1. levels'[k] = levels[k]  BY <1>1, <2>1, <2>3
    <3>2. levels[k].head # slot /\ levels[k].tail # slot  BY <1>0, <2>1, <2>3
    <3> QED  BY <1>1, <1>7, <2>1, <3>1, <3>2
  <2> QED  BY <2>2, <2>3
<1>10. ASSUME NEW s \in DOMAIN slab', NEW k, k = QueueOf(slab'[s].order)
      PROVE  /\ k \in DOMAIN levels'
             /\ slab'[s].next = NoSlot <=> levels'[k].tail = s
             /\ slab'[s].prev = NoSlot <=> levels'[k].head = s
             /\ slab'[s].next # NoSlot =>
                  /\ slab'[s].next \in DOMAIN slab'
                  /\ QueueOf(slab'[slab'[s].next].order) = k
                  /\ slab'[slab'[s].next].prev = s
             /\ slab'[s].prev # NoSlot =>
                  /\ slab'[s].prev \in DOMAIN slab'
                  /\ QueueOf(slab'[slab'[s].prev].order) = k
                  /\ slab'[slab'[s].prev].next = s
  <2>1. s \in DOMAIN slab /\ s # slot /\ s # NoSlot /\ k = QueueOf(slab[s].order)
    BY <1>1, <1>7, <1>10, SlotFacts DEF Inv
  <2>2. /\ k \in DOMAIN levels
        /\ slab[s].next = NoSlot <=> levels[k].tail = s
        /\ slab[s].prev = NoSlot <=> levels[k].head = s
        /\ slab[s].next # NoSlot =>
             /\ slab[s].next \in DOMAIN slab
             /\ QueueOf(slab[slab[s].next].order) = k
             /\ slab[slab[s].next].prev = s
        /\ slab[s].prev # NoSlot =>
             /\ slab[s].prev \in DOMAIN slab
             /\ QueueOf(slab[slab[s].prev].order) = k
             /\ slab[slab[s].prev].next = s
    BY <1>5, <2>1 DEF LinksConsistent
  <2>3. k = q => count # 1  BY <1>8, <2>1
  <2>4. /\ k \in DOMAIN levels'
        /\ levels'[k].head = IF k = q /\ p = NoSlot THEN n ELSE levels[k].head
        /\ levels'[k].tail = IF k = q /\ n = NoSlot THEN p ELSE levels[k].tail
    BY <1>1, <2>2, <2>3
  <2>5. /\ slab[s].next = slot <=> s = p
        /\ slab[s].prev = slot <=> s = n
    BY <1>0, <1>2, <1>6, <2>1, <2>2
  <2>6. /\ slab'[s].next = IF s = p THEN n ELSE slab[s].next
        /\ slab'[s].prev = IF s = n THEN p ELSE slab[s].prev
    BY <1>1, <2>1
  <2>7. slab'[s].next = NoSlot <=> levels'[k].tail = s
    BY <1>2, <1>6, <2>1, <2>2, <2>4, <2>6
  <2>8. slab'[s].prev = NoSlot <=> levels'[k].head = s
    BY <1>2, <1>6, <2>1, <2>2, <2>4, <2>6
  <2>9. slab'[s].next # NoSlot =>
          /\ slab'[s].next \in DOMAIN slab'
          /\ QueueOf(slab'[slab'[s].next].order) = k
          /\ slab'[slab'[s].next].prev = s
    <3>1. CASE s = p  BY <1>1, <1>4, <1>6, <1>7, <2>1, <2>6, <3>1
    <3>2. CASE s # p
      <4>1. slab'[s].next = slab[s].next /\ slab[s].next # slot  BY <2>5, <2>6, <3>2
      <4>2. slab[s].next # NoSlot => slab[s].next # n
        BY <1>2, <1>6, <2>1, <2>2
      <4> QED  BY <1>1, <1>7, <2>2, <4>1, <4>2
    <3> QED  BY <3>1, <3>2
  <2>10. slab'[s].prev # NoSlot =>
          /\ slab'[s].prev \in DOMAIN slab'
          /\ QueueOf(slab'[slab'[s].prev].order) = k
          /\ slab'[slab'[s].prev].next = s
    <3>1. CASE s = n  BY <1>1, <1>4, <1>6, <1>7, <2>1, <2>6, <3>1
    <3>2. CASE s # n
      <4>1. slab'[s].prev = slab[s].prev /\ slab[s].prev # slot  BY <2>5, <2>6, <3>2
      <4>2. slab[s].prev # NoSlot => slab[s].prev # p
        BY <1>2, <1>6, <2>1, <2>2
      <4> QED  BY <1>1, <1>7, <2>2, <4>1, <4>2
    <3> QED  BY <3>1, <3>2
  <2> QED  BY <2>4, <2>7, <2>8, <2>9, <2>10
<1> QED  BY <1>9, <1>10 DEF LinksConsistent

\* remove leaves each level one chain: the stamps of the others still do.
LEMMA TakeOutKeepsChains ==
    ASSUME Inv, NEW id \in DOMAIN order_index, TakeOut(id)
    PROVE  ChainsAreStamped'
<1>0. PICK slot, q, p, n :
        /\ slot = order_index[id] /\ q = QueueOf(slab[slot].order)
        /\ p = slab[slot].prev /\ n = slab[slot].next
  OBVIOUS
<1>1. PICK bound \in Nat : \E stamp \in [DOMAIN slab -> Nat] :
        (\A s \in DOMAIN slab : stamp[s] < bound) /\ InTimeOrder(stamp)
  BY DEF Inv, ChainsAreStamped
<1>2. PICK stamp \in [DOMAIN slab -> Nat] :
        (\A s \in DOMAIN slab : stamp[s] < bound) /\ InTimeOrder(stamp)
  BY <1>1
<1>3. /\ DOMAIN slab' = DOMAIN slab \ {slot}
      /\ \A s \in DOMAIN slab \ {slot} :
           /\ slab'[s].order = slab[s].order
           /\ slab'[s].next = IF s = p THEN n ELSE slab[s].next
           /\ slab'[s].prev = IF s = n THEN p ELSE slab[s].prev
  <2>1. LET i == order_index[id]
        IN  /\ DOMAIN slab' = DOMAIN slab \ {i}
            /\ \A s \in DOMAIN slab \ {i} :
                 /\ slab'[s].order = slab[s].order
                 /\ slab'[s].next = IF s = slab[i].prev THEN slab[i].next ELSE slab[s].next
                 /\ slab'[s].prev = IF s = slab[i].next THEN slab[i].prev ELSE slab[s].prev
    BY TakeOutEffect DEF Inv
  <2> QED  BY ONLY <1>0, <2>1
<1>4. slot \in DOMAIN slab /\ slot # NoSlot /\ NoSlot \notin DOMAIN slab
  BY <1>0, SlotFacts DEF Inv, IndexExact
<1>5. /\ n # NoSlot => n \in DOMAIN slab /\ QueueOf(slab[n].order) = q /\ slab[n].prev = slot
      /\ p # NoSlot => p \in DOMAIN slab /\ QueueOf(slab[p].order) = q /\ slab[p].next = slot
      /\ n # slot /\ p # slot
  BY <1>0, <1>4, ChainFacts DEF Inv, LinksConsistent
<1>6. \A s \in DOMAIN slab' : QueueOf(slab'[s].order) = QueueOf(slab[s].order)
  BY <1>3
<1> PICK kept : kept = [s \in DOMAIN slab' |-> stamp[s]]
  OBVIOUS
<1>7. kept \in [DOMAIN slab' -> Nat] /\ \A s \in DOMAIN slab' : kept[s] < bound
  BY <1>2, <1>3
<1>8. \A s, t \in DOMAIN slab' : kept[s] = kept[t] => s = t
  BY <1>2, <1>3 DEF InTimeOrder
<1>9. ASSUME NEW s \in DOMAIN slab', slab'[s].next # NoSlot
      PROVE  kept[s] < kept[slab'[s].next]
  <2>1. s \in DOMAIN slab /\ s # slot  BY <1>3
  <2>2. CASE s = p
    <3>1. slab'[s].next = n /\ n # NoSlot /\ n \in DOMAIN slab'
      BY <1>3, <1>5, <1>9, <2>1, <2>2
    <3>2. stamp[s] < stamp[slot] /\ stamp[slot] < stamp[n]
      BY <1>0, <1>2, <1>4, <1>5, <2>1, <2>2, <3>1 DEF InTimeOrder
    <3>3. stamp[s] < stamp[n]
      <4>1. stamp[s] \in Nat /\ stamp[slot] \in Nat /\ stamp[n] \in Nat
        BY <1>2, <1>3, <1>4, <2>1, <3>1
      <4> QED  BY <3>2, <4>1
    <3> QED  BY <3>1, <3>3
  <2>3. CASE s # p
    <3>1. slab'[s].next = slab[s].next  BY <1>3, <2>1, <2>3
    <3>2. slab[s].next \in DOMAIN slab /\ slab[slab[s].next].prev = s
      BY <1>9, <2>1, <3>1 DEF Inv, LinksConsistent
    <3>3. slab[s].next # slot  BY <1>0, <2>3, <3>2
    <3>4. stamp[s] < stamp[slab[s].next]
      BY <1>2, <1>9, <2>1, <3>1 DEF InTimeOrder
    <3> QED  BY <1>3, <3>1, <3>2, <3>3, <3>4
  <2> QED  BY <2>2, <2>3
<1>10. ASSUME NEW s \in DOMAIN slab', NEW t \in DOMAIN slab',
              QueueOf(slab'[s].order) = QueueOf(slab'[t].order), kept[s] < kept[t]
       PROVE  /\ slab'[s].next # NoSlot /\ kept[slab'[s].next] <= kept[t]
              /\ slab'[t].prev # NoSlot /\ kept[s] <= kept[slab'[t].prev]
  <2>1. /\ s \in DOMAIN slab /\ s # slot /\ t \in DOMAIN slab /\ t # slot
        /\ QueueOf(slab[s].order) = QueueOf(slab[t].order) /\ stamp[s] < stamp[t]
    BY <1>3, <1>6, <1>10
  <2>2. /\ slab[s].next # NoSlot /\ stamp[slab[s].next] <= stamp[t]
        /\ slab[t].prev # NoSlot /\ stamp[s] <= stamp[slab[t].prev]
    BY <1>2, <2>1 DEF InTimeOrder
  <2>3. /\ slab[s].next \in DOMAIN slab /\ slab[slab[s].next].prev = s
        /\ slab[t].prev \in DOMAIN slab /\ slab[slab[t].prev].next = t
    BY <2>1, <2>2 DEF Inv, LinksConsistent
  <2>4. \A r \in DOMAIN slab : stamp[r] \in Nat  OBVIOUS
  <2>5. slab'[s].next # NoSlot /\ kept[slab'[s].next] <= kept[t]
    <3>1. CASE s = p
      <4>1. slab[s].next = slot  BY <1>5, <2>1, <3>1, <1>4
      <4>2. stamp[slot] < stamp[t]
        <5>1. stamp[slot] # stamp[t]  BY <1>2, <1>4, <2>1 DEF InTimeOrder
        <5> QED  BY <1>4, <2>1, <2>2, <2>4, <4>1, <5>1
      <4>3. QueueOf(slab[slot].order) = QueueOf(slab[t].order)
        BY <1>0, <1>4, <1>5, <2>1, <3>1
      <4>4. n # NoSlot /\ stamp[n] <= stamp[t]
        BY <1>0, <1>2, <1>4, <2>1, <4>2, <4>3 DEF InTimeOrder
      <4>5. slab'[s].next = n /\ n \in DOMAIN slab'
        BY <1>3, <1>5, <2>1, <3>1, <4>4
      <4> QED  BY <4>4, <4>5
    <3>2. CASE s # p
      <4>1. slab'[s].next = slab[s].next  BY <1>3, <2>1, <3>2
      <4>2. slab[s].next # slot  BY <1>0, <2>3, <3>2
      <4> QED  BY <1>3, <2>2, <2>3, <4>1, <4>2
    <3> QED  BY <3>1, <3>2
  <2>6. slab'[t].prev # NoSlot /\ kept[s] <= kept[slab'[t].prev]
    <3>1. CASE t = n
      <4>1. slab[t].prev = slot  BY <1>5, <2>1, <3>1, <1>4
      <4>2. stamp[s] < stamp[slot]
        <5>1. stamp[slot] # stamp[s]  BY <1>2, <1>4, <2>1 DEF InTimeOrder
        <5> QED  BY <1>4, <2>1, <2>2, <2>4, <4>1, <5>1
      <4>3. QueueOf(slab[slot].order) = QueueOf(slab[s].order)
        BY <1>0, <1>4, <1>5, <2>1, <3>1
      <4>4. p # NoSlot /\ stamp[s] <= stamp[p]
        BY <1>0, <1>2, <1>4, <2>1, <4>2, <4>3 DEF InTimeOrder
      <4>5. slab'[t].prev = p /\ p \in DOMAIN slab'
        BY <1>3, <1>5, <2>1, <3>1, <4>4
      <4> QED  BY <4>4, <4>5
    <3>2. CASE t # n
      <4>1. slab'[t].prev = slab[t].prev  BY <1>3, <2>1, <3>2
      <4>2. slab[t].prev # slot  BY <1>0, <2>3, <3>2
      <4> QED  BY <1>3, <2>2, <2>3, <4>1, <4>2
    <3> QED  BY <3>1, <3>2
  <2> QED  BY <2>5, <2>6
<1>11. InTimeOrder(kept)'
  BY <1>8, <1>9, <1>10 DEF InTimeOrder
<1> QED  BY <1>1, <1>7, <1>11 DEF ChainsAreStamped

\* add extends a level's chain at its tail: the new order is stamped last.
LEMMA InsertKeepsChains ==
    ASSUME Inv, NEW order \in Order, InsertOrder(order)
    PROVE  ChainsAreStamped'
<1>0. PICK f, q, t : f = FreshSlot /\ q = QueueOf(order) /\ t = TailAt(q)
  OBVIOUS
<1>1. PICK bound \in Nat : \E stamp \in [DOMAIN slab -> Nat] :
        (\A s \in DOMAIN slab : stamp[s] < bound) /\ InTimeOrder(stamp)
  BY DEF Inv, ChainsAreStamped
<1>2. PICK stamp \in [DOMAIN slab -> Nat] :
        (\A s \in DOMAIN slab : stamp[s] < bound) /\ InTimeOrder(stamp)
  BY <1>1
<1>3. /\ DOMAIN slab' = DOMAIN slab \cup {f}
      /\ \A s \in DOMAIN slab :
           /\ slab'[s].order = slab[s].order
           /\ slab'[s].next = IF s = t THEN f ELSE slab[s].next
           /\ slab'[s].prev = slab[s].prev
      /\ slab'[f].order = order /\ slab'[f].next = NoSlot /\ slab'[f].prev = t
  BY <1>0, InsertEffect DEF Inv
<1>4. f \notin DOMAIN slab /\ f # NoSlot /\ NoSlot \notin DOMAIN slab
  BY <1>0, AllocEffect, SlotFacts, NoSlotAssumption DEF Inv, InsertOrder
<1>5. /\ \A s \in DOMAIN slab : QueueOf(slab'[s].order) = QueueOf(slab[s].order)
      /\ QueueOf(slab'[f].order) = q
  BY <1>0, <1>3
<1>6. ASSUME NEW s \in DOMAIN slab, QueueOf(slab[s].order) = q
      PROVE  /\ t \in DOMAIN slab /\ QueueOf(slab[t].order) = q
             /\ slab[t].next = NoSlot /\ stamp[s] <= stamp[t]
  <2>1. q \in DOMAIN levels /\ t = levels[q].tail
    BY <1>0, <1>6 DEF Inv, LinksConsistent, TailAt
  <2>2. t \in DOMAIN slab /\ QueueOf(slab[t].order) = q /\ slab[t].next = NoSlot
    BY <2>1 DEF Inv, LinksConsistent
  <2>3. ~(stamp[t] < stamp[s])  BY <1>2, <1>6, <2>2 DEF InTimeOrder
  <2>4. stamp[s] \in Nat /\ stamp[t] \in Nat  BY <2>2
  <2> QED  BY <2>2, <2>3, <2>4
<1>7. t # NoSlot => t \in DOMAIN slab /\ QueueOf(slab[t].order) = q /\ slab[t].next = NoSlot
  BY <1>0 DEF Inv, LinksConsistent, TailAt
<1>8. PICK new : new = [s \in DOMAIN slab' |-> IF s = f THEN bound ELSE stamp[s]]
  OBVIOUS
<1>9. /\ new \in [DOMAIN slab' -> Nat] /\ new[f] = bound
      /\ \A s \in DOMAIN slab : new[s] = stamp[s] /\ new[s] < bound /\ new[s] \in Nat
      /\ bound + 1 \in Nat
      /\ \A s \in DOMAIN slab' : new[s] < bound + 1
  BY <1>2, <1>3, <1>4, <1>8
<1>10. \A s, t_ \in DOMAIN slab' : new[s] = new[t_] => s = t_
  BY <1>2, <1>3, <1>9 DEF InTimeOrder
<1>11. ASSUME NEW s \in DOMAIN slab', slab'[s].next # NoSlot
       PROVE  new[s] < new[slab'[s].next]
  <2>1. s \in DOMAIN slab  BY <1>3, <1>11
  <2>2. CASE s = t  BY <1>3, <1>9, <2>1, <2>2
  <2>3. CASE s # t
    <3>1. slab'[s].next = slab[s].next  BY <1>3, <2>1, <2>3
    <3>2. slab[s].next \in DOMAIN slab  BY <1>11, <2>1, <3>1 DEF Inv, LinksConsistent
    <3>3. stamp[s] < stamp[slab[s].next]  BY <1>2, <1>11, <2>1, <3>1 DEF InTimeOrder
    <3> QED  BY <1>9, <2>1, <3>1, <3>2, <3>3
  <2> QED  BY <2>2, <2>3
<1>12. ASSUME NEW r \in DOMAIN slab', NEW s \in DOMAIN slab',
              QueueOf(slab'[r].order) = QueueOf(slab'[s].order), new[r] < new[s]
       PROVE  /\ slab'[r].next # NoSlot /\ new[slab'[r].next] <= new[s]
              /\ slab'[s].prev # NoSlot /\ new[r] <= new[slab'[s].prev]
  <2>1. r \in DOMAIN slab
    <3>1. ~(bound < new[s])  BY <1>1, <1>3, <1>9
    <3> QED  BY <1>3, <1>9, <1>12, <3>1
  <2>2. CASE s = f
    <3>1. QueueOf(slab[r].order) = q  BY <1>5, <1>12, <2>1, <2>2
    <3>2. /\ t \in DOMAIN slab /\ stamp[r] <= stamp[t] /\ slab[t].next = NoSlot
          /\ QueueOf(slab[t].order) = q
      BY <1>6, <2>1, <3>1
    <3>3. slab'[s].prev # NoSlot /\ new[r] <= new[slab'[s].prev]
      BY <1>3, <1>4, <1>9, <2>1, <2>2, <3>2
    <3>4. CASE r = t  BY <1>1, <1>3, <1>4, <1>9, <2>1, <2>2, <3>3, <3>4
    <3>5. CASE r # t
      <4>1. stamp[r] # stamp[t]  BY <1>2, <2>1, <3>2, <3>5 DEF InTimeOrder
      <4>2. stamp[r] < stamp[t]
        <5>1. stamp[r] \in Nat /\ stamp[t] \in Nat  BY <2>1, <3>2
        <5> QED  BY <3>2, <4>1, <5>1
      <4>3. slab[r].next # NoSlot  BY <1>2, <2>1, <3>1, <3>2, <4>2 DEF InTimeOrder
      <4>4. slab'[r].next = slab[r].next /\ slab[r].next \in DOMAIN slab
        BY <1>3, <2>1, <3>5, <4>3 DEF Inv, LinksConsistent
      <4>5. new[slab'[r].next] <= new[s]  BY <1>1, <1>9, <2>2, <4>4
      <4> QED  BY <3>3, <4>3, <4>4, <4>5
    <3> QED  BY <3>4, <3>5
  <2>3. CASE s # f
    <3>1. /\ s \in DOMAIN slab /\ QueueOf(slab[r].order) = QueueOf(slab[s].order)
          /\ stamp[r] < stamp[s]
      BY <1>3, <1>5, <1>9, <1>12, <2>1, <2>3
    <3>2. /\ slab[r].next # NoSlot /\ stamp[slab[r].next] <= stamp[s]
          /\ slab[s].prev # NoSlot /\ stamp[r] <= stamp[slab[s].prev]
      BY <1>2, <2>1, <3>1 DEF InTimeOrder
    <3>3. slab[r].next \in DOMAIN slab /\ slab[s].prev \in DOMAIN slab
      BY <2>1, <3>1, <3>2 DEF Inv, LinksConsistent
    <3>4. r # t  BY <1>4, <1>7, <2>1, <3>2
    <3> QED  BY <1>3, <1>9, <2>1, <3>1, <3>2, <3>3, <3>4
  <2> QED  BY <2>2, <2>3
<1>13. InTimeOrder(new)'
  BY <1>10, <1>11, <1>12 DEF InTimeOrder
<1> QED  BY <1>9, <1>13 DEF ChainsAreStamped

-----------------------------------------------------------------------------
(* Changes of size preserve the invariant *)

\* A step that changes quantities and links only keeps everything but the links.
LEMMA ResizeKeepsRest ==
    ASSUME Inv, result' \in Result,
           UNCHANGED <<slab_len, free_list, order_index, wallet_index>>,
           slab' \in [DOMAIN slab -> OrderNode],
           \A s \in DOMAIN slab :
             /\ slab'[s].order.id = slab[s].order.id
             /\ slab'[s].order.wallet = slab[s].order.wallet
             /\ slab'[s].order.qty # 0
             /\ QueueOf(slab'[s].order) = QueueOf(slab[s].order),
           levels' \in [DOMAIN levels -> Level],
           \A k \in DOMAIN levels : levels'[k].order_count = levels[k].order_count
    PROVE  TypeOK' /\ IndexExact' /\ FreeListExact' /\ LevelsExact' /\ WalletsExact'
<1>1. DOMAIN slab' = DOMAIN slab /\ DOMAIN levels' = DOMAIN levels  OBVIOUS
<1>2. TypeOK'  BY <1>1 DEF Inv, TypeOK
<1>3. IndexExact'  BY <1>1 DEF Inv, IndexExact
<1>4. FreeListExact'  BY <1>1 DEF Inv, FreeListExact
<1>5. LevelsExact'
  <2>1. \A k : SlotsAt(k)' = SlotsAt(k)  BY <1>1 DEF SlotsAt
  <2>2. DOMAIN levels' = {QueueOf(slab'[s].order) : s \in DOMAIN slab'}
    BY <1>1 DEF Inv, LevelsExact
  <2> QED  BY <1>1, <2>1, <2>2 DEF Inv, LevelsExact
<1>6. WalletsExact'
  <2>1. \A w : OwnedBy(w)' = OwnedBy(w)  BY <1>1 DEF OwnedBy
  <2>2. DOMAIN wallet_index' = {slab'[s].order.wallet : s \in DOMAIN slab'}
    BY <1>1 DEF Inv, WalletsExact
  <2> QED  BY <2>1, <2>2 DEF Inv, WalletsExact
<1> QED  BY <1>2, <1>3, <1>4, <1>5, <1>6

\* A step that changes no link and no end keeps the lists as they were.
LEMMA SameLinks ==
    ASSUME Inv, DOMAIN slab' = DOMAIN slab, DOMAIN levels' = DOMAIN levels,
           \A s \in DOMAIN slab :
             /\ QueueOf(slab'[s].order) = QueueOf(slab[s].order)
             /\ slab'[s].next = slab[s].next
             /\ slab'[s].prev = slab[s].prev,
           \A k \in DOMAIN levels :
             levels'[k].head = levels[k].head /\ levels'[k].tail = levels[k].tail
    PROVE  LinksConsistent' /\ ChainsAreStamped'
<1>1. LinksConsistent'
  <2>0. LinksConsistent  BY DEF Inv
  <2>1. ASSUME NEW k \in DOMAIN levels'
        PROVE  /\ levels'[k].head \in DOMAIN slab' /\ QueueOf(slab'[levels'[k].head].order) = k
               /\ levels'[k].tail \in DOMAIN slab' /\ QueueOf(slab'[levels'[k].tail].order) = k
    <3>1. /\ k \in DOMAIN levels
          /\ levels[k].head \in DOMAIN slab /\ QueueOf(slab[levels[k].head].order) = k
          /\ levels[k].tail \in DOMAIN slab /\ QueueOf(slab[levels[k].tail].order) = k
      BY <2>0 DEF LinksConsistent
    <3> QED  BY <3>1
  <2>2. ASSUME NEW s \in DOMAIN slab', NEW k, k = QueueOf(slab'[s].order)
        PROVE  /\ k \in DOMAIN levels'
               /\ slab'[s].next = NoSlot <=> levels'[k].tail = s
               /\ slab'[s].prev = NoSlot <=> levels'[k].head = s
               /\ slab'[s].next # NoSlot =>
                    /\ slab'[s].next \in DOMAIN slab'
                    /\ QueueOf(slab'[slab'[s].next].order) = k
                    /\ slab'[slab'[s].next].prev = s
               /\ slab'[s].prev # NoSlot =>
                    /\ slab'[s].prev \in DOMAIN slab'
                    /\ QueueOf(slab'[slab'[s].prev].order) = k
                    /\ slab'[slab'[s].prev].next = s
    <3>1. s \in DOMAIN slab /\ k = QueueOf(slab[s].order)  BY <2>2
    <3>2. /\ k \in DOMAIN levels
          /\ slab[s].next = NoSlot <=> levels[k].tail = s
          /\ slab[s].prev = NoSlot <=> levels[k].head = s
          /\ slab[s].next # NoSlot =>
               /\ slab[s].next \in DOMAIN slab
               /\ QueueOf(slab[slab[s].next].order) = k
               /\ slab[slab[s].next].prev = s
          /\ slab[s].prev # NoSlot =>
               /\ slab[s].prev \in DOMAIN slab
               /\ QueueOf(slab[slab[s].prev].order) = k
               /\ slab[slab[s].prev].next = s
      BY <2>0, <3>1 DEF LinksConsistent
    <3> QED  BY <3>1, <3>2
  <2> QED  BY <2>1, <2>2 DEF LinksConsistent
<1>2. PICK bound \in Nat : \E stamp \in [DOMAIN slab -> Nat] :
        (\A s \in DOMAIN slab : stamp[s] < bound) /\ InTimeOrder(stamp)
  BY DEF Inv, ChainsAreStamped
<1>3. PICK stamp \in [DOMAIN slab -> Nat] :
        (\A s \in DOMAIN slab : stamp[s] < bound) /\ InTimeOrder(stamp)
  BY <1>2
<1>4. InTimeOrder(stamp)'  BY <1>3 DEF InTimeOrder
<1> QED  BY <1>1, <1>2, <1>3, <1>4 DEF ChainsAreStamped

\* A change of size in place keeps the invariant.
LEMMA SetQtyKeepsInv ==
    ASSUME Inv, NEW id \in DOMAIN order_index, NEW new_qty \in Qty \ {0},
           SetQty(id, new_qty)
    PROVE  Inv'
<1>1. /\ slab' \in [DOMAIN slab -> OrderNode]
      /\ \A s \in DOMAIN slab :
           /\ slab'[s].order.id = slab[s].order.id
           /\ slab'[s].order.wallet = slab[s].order.wallet
           /\ slab'[s].order.qty # 0
           /\ QueueOf(slab'[s].order) = QueueOf(slab[s].order)
           /\ slab'[s].next = slab[s].next
           /\ slab'[s].prev = slab[s].prev
      /\ levels' \in [DOMAIN levels -> Level]
      /\ \A k \in DOMAIN levels :
           /\ levels'[k].order_count = levels[k].order_count
           /\ levels'[k].head = levels[k].head
           /\ levels'[k].tail = levels[k].tail
  BY SetQtyEffect DEF Inv, IndexExact
<1>2. result' \in Result /\ UNCHANGED <<slab_len, free_list, order_index, wallet_index>>
  BY DEF SetQty, Result
<1>3. TypeOK' /\ IndexExact' /\ FreeListExact' /\ LevelsExact' /\ WalletsExact'
  BY <1>1, <1>2, ResizeKeepsRest
<1>4. LinksConsistent' /\ ChainsAreStamped'
  BY <1>1, SameLinks
<1> QED  BY <1>3, <1>4 DEF Inv

\* What an order that goes behind its level leaves of the links.
LEMMA MovedLinks ==
    ASSUME Inv, NEW id \in DOMAIN order_index, NEW new_qty \in Qty,
           GrowAndMove(id, new_qty),
           NEW slot, slot = order_index[id], NEW q, q = QueueOf(slab[slot].order),
           NEW p, p = slab[slot].prev, NEW n, n = slab[slot].next,
           NEW t, t = levels[q].tail, t # slot
    PROVE  /\ DOMAIN slab' = DOMAIN slab /\ DOMAIN levels' = DOMAIN levels
           /\ \A s \in DOMAIN slab :
                /\ QueueOf(slab'[s].order) = QueueOf(slab[s].order)
                /\ slab'[s].next = IF s = t THEN slot
                                   ELSE IF s = slot THEN NoSlot
                                   ELSE IF s = p THEN n ELSE slab[s].next
                /\ slab'[s].prev = IF s = slot THEN t
                                   ELSE IF s = n THEN p ELSE slab[s].prev
           /\ \A k \in DOMAIN levels : k # q => levels'[k] = levels[k]
           /\ levels'[q].tail = slot
           /\ levels'[q].head = IF p = NoSlot THEN n ELSE levels[q].head
           /\ q \in DOMAIN levels
           /\ slot \in DOMAIN slab /\ NoSlot \notin DOMAIN slab
           /\ t \in DOMAIN slab /\ QueueOf(slab[t].order) = q /\ slab[t].next = NoSlot
           /\ n \in DOMAIN slab /\ QueueOf(slab[n].order) = q /\ slab[n].prev = slot
           /\ p # NoSlot =>
                p \in DOMAIN slab /\ QueueOf(slab[p].order) = q /\ slab[p].next = slot
           /\ n # slot /\ p # slot /\ n # p /\ p # t
<1>1. LET i == order_index[id]
          k == QueueOf(slab[i].order)
      IN  /\ DOMAIN slab' = DOMAIN slab /\ DOMAIN levels' = DOMAIN levels
          /\ \A j \in DOMAIN levels : j # k => levels'[j] = levels[j]
          /\ levels'[k].tail = i
          /\ levels'[k].head = IF levels[k].tail # i /\ slab[i].prev = NoSlot
                               THEN slab[i].next ELSE levels[k].head
          /\ \A s \in DOMAIN slab :
               /\ QueueOf(slab'[s].order) = QueueOf(slab[s].order)
               /\ slab'[s].next = IF levels[k].tail = i THEN slab[s].next
                                  ELSE IF s = levels[k].tail THEN i
                                  ELSE IF s = i THEN NoSlot
                                  ELSE IF s = slab[i].prev THEN slab[i].next
                                  ELSE slab[s].next
               /\ slab'[s].prev = IF levels[k].tail = i THEN slab[s].prev
                                  ELSE IF s = i THEN levels[k].tail
                                  ELSE IF s = slab[i].next THEN slab[i].prev
                                  ELSE slab[s].prev
  BY GrowAndMoveEffect DEF Inv
<1>2. /\ DOMAIN slab' = DOMAIN slab /\ DOMAIN levels' = DOMAIN levels
      /\ \A s \in DOMAIN slab :
           /\ QueueOf(slab'[s].order) = QueueOf(slab[s].order)
           /\ slab'[s].next = IF s = t THEN slot
                              ELSE IF s = slot THEN NoSlot
                              ELSE IF s = p THEN n ELSE slab[s].next
           /\ slab'[s].prev = IF s = slot THEN t
                              ELSE IF s = n THEN p ELSE slab[s].prev
      /\ \A k \in DOMAIN levels : k # q => levels'[k] = levels[k]
      /\ levels'[q].tail = slot
      /\ levels'[q].head = IF p = NoSlot THEN n ELSE levels[q].head
  BY <1>1
<1>3. slot \in DOMAIN slab /\ NoSlot \notin DOMAIN slab
  BY SlotFacts DEF Inv, IndexExact
<1>4. /\ q \in DOMAIN levels
      /\ t \in DOMAIN slab /\ QueueOf(slab[t].order) = q /\ slab[t].next = NoSlot
      /\ n # NoSlot
  BY <1>3 DEF Inv, LinksConsistent
<1>5. /\ n \in DOMAIN slab /\ QueueOf(slab[n].order) = q /\ slab[n].prev = slot
      /\ p # NoSlot =>
           p \in DOMAIN slab /\ QueueOf(slab[p].order) = q /\ slab[p].next = slot
  BY <1>3, <1>4 DEF Inv, LinksConsistent
<1>6. n # slot /\ p # slot /\ n # p  BY <1>3, <1>4, ChainFacts
<1>7. p # t  BY <1>3, <1>4, <1>5
<1> QED  BY <1>2, <1>3, <1>4, <1>5, <1>6, <1>7

\* Moving an order behind its level keeps the lists doubly linked, from the
\* head or from the middle.
LEMMA MoveKeepsLinks ==
    ASSUME Inv, NEW id \in DOMAIN order_index, NEW new_qty \in Qty,
           GrowAndMove(id, new_qty),
           NEW slot, slot = order_index[id], NEW q, q = QueueOf(slab[slot].order),
           NEW p, p = slab[slot].prev, NEW n, n = slab[slot].next,
           NEW t, t = levels[q].tail, t # slot
    PROVE  LinksConsistent'
<1>1. /\ DOMAIN slab' = DOMAIN slab /\ DOMAIN levels' = DOMAIN levels
      /\ \A s \in DOMAIN slab :
           /\ QueueOf(slab'[s].order) = QueueOf(slab[s].order)
           /\ slab'[s].next = IF s = t THEN slot
                              ELSE IF s = slot THEN NoSlot
                              ELSE IF s = p THEN n ELSE slab[s].next
           /\ slab'[s].prev = IF s = slot THEN t
                              ELSE IF s = n THEN p ELSE slab[s].prev
      /\ \A k \in DOMAIN levels : k # q => levels'[k] = levels[k]
      /\ levels'[q].tail = slot
      /\ levels'[q].head = IF p = NoSlot THEN n ELSE levels[q].head
  BY MovedLinks
<1>2. /\ q \in DOMAIN levels
      /\ slot \in DOMAIN slab /\ NoSlot \notin DOMAIN slab
      /\ t \in DOMAIN slab /\ QueueOf(slab[t].order) = q /\ slab[t].next = NoSlot
      /\ n \in DOMAIN slab /\ QueueOf(slab[n].order) = q /\ slab[n].prev = slot
      /\ p # NoSlot =>
           p \in DOMAIN slab /\ QueueOf(slab[p].order) = q /\ slab[p].next = slot
      /\ n # slot /\ p # slot /\ n # p /\ p # t
  BY MovedLinks
<1>3. LinksConsistent  BY DEF Inv
<1>4. ASSUME NEW k \in DOMAIN levels'
      PROVE  /\ levels'[k].head \in DOMAIN slab' /\ QueueOf(slab'[levels'[k].head].order) = k
             /\ levels'[k].tail \in DOMAIN slab' /\ QueueOf(slab'[levels'[k].tail].order) = k
  <2>1. /\ k \in DOMAIN levels
        /\ levels[k].head \in DOMAIN slab /\ QueueOf(slab[levels[k].head].order) = k
        /\ levels[k].tail \in DOMAIN slab /\ QueueOf(slab[levels[k].tail].order) = k
    BY <1>1, <1>3 DEF LinksConsistent
  <2>2. CASE k = q  BY <1>1, <1>2, <2>1, <2>2
  <2>3. CASE k # q
    <3>1. levels'[k] = levels[k]  BY <1>1, <2>1, <2>3
    <3> QED  BY <1>1, <2>1, <3>1
  <2> QED  BY <2>2, <2>3
<1>5. ASSUME NEW s \in DOMAIN slab', NEW k, k = QueueOf(slab'[s].order)
      PROVE  /\ k \in DOMAIN levels'
             /\ slab'[s].next = NoSlot <=> levels'[k].tail = s
             /\ slab'[s].prev = NoSlot <=> levels'[k].head = s
             /\ slab'[s].next # NoSlot =>
                  /\ slab'[s].next \in DOMAIN slab'
                  /\ QueueOf(slab'[slab'[s].next].order) = k
                  /\ slab'[slab'[s].next].prev = s
             /\ slab'[s].prev # NoSlot =>
                  /\ slab'[s].prev \in DOMAIN slab'
                  /\ QueueOf(slab'[slab'[s].prev].order) = k
                  /\ slab'[slab'[s].prev].next = s
  <2>1. s \in DOMAIN slab /\ s # NoSlot /\ k = QueueOf(slab[s].order)
    BY <1>1, <1>2, <1>5
  <2>2. /\ k \in DOMAIN levels
        /\ slab[s].next = NoSlot <=> levels[k].tail = s
        /\ slab[s].prev = NoSlot <=> levels[k].head = s
        /\ slab[s].next # NoSlot =>
             /\ slab[s].next \in DOMAIN slab
             /\ QueueOf(slab[slab[s].next].order) = k
             /\ slab[slab[s].next].prev = s
        /\ slab[s].prev # NoSlot =>
             /\ slab[s].prev \in DOMAIN slab
             /\ QueueOf(slab[slab[s].prev].order) = k
             /\ slab[slab[s].prev].next = s
    BY <1>3, <2>1 DEF LinksConsistent
  <2>3. /\ k \in DOMAIN levels'
        /\ levels'[k].head = IF k = q /\ p = NoSlot THEN n ELSE levels[k].head
        /\ levels'[k].tail = IF k = q THEN slot ELSE levels[k].tail
    BY <1>1, <2>2
  <2>4. /\ slab[s].next = slot <=> s = p
        /\ slab[s].prev = slot <=> s = n
    BY <1>2, <2>1, <2>2
  <2>5. /\ slab[s].next = n <=> s = slot
        /\ p # NoSlot => (slab[s].prev = p <=> s = slot)
    BY <1>2, <2>1, <2>2
  <2>6. slab'[s].next = NoSlot <=> levels'[k].tail = s
    BY <1>1, <1>2, <2>1, <2>2, <2>3
  <2>7. slab'[s].prev = NoSlot <=> levels'[k].head = s
    <3>1. CASE s = slot
      <4>1. slab'[s].prev # NoSlot  BY <1>1, <1>2, <2>1, <3>1
      <4>2. levels'[k].head # s  BY <1>2, <2>2, <2>3, <3>1
      <4> QED  BY <4>1, <4>2
    <3>2. CASE s = n
      <4>1. slab'[s].prev = p /\ k = q  BY <1>1, <1>2, <2>1, <3>2
      <4>2. levels[k].head # s  BY <1>2, <2>2, <3>2
      <4> QED  BY <2>3, <3>2, <4>1, <4>2
    <3>3. CASE s # slot /\ s # n
      <4>1. slab'[s].prev = slab[s].prev  BY <1>1, <2>1, <3>3
      <4>2. k = q /\ p = NoSlot => levels[k].head # s
        <5>1. p = NoSlot => levels[q].head = slot  BY <1>2, <1>3 DEF LinksConsistent
        <5> QED  BY <3>3, <5>1
      <4> QED  BY <2>2, <2>3, <3>3, <4>1, <4>2
    <3> QED  BY <3>1, <3>2, <3>3
  <2>8. slab'[s].next # NoSlot =>
          /\ slab'[s].next \in DOMAIN slab'
          /\ QueueOf(slab'[slab'[s].next].order) = k
          /\ slab'[slab'[s].next].prev = s
    <3>1. CASE s = t  BY <1>1, <1>2, <2>1, <3>1
    <3>2. CASE s = slot  BY <1>1, <1>2, <2>1, <3>2
    <3>3. CASE s = p  BY <1>1, <1>2, <2>1, <3>3
    <3>4. CASE s # t /\ s # slot /\ s # p
      <4>1. slab'[s].next = slab[s].next /\ slab[s].next # slot /\ slab[s].next # n
        BY <1>1, <2>1, <2>4, <2>5, <3>4
      <4> QED  BY <1>1, <2>2, <4>1
    <3> QED  BY <3>1, <3>2, <3>3, <3>4
  <2>9. slab'[s].prev # NoSlot =>
          /\ slab'[s].prev \in DOMAIN slab'
          /\ QueueOf(slab'[slab'[s].prev].order) = k
          /\ slab'[slab'[s].prev].next = s
    <3>1. CASE s = slot  BY <1>1, <1>2, <2>1, <3>1
    <3>2. CASE s = n  BY <1>1, <1>2, <2>1, <3>2
    <3>3. CASE s # slot /\ s # n
      <4>1. slab'[s].prev = slab[s].prev /\ slab[s].prev # slot
        BY <1>1, <2>1, <2>4, <3>3
      <4>2. slab[s].prev # NoSlot => slab[s].prev # p /\ slab[s].prev # t
        BY <1>2, <2>1, <2>2, <2>5, <3>3
      <4> QED  BY <1>1, <2>2, <4>1, <4>2
    <3> QED  BY <3>1, <3>2, <3>3
  <2> QED  BY <2>3, <2>6, <2>7, <2>8, <2>9
<1> QED  BY <1>4, <1>5 DEF LinksConsistent

\* Moving an order behind its level keeps the level one chain: the order is
\* stamped last.
LEMMA MoveKeepsChains ==
    ASSUME Inv, NEW id \in DOMAIN order_index, NEW new_qty \in Qty,
           GrowAndMove(id, new_qty),
           NEW slot, slot = order_index[id], NEW q, q = QueueOf(slab[slot].order),
           NEW p, p = slab[slot].prev, NEW n, n = slab[slot].next,
           NEW t, t = levels[q].tail, t # slot
    PROVE  ChainsAreStamped'
<1>1. /\ DOMAIN slab' = DOMAIN slab
      /\ \A s \in DOMAIN slab :
           /\ QueueOf(slab'[s].order) = QueueOf(slab[s].order)
           /\ slab'[s].next = IF s = t THEN slot
                              ELSE IF s = slot THEN NoSlot
                              ELSE IF s = p THEN n ELSE slab[s].next
           /\ slab'[s].prev = IF s = slot THEN t
                              ELSE IF s = n THEN p ELSE slab[s].prev
  BY MovedLinks
<1>2. /\ slot \in DOMAIN slab /\ NoSlot \notin DOMAIN slab
      /\ t \in DOMAIN slab /\ QueueOf(slab[t].order) = q /\ slab[t].next = NoSlot
      /\ n \in DOMAIN slab /\ QueueOf(slab[n].order) = q /\ slab[n].prev = slot
      /\ p # NoSlot =>
           p \in DOMAIN slab /\ QueueOf(slab[p].order) = q /\ slab[p].next = slot
      /\ n # slot /\ p # slot /\ n # p /\ p # t
  BY MovedLinks
<1>3. PICK bound \in Nat : \E stamp \in [DOMAIN slab -> Nat] :
        (\A s \in DOMAIN slab : stamp[s] < bound) /\ InTimeOrder(stamp)
  BY DEF Inv, ChainsAreStamped
<1>4. PICK stamp \in [DOMAIN slab -> Nat] :
        (\A s \in DOMAIN slab : stamp[s] < bound) /\ InTimeOrder(stamp)
  BY <1>3
<1>5. PICK new : new = [stamp EXCEPT ![slot] = bound]  OBVIOUS
<1>6. /\ new \in [DOMAIN slab' -> Nat] /\ new[slot] = bound
      /\ \A s \in DOMAIN slab : s # slot => new[s] = stamp[s]
      /\ \A s \in DOMAIN slab : stamp[s] \in Nat /\ stamp[s] < bound
      /\ bound + 1 \in Nat
      /\ \A s \in DOMAIN slab' : new[s] < bound + 1
  BY <1>1, <1>2, <1>4, <1>5
<1>7. \A r, s \in DOMAIN slab' : new[r] = new[s] => r = s
  BY <1>1, <1>4, <1>6 DEF InTimeOrder
<1>8. ASSUME NEW s \in DOMAIN slab', slab'[s].next # NoSlot
      PROVE  new[s] < new[slab'[s].next]
  <2>1. s \in DOMAIN slab  BY <1>1
  <2>2. CASE s = t  BY <1>1, <1>2, <1>6, <2>1, <2>2
  <2>3. CASE s = slot  BY <1>1, <1>2, <1>8, <2>3
  <2>4. CASE s = p /\ s # t
    <3>1. slab'[s].next = n  BY <1>1, <1>2, <2>1, <2>4
    <3>2. stamp[p] < stamp[slot] /\ stamp[slot] < stamp[n]
      BY <1>2, <1>4, <2>1, <2>4 DEF InTimeOrder
    <3>3. stamp[p] \in Nat /\ stamp[slot] \in Nat /\ stamp[n] \in Nat
      BY <1>2, <1>6, <2>1, <2>4
    <3>4. stamp[p] < stamp[n]  BY <3>2, <3>3
    <3> QED  BY <1>2, <1>6, <2>1, <2>4, <3>1, <3>4
  <2>5. CASE s # t /\ s # slot /\ s # p
    <3>1. slab'[s].next = slab[s].next  BY <1>1, <2>1, <2>5
    <3>2. slab[s].next \in DOMAIN slab /\ slab[slab[s].next].prev = s
      BY <1>8, <2>1, <3>1 DEF Inv, LinksConsistent
    <3>3. slab[s].next # slot  BY <2>5, <3>2
    <3>4. stamp[s] < stamp[slab[s].next]
      BY <1>4, <1>8, <2>1, <3>1 DEF InTimeOrder
    <3> QED  BY <1>6, <2>1, <2>5, <3>1, <3>2, <3>3, <3>4
  <2> QED  BY <2>2, <2>3, <2>4, <2>5
<1>9. ASSUME NEW r \in DOMAIN slab', NEW s \in DOMAIN slab',
             QueueOf(slab'[r].order) = QueueOf(slab'[s].order), new[r] < new[s]
      PROVE  /\ slab'[r].next # NoSlot /\ new[slab'[r].next] <= new[s]
             /\ slab'[s].prev # NoSlot /\ new[r] <= new[slab'[s].prev]
  <2>1. /\ r \in DOMAIN slab /\ s \in DOMAIN slab
        /\ QueueOf(slab[r].order) = QueueOf(slab[s].order)
    BY <1>1, <1>9
  <2>2. r # slot /\ new[r] = stamp[r]
    <3>1. ~(bound < new[s])  BY <1>3, <1>6, <2>1
    <3> QED  BY <1>6, <1>9, <2>1, <3>1
  <2>3. CASE s = slot
    <3>1. r = t \/ stamp[r] < stamp[t]
      <4>1. ~(stamp[t] < stamp[r])
        BY <1>2, <1>4, <2>1, <2>3 DEF InTimeOrder
      <4>2. r # t => stamp[r] # stamp[t]  BY <1>2, <1>4, <2>1 DEF InTimeOrder
      <4>3. stamp[r] \in Nat /\ stamp[t] \in Nat  BY <1>2, <1>6, <2>1
      <4> QED  BY <4>1, <4>2, <4>3
    <3>2. slab'[s].prev = t /\ t # NoSlot /\ new[t] = stamp[t]
      BY <1>1, <1>2, <1>6, <2>1, <2>3
    <3>3. new[r] <= new[t]
      <4>1. stamp[r] \in Nat /\ stamp[t] \in Nat  BY <1>2, <1>6, <2>1
      <4> QED  BY <2>2, <3>1, <3>2, <4>1
    <3>4. CASE r = t
      <4>1. slab'[r].next = slot /\ slot # NoSlot  BY <1>1, <1>2, <2>1, <3>4
      <4> QED  BY <1>3, <1>6, <2>3, <3>2, <3>3, <4>1
    <3>5. CASE r # t
      <4>1. slab[r].next # NoSlot
        BY <1>2, <1>4, <2>1, <2>3, <3>1, <3>5 DEF InTimeOrder
      <4>2. slab'[r].next = IF r = p THEN n ELSE slab[r].next
        BY <1>1, <2>1, <2>2, <3>5
      <4>3. slab'[r].next \in DOMAIN slab /\ slab'[r].next # NoSlot
        BY <1>2, <2>1, <4>1, <4>2 DEF Inv, LinksConsistent
      <4>4. new[slab'[r].next] <= bound
        <5>1. \A i \in DOMAIN slab : new[i] <= bound  BY <1>3, <1>6
        <5> QED  BY <4>3, <5>1
      <4> QED  BY <1>6, <2>3, <3>2, <3>3, <4>3, <4>4
    <3> QED  BY <3>4, <3>5
  <2>4. CASE s # slot
    <3>1. new[s] = stamp[s] /\ stamp[r] < stamp[s]  BY <1>6, <1>9, <2>1, <2>2, <2>4
    <3>2. /\ slab[r].next # NoSlot /\ stamp[slab[r].next] <= stamp[s]
          /\ slab[s].prev # NoSlot /\ stamp[r] <= stamp[slab[s].prev]
      BY <1>4, <2>1, <3>1 DEF InTimeOrder
    <3>3. /\ slab[r].next \in DOMAIN slab /\ slab[slab[r].next].prev = r
          /\ slab[s].prev \in DOMAIN slab /\ slab[slab[s].prev].next = s
      BY <2>1, <3>2 DEF Inv, LinksConsistent
    <3>4. r # t  BY <1>2, <3>2
    <3>5. slab'[r].next # NoSlot /\ new[slab'[r].next] <= new[s]
      <4>1. CASE r = p
        <5>1. slab[r].next = slot  BY <1>2, <2>1, <4>1
        <5>2. stamp[slot] < stamp[s]
          <6>1. stamp[slot] # stamp[s]  BY <1>2, <1>4, <2>1, <2>4 DEF InTimeOrder
          <6>2. stamp[slot] \in Nat /\ stamp[s] \in Nat  BY <1>2, <1>6, <2>1
          <6> QED  BY <3>2, <5>1, <6>1, <6>2
        <5>3. QueueOf(slab[slot].order) = QueueOf(slab[s].order)
          BY <1>2, <2>1, <4>1
        <5>4. stamp[n] <= stamp[s]
          BY <1>2, <1>4, <2>1, <5>2, <5>3 DEF InTimeOrder
        <5>5. slab'[r].next = n /\ n # NoSlot /\ new[n] = stamp[n]
          BY <1>1, <1>2, <1>6, <2>1, <2>2, <3>4, <4>1
        <5> QED  BY <3>1, <5>4, <5>5
      <4>2. CASE r # p
        <5>1. slab'[r].next = slab[r].next  BY <1>1, <2>1, <2>2, <3>4, <4>2
        <5>2. slab[r].next # slot  BY <3>3, <4>2
        <5> QED  BY <1>6, <3>1, <3>2, <3>3, <5>1, <5>2
      <4> QED  BY <4>1, <4>2
    <3>6. slab'[s].prev # NoSlot /\ new[r] <= new[slab'[s].prev]
      <4>1. CASE s = n
        <5>1. slab[s].prev = slot  BY <1>2, <2>1, <4>1
        <5>2. stamp[r] < stamp[slot]
          <6>1. stamp[slot] # stamp[r]  BY <1>2, <1>4, <2>1, <2>2 DEF InTimeOrder
          <6>2. stamp[slot] \in Nat /\ stamp[r] \in Nat  BY <1>2, <1>6, <2>1
          <6> QED  BY <3>2, <5>1, <6>1, <6>2
        <5>3. QueueOf(slab[slot].order) = QueueOf(slab[r].order)
          BY <1>2, <2>1, <4>1
        <5>4. p # NoSlot /\ stamp[r] <= stamp[p]
          BY <1>2, <1>4, <2>1, <5>2, <5>3 DEF InTimeOrder
        <5>5. slab'[s].prev = p /\ p # NoSlot /\ new[p] = stamp[p]
          BY <1>1, <1>2, <1>6, <2>1, <2>4, <4>1, <5>4
        <5> QED  BY <2>2, <5>4, <5>5
      <4>2. CASE s # n
        <5>1. slab'[s].prev = slab[s].prev  BY <1>1, <2>1, <2>4, <4>2
        <5>2. slab[s].prev # slot  BY <3>3, <4>2
        <5> QED  BY <1>6, <2>2, <3>2, <3>3, <5>1, <5>2
      <4> QED  BY <4>1, <4>2
    <3> QED  BY <3>5, <3>6
  <2> QED  BY <2>3, <2>4
<1>10. InTimeOrder(new)'
  BY <1>7, <1>8, <1>9 DEF InTimeOrder
<1> QED  BY <1>6, <1>10 DEF ChainsAreStamped

\* An increase that loses priority keeps the invariant.
LEMMA GrowAndMoveKeepsInv ==
    ASSUME Inv, NEW id \in DOMAIN order_index, NEW new_qty \in Qty \ {0},
           GrowAndMove(id, new_qty)
    PROVE  Inv'
<1>1. PICK slot, q, p, n, t :
        /\ slot = order_index[id] /\ q = QueueOf(slab[slot].order)
        /\ p = slab[slot].prev /\ n = slab[slot].next /\ t = levels[q].tail
  OBVIOUS
<1>2. /\ slab' \in [DOMAIN slab -> OrderNode]
      /\ levels' \in [DOMAIN levels -> Level]
      /\ \A s \in DOMAIN slab :
           /\ slab'[s].order.id = slab[s].order.id
           /\ slab'[s].order.wallet = slab[s].order.wallet
           /\ slab'[s].order.qty # 0
           /\ QueueOf(slab'[s].order) = QueueOf(slab[s].order)
  BY GrowAndMoveEffect DEF Inv, IndexExact
<1>3. \A k \in DOMAIN levels : levels'[k].order_count = levels[k].order_count
  BY GrowAndMoveEffect DEF Inv
<1>4. result' \in Result /\ UNCHANGED <<slab_len, free_list, order_index, wallet_index>>
  BY DEF GrowAndMove, Result
<1>5. TypeOK' /\ IndexExact' /\ FreeListExact' /\ LevelsExact' /\ WalletsExact'
  BY <1>2, <1>3, <1>4, ResizeKeepsRest
<1>6. LinksConsistent' /\ ChainsAreStamped'
  <2>1. CASE t = slot
    <3> DEFINE i == order_index[id]
               j == QueueOf(slab[i].order)
    <3>0. levels[j].tail = i  BY <1>1, <2>1
    <3>1. \A s \in DOMAIN slab :
            slab'[s].next = slab[s].next /\ slab'[s].prev = slab[s].prev
      BY <3>0, GrowAndMoveEffect DEF Inv
    <3>2. \A k \in DOMAIN levels :
            levels'[k].head = levels[k].head /\ levels'[k].tail = levels[k].tail
      <4>1. /\ \A k \in DOMAIN levels : k # j => levels'[k] = levels[k]
            /\ levels'[j].tail = i
            /\ levels'[j].head = levels[j].head
        BY <3>0, GrowAndMoveEffect DEF Inv
      <4> QED  BY <3>0, <4>1
    <3>3. DOMAIN slab' = DOMAIN slab /\ DOMAIN levels' = DOMAIN levels  BY <1>2
    <3> QED  BY <1>2, <3>1, <3>2, <3>3, SameLinks
  <2>2. CASE t # slot
    <3>1. new_qty \in Qty  OBVIOUS
    <3>2. LinksConsistent'  BY <1>1, <2>2, <3>1, MoveKeepsLinks
    <3>3. ChainsAreStamped'  BY <1>1, <2>2, <3>1, MoveKeepsChains
    <3> QED  BY <3>2, <3>3
  <2> QED  BY <2>1, <2>2
<1> QED  BY <1>5, <1>6 DEF Inv

-----------------------------------------------------------------------------
(* The invariant holds *)

\* A new book satisfies the invariant.
LEMMA InitEstablishesInv == Init => Inv
<1> SUFFICES ASSUME Init PROVE Inv  OBVIOUS
<1>1. /\ DOMAIN slab = {} /\ DOMAIN order_index = {} /\ DOMAIN levels = {}
      /\ DOMAIN wallet_index = {} /\ slab_len = 0 /\ free_list = <<>>
  BY DEF Init, EmptyMap
<1>2. TypeOK  BY <1>1 DEF TypeOK, Init, EmptyMap, Result
<1>3. IndexExact /\ LinksConsistent /\ LevelsExact /\ WalletsExact
  BY <1>1 DEF IndexExact, LinksConsistent, LevelsExact, WalletsExact
<1>4. FreeListExact
  <2>1. DOMAIN free_list = {} /\ 0 .. (slab_len - 1) = {}  BY <1>1
  <2> QED  BY <2>1 DEF FreeListExact
<1>5. ChainsAreStamped
  <2>1. EmptyMap \in [DOMAIN slab -> Nat]  BY <1>1 DEF EmptyMap
  <2>2. (\A s \in DOMAIN slab : EmptyMap[s] < 0) /\ InTimeOrder(EmptyMap)
    BY <1>1 DEF InTimeOrder
  <2> QED  BY <2>1, <2>2 DEF ChainsAreStamped
<1> QED  BY <1>2, <1>3, <1>4, <1>5 DEF Inv

\* A cleared book satisfies the invariant, whatever it held.
LEMMA ClearKeepsInv == clear => Inv'
<1> SUFFICES ASSUME clear PROVE Inv'  OBVIOUS
<1>1. /\ DOMAIN slab' = {} /\ DOMAIN order_index' = {} /\ DOMAIN levels' = {}
      /\ DOMAIN wallet_index' = {} /\ slab_len' = 0 /\ free_list' = <<>>
  BY DEF clear, EmptyMap
<1>2. TypeOK'  BY <1>1 DEF TypeOK, clear, EmptyMap, Result
<1>3. IndexExact' /\ LinksConsistent' /\ LevelsExact' /\ WalletsExact'
  BY <1>1 DEF IndexExact, LinksConsistent, LevelsExact, WalletsExact
<1>4. FreeListExact'
  <2>1. DOMAIN free_list' = {} /\ 0 .. (slab_len' - 1) = {}  BY <1>1
  <2> QED  BY <2>1 DEF FreeListExact
<1>5. ChainsAreStamped'
  <2>1. EmptyMap \in [DOMAIN slab' -> Nat]  BY <1>1 DEF EmptyMap
  <2>2. (\A s \in DOMAIN slab' : EmptyMap[s] < 0) /\ InTimeOrder(EmptyMap)'
    BY <1>1 DEF InTimeOrder
  <2> QED  BY <2>1, <2>2 DEF ChainsAreStamped
<1> QED  BY <1>2, <1>3, <1>4, <1>5 DEF Inv

\* A step that leaves the book alone keeps the invariant.
LEMMA SameBookKeepsInv ==
    ASSUME Inv, result' \in Result,
           UNCHANGED <<slab, slab_len, free_list, order_index, levels, wallet_index>>
    PROVE  Inv'
<1>1. TypeOK'  BY DEF Inv, TypeOK
<1>2. IndexExact' /\ FreeListExact'  BY DEF Inv, IndexExact, FreeListExact
<1>3. LinksConsistent' /\ ChainsAreStamped'  BY DOMAIN slab' = DOMAIN slab, SameLinks
<1>4. LevelsExact'  BY DEF Inv, LevelsExact, SlotsAt
<1>5. WalletsExact'  BY DEF Inv, WalletsExact, OwnedBy
<1> QED  BY <1>1, <1>2, <1>3, <1>4, <1>5 DEF Inv

\* A call that is refused keeps the invariant.
LEMMA FailKeepsInv ==
    ASSUME Inv, NEW error \in Result, Fail(error)
    PROVE  Inv'
BY SameBookKeepsInv DEF Fail

\* The successful path of add keeps the invariant.
LEMMA InsertKeepsInv ==
    ASSUME Inv, NEW order \in Order, order.qty # 0, ~Rests(order.id), InsertOrder(order)
    PROVE  Inv'
BY InsertKeepsType, InsertKeepsIndex, InsertKeepsFreeList, InsertKeepsLinks,
   InsertKeepsChains, InsertKeepsLevels, InsertKeepsWallets DEF Inv

\* The successful path of remove keeps the invariant.
LEMMA TakeOutKeepsInv ==
    ASSUME Inv, NEW id \in DOMAIN order_index, TakeOut(id)
    PROVE  Inv'
BY TakeOutKeepsType, TakeOutKeepsIndex, TakeOutKeepsFreeList, TakeOutKeepsLinks,
   TakeOutKeepsChains, TakeOutKeepsLevels, TakeOutKeepsWallets DEF Inv

\* Every public operation keeps the invariant: it is inductive.
LEMMA StepKeepsInv == Inv /\ [Next]_vars => Inv'
<1> SUFFICES ASSUME Inv, [Next]_vars PROVE Inv'  OBVIOUS
<1>1. {"Ok", "ZeroQty", "DuplicateOrderId", "UnknownOrderId", "NonDecreasingSize"}
        \subseteq Result
  BY DEF Result, BookError
<1>2. ASSUME NEW order \in Order, add(order) PROVE Inv'
  BY <1>1, <1>2, FailKeepsInv, InsertKeepsInv DEF add
<1>3. ASSUME NEW id \in OrderId, remove(id) PROVE Inv'
  BY <1>1, <1>3, FailKeepsInv, TakeOutKeepsInv DEF remove, Rests
<1>4. ASSUME NEW id \in OrderId, NEW new_qty \in Qty, update_size(id, new_qty) PROVE Inv'
  <2>1. CASE new_qty # 0 /\ Rests(id) /\ SetQty(id, new_qty)
    BY <2>1, SetQtyKeepsInv DEF Rests
  <2>2. CASE Rests(id) /\ TakeOut(id)  BY <2>2, TakeOutKeepsInv DEF Rests
  <2>3. CASE Fail("UnknownOrderId") \/ Fail("NonDecreasingSize")
    BY <1>1, <2>3, FailKeepsInv
  <2> QED  BY <1>4, <2>1, <2>2, <2>3 DEF update_size
<1>5. ASSUME NEW id \in OrderId, NEW new_qty \in Qty, NEW policy \in AmendPriorityPolicy,
             amend_size_with_policy(id, new_qty, policy)
      PROVE  Inv'
  <2>1. CASE remove(id)  BY <1>3, <2>1
  <2>2. CASE Fail("UnknownOrderId") \/ Fail("Ok")  BY <1>1, <2>2, FailKeepsInv
  <2>3. CASE new_qty # 0 /\ Rests(id) /\ SetQty(id, new_qty)
    BY <2>3, SetQtyKeepsInv DEF Rests
  <2>4. CASE new_qty # 0 /\ Rests(id) /\ GrowAndMove(id, new_qty)
    BY <2>4, GrowAndMoveKeepsInv DEF Rests
  <2> QED  BY <1>5, <2>1, <2>2, <2>3, <2>4 DEF amend_size_with_policy
<1>6. CASE clear  BY <1>6, ClearKeepsInv
<1>7. CASE UNCHANGED vars
  <2>1. result' \in Result  BY <1>7 DEF vars, Inv, TypeOK
  <2> QED  BY <1>7, <2>1, SameBookKeepsInv DEF vars
<1> QED  BY <1>2, <1>3, <1>4, <1>5, <1>6, <1>7 DEF Next

\* From a new book, no sequence of calls leaves the structures of the book out
\* of step with one another, for any ids, wallets, prices and width of Qty.
THEOREM BookIsConsistent == Spec => []Inv
BY InitEstablishesInv, StepKeepsInv, PTL DEF Spec

\* Every field keeps its type: no count goes negative, no total leaves u64.
THEOREM TypeCorrect == Spec => []TypeOK
BY BookIsConsistent, PTL DEF Inv

\* order_index and the slab name each other: the `expect`s of remove,
\* update_size, amend_size, queue_position and get (book.rs:352, 393, 408, 451, 459, 486)
\* never fail, and no resting order is empty.
THEOREM IndexIsExact == Spec => []IndexExact
BY BookIsConsistent, PTL DEF Inv

\* free_list is the vacant slots, each once: alloc_slot (book.rs:938-945)
\* neither overwrites a live order nor leaks a slot.
THEOREM ArenaLosesNoSlot == Spec => []FreeListExact
BY BookIsConsistent, PTL DEF Inv

\* next and prev are inverse on every level, stay on the level, and never reach
\* a freed slot (book.rs:1028-1069), whatever the sequence of calls.
THEOREM ListsAreConsistent == Spec => []LinksConsistent
BY BookIsConsistent, PTL DEF Inv

\* bids and asks hold a price exactly while an order rests there, with the
\* number of orders resting (book.rs:337-340, 369-371): best_bid and best_ask
\* never quote an empty price.
THEOREM LevelsCountTheirOrders == Spec => []LevelsExact
BY BookIsConsistent, PTL DEF Inv

\* wallet_index (book.rs:328-331, 373-378) is the owners of the resting orders, each
\* with the ids it owns.
THEOREM WalletsListTheirOrders == Spec => []WalletsExact
BY BookIsConsistent, PTL DEF Inv

-----------------------------------------------------------------------------
(* The chains, with stamps that do not pass slab_len *)


\* The slots of the slab are finitely many, no more than were pushed.
LEMMA SlabFinite ==
  ASSUME TypeOK
  PROVE  IsFiniteSet(DOMAIN slab) /\ Cardinality(DOMAIN slab) <= slab_len
         /\ Cardinality(DOMAIN slab) \in Nat
<1>1. PICK n \in Nat : n = slab_len  BY DEF TypeOK
<1>2. IsFiniteSet(0 .. (n - 1)) /\ Cardinality(0 .. (n - 1)) = n
  <2>1. /\ IsFiniteSet(0 .. (n - 1))
        /\ Cardinality(0 .. (n - 1)) = IF 0 > n - 1 THEN 0 ELSE (n - 1) - 0 + 1
    BY FS_Interval
  <2> QED  BY <2>1
<1>3. DOMAIN slab \in SUBSET (0 .. (n - 1))  BY <1>1 DEF TypeOK
<1>4. IsFiniteSet(DOMAIN slab) /\ Cardinality(DOMAIN slab) <= n  BY <1>2, <1>3, FS_Subset
<1> QED  BY <1>1, <1>4, FS_CardinalityType

\* A slot's rank: how many were stamped before it.
Before(stamp, s) == {t \in DOMAIN slab : stamp[t] < stamp[s]}

\* Ranks order the slots as the stamps do.
LEMMA RanksFollowStamps ==
  ASSUME TypeOK, NEW stamp \in [DOMAIN slab -> Nat],
         NEW rank, rank = [s \in DOMAIN slab |-> Cardinality(Before(stamp, s))]
  PROVE  /\ rank \in [DOMAIN slab -> 0 .. slab_len]
         /\ \A s, t \in DOMAIN slab : stamp[s] < stamp[t] <=> rank[s] < rank[t]
<1>1. ASSUME NEW s \in DOMAIN slab
      PROVE  /\ Before(stamp, s) \in SUBSET DOMAIN slab
             /\ IsFiniteSet(Before(stamp, s))
             /\ rank[s] = Cardinality(Before(stamp, s))
             /\ rank[s] \in 0 .. slab_len /\ rank[s] \in Nat
  <2>1. Before(stamp, s) \in SUBSET DOMAIN slab  BY DEF Before
  <2>2. /\ IsFiniteSet(Before(stamp, s))
        /\ Cardinality(Before(stamp, s)) <= Cardinality(DOMAIN slab)
    BY <2>1, SlabFinite, FS_Subset
  <2>3. Cardinality(Before(stamp, s)) \in Nat  BY <2>2, FS_CardinalityType
  <2>4. slab_len \in Nat  BY DEF TypeOK
  <2>5. Cardinality(Before(stamp, s)) \in 0 .. slab_len  BY <2>2, <2>3, <2>4, SlabFinite
  <2> QED  BY <2>1, <2>2, <2>3, <2>5
<1>2. ASSUME NEW s \in DOMAIN slab, NEW t \in DOMAIN slab, stamp[s] < stamp[t]
      PROVE  rank[s] < rank[t]
  <2>1. Before(stamp, s) \in SUBSET Before(stamp, t)
    <3>1. ASSUME NEW u \in Before(stamp, s) PROVE u \in Before(stamp, t)
      <4>1. u \in DOMAIN slab /\ stamp[u] < stamp[s]  BY DEF Before
      <4>2. stamp[u] \in Nat /\ stamp[s] \in Nat /\ stamp[t] \in Nat  BY <4>1
      <4>3. stamp[u] < stamp[t]  BY <1>2, <4>1, <4>2
      <4> QED  BY <4>1, <4>3 DEF Before
    <3> QED  BY <3>1
  <2>2. Before(stamp, s) # Before(stamp, t)
    <3>1. s \in Before(stamp, t)  BY <1>2 DEF Before
    <3>2. stamp[s] \in Nat  OBVIOUS
    <3>3. s \notin Before(stamp, s)  BY <3>2 DEF Before
    <3> QED  BY <3>1, <3>3
  <2>3. /\ Cardinality(Before(stamp, s)) <= Cardinality(Before(stamp, t))
        /\ Cardinality(Before(stamp, t)) # Cardinality(Before(stamp, s))
    BY <1>1, <2>1, <2>2, FS_Subset
  <2>4. /\ rank[s] = Cardinality(Before(stamp, s)) /\ rank[s] \in Nat
        /\ rank[t] = Cardinality(Before(stamp, t)) /\ rank[t] \in Nat
    BY <1>1
  <2> QED  BY <2>3, <2>4
<1>3. ASSUME NEW s \in DOMAIN slab, NEW t \in DOMAIN slab, rank[s] < rank[t]
      PROVE  stamp[s] < stamp[t]
  <2> SUFFICES ASSUME ~(stamp[s] < stamp[t]) PROVE FALSE  OBVIOUS
  <2>1. stamp[s] \in Nat /\ stamp[t] \in Nat /\ rank[s] \in Nat /\ rank[t] \in Nat
    BY <1>1
  <2>2. CASE stamp[t] < stamp[s]
    <3>1. rank[t] < rank[s]  BY <1>2, <2>2
    <3> QED  BY <1>3, <2>1, <3>1
  <2>3. CASE stamp[t] = stamp[s]
    <3>1. Before(stamp, s) = Before(stamp, t)  BY <2>3 DEF Before
    <3>2. rank[s] = rank[t]  BY <1>1, <3>1
    <3> QED  BY <1>3, <2>1, <3>2
  <2> QED  BY <2>1, <2>2, <2>3
<1>4. rank \in [DOMAIN slab -> 0 .. slab_len]  BY <1>1
<1> QED  BY <1>2, <1>3, <1>4

\* So the stamps need not pass slab_len.
LEMMA FewStampsAreEnough == Inv => LevelsAreChains
<1> SUFFICES ASSUME Inv PROVE LevelsAreChains  OBVIOUS
<1>0. TypeOK /\ LinksConsistent  BY DEF Inv
<1>1. PICK stamp \in [DOMAIN slab -> Nat] : InTimeOrder(stamp)
  BY DEF Inv, ChainsAreStamped
<1>2. PICK rank : rank = [s \in DOMAIN slab |-> Cardinality(Before(stamp, s))]  OBVIOUS
<1>3. rank \in [DOMAIN slab -> 0 .. slab_len]  BY <1>0, <1>2, RanksFollowStamps
<1>4. \A s, t \in DOMAIN slab : stamp[s] < stamp[t] <=> rank[s] < rank[t]
  BY <1>0, <1>2, RanksFollowStamps
<1>5. \A s \in DOMAIN slab : stamp[s] \in Nat /\ rank[s] \in Nat
  <2>1. slab_len \in Nat  BY <1>0 DEF TypeOK
  <2> QED  BY <1>3, <2>1
<1>6. ASSUME NEW s \in DOMAIN slab, NEW t \in DOMAIN slab
      PROVE  /\ rank[s] = rank[t] <=> stamp[s] = stamp[t]
             /\ rank[s] <= rank[t] <=> stamp[s] <= stamp[t]
  <2>1. /\ stamp[s] < stamp[t] <=> rank[s] < rank[t]
        /\ stamp[t] < stamp[s] <=> rank[t] < rank[s]
        /\ stamp[s] \in Nat /\ stamp[t] \in Nat /\ rank[s] \in Nat /\ rank[t] \in Nat
    BY <1>4, <1>5
  <2> QED  BY <2>1
<1>7. \A s, t \in DOMAIN slab : rank[s] = rank[t] => s = t
  BY <1>1, <1>6 DEF InTimeOrder
<1>8. \A s \in DOMAIN slab : slab[s].next # NoSlot => slab[s].next \in DOMAIN slab
  BY <1>0 DEF LinksConsistent
<1>9. \A s \in DOMAIN slab : slab[s].prev # NoSlot => slab[s].prev \in DOMAIN slab
  BY <1>0 DEF LinksConsistent
<1>10. \A s \in DOMAIN slab : slab[s].next # NoSlot => rank[s] < rank[slab[s].next]
  BY <1>1, <1>4, <1>8 DEF InTimeOrder
<1>11. ASSUME NEW s \in DOMAIN slab, NEW t \in DOMAIN slab,
              QueueOf(slab[s].order) = QueueOf(slab[t].order), rank[s] < rank[t]
       PROVE  /\ slab[s].next # NoSlot /\ rank[slab[s].next] <= rank[t]
              /\ slab[t].prev # NoSlot /\ rank[s] <= rank[slab[t].prev]
  <2>1. stamp[s] < stamp[t]  BY <1>4, <1>11
  <2>2. /\ slab[s].next # NoSlot /\ stamp[slab[s].next] <= stamp[t]
        /\ slab[t].prev # NoSlot /\ stamp[s] <= stamp[slab[t].prev]
    BY <1>1, <1>11, <2>1 DEF InTimeOrder
  <2> QED  BY <1>6, <1>8, <1>9, <2>2
<1>12. InTimeOrder(rank)  BY <1>7, <1>10, <1>11 DEF InTimeOrder
<1> QED  BY <1>3, <1>12 DEF LevelsAreChains

\* Every level is one chain through all its orders (link_tail, unlink and
\* move_to_tail, book.rs:1028-1069): no list closes on itself beside its level.
THEOREM ListsAreChains == Spec => []LevelsAreChains
<1>1. Spec => []Inv  BY BookIsConsistent
<1> QED  BY <1>1, FewStampsAreEnough, PTL

-----------------------------------------------------------------------------
(* Induction on numbers *)

Below == {pair \in Nat \X Nat : pair[1] < pair[2]}

\* A set of numbers that is not empty has a least one.
LEMMA LeastNumber ==
    ASSUME NEW T, T \subseteq Nat, T # {}
    PROVE  \E n \in T : \A m \in T : n <= m
<1>1. IsWellFoundedOn(Below, Nat)
  BY NatLessThanWellFounded DEF OpToRel, Below
<1>2. PICK n \in T : \A m \in T : ~(<<m, n>> \in Below)
  BY <1>1, WFMin
<1>3. ASSUME NEW m \in T PROVE n <= m
  <2>1. m \in Nat /\ n \in Nat  OBVIOUS
  <2>2. <<m, n>> \in Below <=> m < n  BY <2>1 DEF Below
  <2> QED  BY <1>2, <2>1, <2>2
<1> QED  BY <1>3

\* What is true of 0 and passes from every number to the next is true of all.
LEMMA NumbersByInduction ==
    ASSUME NEW S, 0 \in S, \A n \in Nat : n \in S => n + 1 \in S
    PROVE  Nat \subseteq S
<1> SUFFICES ASSUME Nat \ S # {} PROVE FALSE  OBVIOUS
<1>1. PICK n \in Nat \ S : \A m \in Nat \ S : n <= m  BY LeastNumber
<1>2. n # 0 /\ n - 1 \in Nat  BY <1>1
<1>3. n - 1 \in S  BY <1>1, <1>2
<1> QED  BY <1>1, <1>2, <1>3

-----------------------------------------------------------------------------
(* The walk *)

\* The walks of one step more, from those of `shorter` steps.
Longer(shorter) ==
    [slot \in Link |-> IF slot \notin DOMAIN slab THEN <<>>
                       ELSE <<slot>> \o shorter[slab[slot].next]]
NoWalk == [slot \in Link |-> <<>>]

\* The walks of up to n steps.
WalksUpTo(n, walks) ==
    /\ DOMAIN walks = 0 .. n
    /\ walks[0] = NoWalk
    /\ \A i \in 0 .. (n - 1) : walks[i + 1] = Longer(walks[i])

\* SlotsFrom is defined: the walks up to any number of steps exist and agree.
LEMMA SlotsFromUnfolds ==
    /\ SlotsFrom[0] = NoWalk
    /\ \A n \in Nat : SlotsFrom[n + 1] = Longer(SlotsFrom[n])
<1>1. \A n \in Nat : \E walks : WalksUpTo(n, walks)
  <2> DEFINE S == {n \in Nat : \E walks : WalksUpTo(n, walks)}
  <2>1. 0 \in S
    <3>1. WalksUpTo(0, [i \in 0 .. 0 |-> NoWalk])  BY DEF WalksUpTo
    <3> QED  BY <3>1
  <2>2. ASSUME NEW n \in Nat, n \in S PROVE n + 1 \in S
    <3>1. PICK walks : WalksUpTo(n, walks)  BY <2>2
    <3> DEFINE more == [i \in 0 .. (n + 1) |-> IF i = n + 1 THEN Longer(walks[n]) ELSE walks[i]]
    <3>2. \A i \in 0 .. n : i \in 0 .. (n + 1) /\ i # n + 1 /\ more[i] = walks[i]
      OBVIOUS
    <3>3. more[n + 1] = Longer(walks[n]) /\ more[n] = walks[n] /\ more[0] = walks[0]
      BY <3>2
    <3>4. ASSUME NEW i \in 0 .. ((n + 1) - 1) PROVE more[i + 1] = Longer(more[i])
      <4>1. CASE i = n  BY <3>3, <4>1
      <4>2. CASE i # n
        <5>1. i \in 0 .. (n - 1) /\ i \in 0 .. n /\ i + 1 \in 0 .. n  BY <4>2
        <5>2. more[i + 1] = walks[i + 1] /\ more[i] = walks[i]  BY <3>2, <5>1
        <5> QED  BY <3>1, <5>1, <5>2 DEF WalksUpTo
      <4> QED  BY <4>1, <4>2
    <3>5. DOMAIN more = 0 .. (n + 1)  OBVIOUS
    <3> HIDE DEF more
    <3>6. WalksUpTo(n + 1, more)  BY <3>1, <3>3, <3>4, <3>5 DEF WalksUpTo
    <3> QED  BY <3>6
  <2> HIDE DEF S
  <2>3. Nat \subseteq S  BY <2>1, <2>2, NumbersByInduction
  <2> QED  BY <2>3 DEF S
<1> DEFINE W(n) == CHOOSE walks : WalksUpTo(n, walks)
           f == [n \in Nat |-> W(n)[n]]
<1>2. \A n \in Nat : WalksUpTo(n, W(n))  BY <1>1
<1>3. ASSUME NEW n \in Nat
      PROVE  \A i \in Nat : i \in 0 .. n => W(n)[i] = W(n + 1)[i]
  <2> DEFINE S == {i \in Nat : i \in 0 .. n => W(n)[i] = W(n + 1)[i]}
  <2>1. WalksUpTo(n, W(n)) /\ WalksUpTo(n + 1, W(n + 1))  BY <1>2
  <2> HIDE DEF W
  <2>2. 0 \in S  BY <2>1 DEF WalksUpTo
  <2>3. ASSUME NEW i \in Nat, i \in S PROVE i + 1 \in S
    <3> SUFFICES ASSUME i + 1 \in 0 .. n PROVE W(n)[i + 1] = W(n + 1)[i + 1]
      OBVIOUS
    <3>1. i \in 0 .. (n - 1) /\ i \in 0 .. n /\ i \in 0 .. ((n + 1) - 1)  OBVIOUS
    <3>2. W(n)[i + 1] = Longer(W(n)[i])  BY <2>1, <3>1 DEF WalksUpTo
    <3>3. W(n + 1)[i + 1] = Longer(W(n + 1)[i])  BY <2>1, <3>1 DEF WalksUpTo
    <3> QED  BY <2>3, <3>1, <3>2, <3>3
  <2> HIDE DEF S
  <2>4. Nat \subseteq S  BY <2>2, <2>3, NumbersByInduction
  <2> QED  BY <2>4 DEF S
<1>4. f[0] = NoWalk /\ \A n \in Nat : f[n + 1] = Longer(f[n])
  <2>1. W(0)[0] = NoWalk  BY <1>2 DEF WalksUpTo
  <2>2. ASSUME NEW n \in Nat PROVE f[n + 1] = Longer(f[n])
    <3>1. WalksUpTo(n + 1, W(n + 1)) /\ W(n)[n] = W(n + 1)[n]  BY <1>2, <1>3
    <3> HIDE DEF W
    <3>2. n \in 0 .. ((n + 1) - 1)  OBVIOUS
    <3>3. W(n + 1)[n + 1] = Longer(W(n + 1)[n])  BY <3>1, <3>2 DEF WalksUpTo
    <3> QED  BY <3>1, <3>3
  <2> HIDE DEF W
  <2> QED  BY <2>1, <2>2
<1> HIDE DEF W
<1> DEFINE Defines(g) ==
             g = [fuel \in Nat |->
                   [slot \in Link |->
                      IF fuel = 0 \/ slot \notin DOMAIN slab THEN <<>>
                      ELSE <<slot>> \o g[fuel - 1][slab[slot].next]]]
<1>5. DOMAIN f = Nat /\ f = [n \in Nat |-> f[n]]  OBVIOUS
<1> HIDE DEF f
<1>6. Defines(f)
  <2>1. ASSUME NEW n \in Nat
        PROVE  f[n] = [slot \in Link |->
                         IF n = 0 \/ slot \notin DOMAIN slab THEN <<>>
                         ELSE <<slot>> \o f[n - 1][slab[slot].next]]
    <3>1. CASE n = 0  BY <1>4, <3>1 DEF NoWalk
    <3>2. CASE n # 0
      <4>1. n - 1 \in Nat /\ (n - 1) + 1 = n  BY <3>2
      <4>2. f[n] = Longer(f[n - 1])  BY <1>4, <4>1
      <4> QED  BY <3>2, <4>2 DEF Longer
    <3> QED  BY <3>1, <3>2
  <2> DEFINE D(n) == [slot \in Link |->
                         IF n = 0 \/ slot \notin DOMAIN slab THEN <<>>
                         ELSE <<slot>> \o f[n - 1][slab[slot].next]]
  <2>2. \A n \in Nat : f[n] = D(n)  BY <2>1
  <2> HIDE DEF D
  <2>3. f = [n \in Nat |-> D(n)]  BY <1>5, <2>2
  <2> QED  BY <2>3 DEF D
<1>7. Defines(SlotsFrom)
  <2>1. SlotsFrom = CHOOSE g : Defines(g)  BY DEF SlotsFrom
  <2> HIDE DEF Defines
  <2> QED  BY <1>6, <2>1
<1>8. SlotsFrom[0] = NoWalk  BY <1>7 DEF NoWalk
<1>9. ASSUME NEW n \in Nat PROVE SlotsFrom[n + 1] = Longer(SlotsFrom[n])
  <2>1. n + 1 \in Nat /\ n + 1 # 0 /\ (n + 1) - 1 = n  OBVIOUS
  <2>2. SlotsFrom[n + 1] = [slot \in Link |->
                         IF n + 1 = 0 \/ slot \notin DOMAIN slab THEN <<>>
                         ELSE <<slot>> \o SlotsFrom[(n + 1) - 1][slab[slot].next]]
    <3> HIDE DEF Defines
    <3>1. PICK m : m = n + 1  OBVIOUS
    <3>2. m \in Nat  BY <3>1
    <3>3. SlotsFrom[m] = [slot \in Link |->
                         IF m = 0 \/ slot \notin DOMAIN slab THEN <<>>
                         ELSE <<slot>> \o SlotsFrom[m - 1][slab[slot].next]]
      <4> USE DEF Defines
      <4> QED  BY ONLY <1>7, <3>2
    <3> QED  BY <3>1, <3>3
  <2> QED  BY <2>1, <2>2 DEF Longer
<1> QED  BY <1>8, <1>9

\* A slot before a walk.
LEMMA PrefixEffect ==
    ASSUME NEW S, NEW first \in S, NEW rest \in Seq(S),
           NEW w, w = <<first>> \o rest
    PROVE  /\ w \in Seq(S) /\ Len(rest) \in Nat /\ Len(w) = Len(rest) + 1
           /\ w[1] = first
           /\ \A i \in 1 .. Len(rest) : w[i + 1] = rest[i]
<1>1. <<first>> \in Seq(S) /\ Len(<<first>>) = 1 /\ <<first>>[1] = first  OBVIOUS
<1>2. Len(rest) \in Nat  OBVIOUS
<1>3. /\ w \in Seq(S) /\ Len(w) = 1 + Len(rest)
      /\ \A i \in 1 .. (1 + Len(rest)) : w[i] = IF i <= 1 THEN <<first>>[i] ELSE rest[i - 1]
  BY <1>1, ConcatProperties
<1>4. w[1] = first  BY <1>1, <1>2, <1>3
<1>5. ASSUME NEW i \in 1 .. Len(rest) PROVE w[i + 1] = rest[i]
  <2>1. i + 1 \in 1 .. (1 + Len(rest)) /\ ~(i + 1 <= 1) /\ (i + 1) - 1 = i  BY <1>2
  <2> QED  BY <1>3, <2>1
<1> QED  BY <1>2, <1>3, <1>4, <1>5

\* The walk of a list: from its head along next to the last slot.
Chain(nodes, head, w) ==
    /\ w \in Seq(DOMAIN nodes) /\ Len(w) # 0
    /\ w[1] = head
    /\ \A i \in 1 .. (Len(w) - 1) : nodes[w[i]].next = w[i + 1]
    /\ nodes[w[Len(w)]].next = NoSlot

\* Where one walk of a list goes another goes too.
LEMMA ChainsGoTogether ==
    ASSUME NEW nodes, NoSlot \notin DOMAIN nodes, NEW head, NEW v, NEW w,
           Chain(nodes, head, v), Chain(nodes, head, w)
    PROVE  Len(v) <= Len(w) /\ \A i \in 1 .. Len(v) : v[i] = w[i]
<1>1. /\ Len(v) \in Nat \ {0} /\ Len(w) \in Nat \ {0}
      /\ \A i \in 1 .. Len(v) : v[i] \in DOMAIN nodes
  BY LenProperties, ElementOfSeq DEF Chain
<1> DEFINE S == {i \in Nat : i \in 1 .. Len(v) => i \in 1 .. Len(w) /\ v[i] = w[i]}
<1>2. 0 \in S  OBVIOUS
<1>3. ASSUME NEW i \in Nat, i \in S PROVE i + 1 \in S
  <2> SUFFICES ASSUME i + 1 \in 1 .. Len(v)
               PROVE  i + 1 \in 1 .. Len(w) /\ v[i + 1] = w[i + 1]
    OBVIOUS
  <2>1. CASE i = 0  BY <1>1, <2>1 DEF Chain
  <2>2. CASE i # 0
    <3>1. i \in 1 .. Len(v) /\ i \in 1 .. (Len(v) - 1)  BY <1>1, <2>2
    <3>2. i \in 1 .. Len(w) /\ v[i] = w[i]  BY <1>3, <3>1
    <3>3. nodes[w[i]].next = v[i + 1] /\ v[i + 1] \in DOMAIN nodes
      BY <1>1, <3>1, <3>2 DEF Chain
    <3>4. i # Len(w)  BY <3>3 DEF Chain
    <3>5. i \in 1 .. (Len(w) - 1) /\ i + 1 \in 1 .. Len(w)  BY <1>1, <3>2, <3>4
    <3> QED  BY <3>3, <3>5 DEF Chain
  <2> QED  BY <2>1, <2>2
<1> HIDE DEF S
<1>4. Nat \subseteq S  BY <1>2, <1>3, NumbersByInduction
<1>5. \A i \in 1 .. Len(v) : i \in 1 .. Len(w) /\ v[i] = w[i]  BY <1>1, <1>4 DEF S
<1>6. Len(v) \in 1 .. Len(v)  BY <1>1
<1> QED  BY <1>1, <1>5, <1>6

\* A list has one walk.
LEMMA OneChain ==
    ASSUME NEW nodes, NoSlot \notin DOMAIN nodes, NEW head, NEW v, NEW w,
           Chain(nodes, head, v), Chain(nodes, head, w)
    PROVE  v = w
<1>1. v \in Seq(DOMAIN nodes) /\ w \in Seq(DOMAIN nodes)  BY DEF Chain
<1>2. Len(v) <= Len(w) /\ \A i \in 1 .. Len(v) : v[i] = w[i]  BY ChainsGoTogether
<1>3. Len(w) <= Len(v)  BY ChainsGoTogether
<1>4. Len(v) \in Nat /\ Len(w) \in Nat  BY <1>1, LenProperties
<1>5. Len(v) = Len(w)  BY <1>2, <1>3, <1>4
<1> QED  BY <1>1, <1>2, <1>5, SeqEqual

\* A walk of n + 1 steps stays on the level and stops early at its end only.
WalkSoFar(q, slot, fuel, w) ==
    /\ w \in Seq(SlotsAt(q)) /\ Len(w) \in 1 .. fuel /\ w[1] = slot
    /\ \A i \in 1 .. (Len(w) - 1) : slab[w[i]].next = w[i + 1]
    /\ Len(w) = fuel \/ slab[w[Len(w)]].next = NoSlot

\* A walk is a slot and the walk from the next one.
LEMMA WalkGrows ==
    ASSUME NEW q, NEW n \in Nat, NEW m, m = n + 1, NEW s \in SlotsAt(q),
           NEW rest \in Seq(SlotsAt(q)), Len(rest) <= n,
           rest # <<>> => rest[1] = slab[s].next,
           \A i \in 1 .. (Len(rest) - 1) : slab[rest[i]].next = rest[i + 1],
           \/ Len(rest) = n
           \/ rest = <<>> /\ slab[s].next = NoSlot
           \/ rest # <<>> /\ slab[rest[Len(rest)]].next = NoSlot,
           NEW w, w = <<s>> \o rest
    PROVE  WalkSoFar(q, s, m, w)
<1>2. /\ w \in Seq(SlotsAt(q)) /\ Len(rest) \in Nat /\ Len(w) = Len(rest) + 1
      /\ w[1] = s
      /\ \A i \in 1 .. Len(rest) : w[i + 1] = rest[i]
  BY PrefixEffect
<1>3. Len(rest) = 0 <=> rest = <<>>  BY EmptySeq
<1>4. ASSUME NEW i \in 1 .. (Len(w) - 1) PROVE slab[w[i]].next = w[i + 1]
  <2>1. CASE i = 1
    <3>1. rest # <<>> /\ 1 \in 1 .. Len(rest)  BY <1>2, <1>3
    <3> QED  BY <1>2, <2>1, <3>1
  <2>2. CASE i # 1
    <3>1. i - 1 \in 1 .. (Len(rest) - 1) /\ i - 1 \in 1 .. Len(rest) /\ i \in 1 .. Len(rest)
          /\ (i - 1) + 1 = i
      BY <1>2, <2>2
    <3>2. w[i] = rest[i - 1] /\ w[i + 1] = rest[i]  BY <1>2, <3>1
    <3> QED  BY <3>1, <3>2
  <2> QED  BY <2>1, <2>2
<1>5. Len(w) = m \/ slab[w[Len(w)]].next = NoSlot
  <2>1. CASE rest = <<>>
    <3>1. Len(w) = 1  BY <1>2, <1>3, <2>1
    <3> QED  BY <1>2, <1>3, <2>1, <3>1
  <2>2. CASE rest # <<>>
    <3>1. Len(rest) \in 1 .. Len(rest)  BY <1>2, <1>3, <2>2
    <3>2. w[Len(w)] = rest[Len(rest)]  BY <1>2, <3>1
    <3> QED  BY <1>2, <2>2, <3>2
  <2> QED  BY <2>1, <2>2
<1>6. Len(w) \in 1 .. m  BY <1>2
<1> QED  BY <1>2, <1>4, <1>5, <1>6 DEF WalkSoFar

\* SlotsFrom makes such a walk.
LEMMA WalksStayOnTheLevel ==
    ASSUME Inv, NEW q
    PROVE  \A n \in Nat : \A slot \in SlotsAt(q) :
               WalkSoFar(q, slot, n + 1, SlotsFrom[n + 1][slot])
<1>0. TypeOK /\ LinksConsistent  BY DEF Inv
<1>1. ASSUME NEW s \in SlotsAt(q)
      PROVE  /\ s \in DOMAIN slab /\ s \in Link /\ slab[s].next \in Link
             /\ slab[s].next # NoSlot =>
                  slab[s].next \in SlotsAt(q) /\ slab[s].next \in DOMAIN slab
  BY <1>0, SlotFacts DEF SlotsAt, LinksConsistent
<1>2. NoSlot \notin DOMAIN slab  BY <1>0, SlotFacts
<1>3. ASSUME NEW n \in Nat, NEW s \in SlotsAt(q)
      PROVE  SlotsFrom[n + 1][s] = <<s>> \o SlotsFrom[n][slab[s].next]
  BY <1>1, SlotsFromUnfolds DEF Longer
<1>4. ASSUME NEW n \in Nat PROVE SlotsFrom[n][NoSlot] = <<>>
  <2>0. NoSlot \in Link  BY NoSlotIsNoSlot
  <2>1. CASE n = 0  BY <2>0, <2>1, SlotsFromUnfolds DEF NoWalk
  <2>2. CASE n # 0
    <3>1. n - 1 \in Nat /\ (n - 1) + 1 = n  BY <2>2
    <3>2. SlotsFrom[n] = Longer(SlotsFrom[n - 1])  BY <3>1, SlotsFromUnfolds
    <3> QED  BY <1>2, <2>0, <3>2 DEF Longer
  <2> QED  BY <2>1, <2>2
<1> DEFINE S == {n \in Nat : \A slot \in SlotsAt(q) :
                     WalkSoFar(q, slot, n + 1, SlotsFrom[n + 1][slot])}
<1>5. ASSUME NEW n \in Nat, NEW m, m = n + 1, NEW s \in SlotsAt(q), NEW rest,
             rest = SlotsFrom[n][slab[s].next], rest = <<>>,
             n = 0 \/ slab[s].next = NoSlot, NEW w, w = SlotsFrom[m][s]
      PROVE  WalkSoFar(q, s, m, w)
  <2>1. w = <<s>> \o rest  BY <1>3, <1>5
  <2>2. rest \in Seq(SlotsAt(q)) /\ Len(rest) = 0 /\ Len(rest) <= n  BY <1>5
  <2>3. \A i \in 1 .. (Len(rest) - 1) : slab[rest[i]].next = rest[i + 1]  BY <2>2
  <2> QED  BY <1>5, <2>1, <2>2, <2>3, WalkGrows
<1>6. 0 \in S
  <2> SUFFICES ASSUME NEW s \in SlotsAt(q)
               PROVE  WalkSoFar(q, s, 0 + 1, SlotsFrom[0 + 1][s])
    OBVIOUS
  <2>1. SlotsFrom[0][slab[s].next] = <<>>  BY <1>1, SlotsFromUnfolds DEF NoWalk
  <2> QED  BY <1>5, <2>1
<1>7. ASSUME NEW n \in Nat, n \in S PROVE n + 1 \in S
  <2> SUFFICES ASSUME NEW s \in SlotsAt(q)
               PROVE  WalkSoFar(q, s, (n + 1) + 1, SlotsFrom[(n + 1) + 1][s])
    OBVIOUS
  <2>0. PICK m, t, rest, k, w :
          /\ m = n + 1 /\ t = slab[s].next /\ rest = SlotsFrom[m][t]
          /\ k = (n + 1) + 1 /\ w = SlotsFrom[k][s]
    OBVIOUS
  <2>1. m \in Nat /\ k = m + 1  BY <2>0
  <2>2. CASE t = NoSlot
    <3>1. rest = <<>>  BY <1>4, <2>0, <2>1, <2>2
    <3>2. WalkSoFar(q, s, k, w)
      <4> HIDE DEF S
      <4> QED  BY <1>5, <2>0, <2>1, <2>2, <3>1
    <3> QED  BY <2>0, <3>2
  <2>3. CASE t # NoSlot
    <3>1. WalkSoFar(q, t, m, rest)  BY <1>1, <1>7, <2>0, <2>3
    <3> HIDE DEF S
    <3>2. /\ rest \in Seq(SlotsAt(q)) /\ Len(rest) \in 1 .. m /\ rest[1] = t
          /\ \A i \in 1 .. (Len(rest) - 1) : slab[rest[i]].next = rest[i + 1]
          /\ Len(rest) = m \/ slab[rest[Len(rest)]].next = NoSlot
      BY <3>1 DEF WalkSoFar
    <3>3. rest # <<>> /\ Len(rest) <= m
      <4>1. Len(rest) # 0 /\ Len(rest) <= m  BY <2>1, <3>2
      <4> QED  BY <4>1
    <3>4. w = <<s>> \o rest  BY <1>3, <2>0, <2>1
    <3>5. WalkSoFar(q, s, k, w)  BY <2>0, <2>1, <3>2, <3>3, <3>4, WalkGrows
    <3> QED  BY <2>0, <3>5
  <2> QED  BY <2>2, <2>3
<1> HIDE DEF S
<1>8. Nat \subseteq S  BY <1>6, <1>7, NumbersByInduction
<1> QED  BY <1>8 DEF S

\* Along a walk the stamps rise.
LEMMA StampsRise ==
    ASSUME Inv, NEW stamp \in [DOMAIN slab -> Nat], InTimeOrder(stamp),
           NEW q, NEW s, NEW fuel \in Nat, NEW w, WalkSoFar(q, s, fuel, w)
    PROVE  \A i, j \in 1 .. Len(w) : i < j => stamp[w[i]] < stamp[w[j]]
<1>1. /\ Len(w) \in Nat
      /\ \A i \in 1 .. Len(w) : w[i] \in DOMAIN slab /\ stamp[w[i]] \in Nat
  <2>1. w \in Seq(SlotsAt(q))  BY DEF WalkSoFar
  <2>2. \A i \in 1 .. Len(w) : w[i] \in SlotsAt(q)  BY <2>1, ElementOfSeq
  <2> QED  BY <2>1, <2>2, LenProperties DEF SlotsAt
<1>2. NoSlot \notin DOMAIN slab  BY SlotFacts DEF Inv
<1> DEFINE S == {j \in Nat : \A i \in 1 .. Len(w) :
                    j \in 1 .. Len(w) /\ i < j => stamp[w[i]] < stamp[w[j]]}
<1>3. 0 \in S  OBVIOUS
<1>4. ASSUME NEW j \in Nat, j \in S PROVE j + 1 \in S
  <2> SUFFICES ASSUME NEW i \in 1 .. Len(w), j + 1 \in 1 .. Len(w), i < j + 1
               PROVE  stamp[w[i]] < stamp[w[j + 1]]
    OBVIOUS
  <2>1. j \in 1 .. Len(w) /\ j \in 1 .. (Len(w) - 1) /\ (i = j \/ i < j)  BY <1>1
  <2>2. slab[w[j]].next = w[j + 1]  BY <2>1 DEF WalkSoFar
  <2>3. stamp[w[j]] < stamp[w[j + 1]]  BY <1>1, <1>2, <2>1, <2>2 DEF InTimeOrder
  <2>4. i < j => stamp[w[i]] < stamp[w[j]]  BY <1>4, <2>1
  <2>5. stamp[w[i]] \in Nat /\ stamp[w[j]] \in Nat /\ stamp[w[j + 1]] \in Nat
    BY <1>1, <2>1
  <2> HIDE DEF S
  <2> QED  BY <2>1, <2>3, <2>4, <2>5
<1> HIDE DEF S
<1>5. Nat \subseteq S  BY <1>3, <1>4, NumbersByInduction
<1> QED  BY <1>1, <1>5 DEF S

\* Numbers below n that differ are no more than n.
LEMMA NoMoreThanSlots ==
    ASSUME NEW n \in Nat, NEW k \in Nat, NEW f \in [1 .. k -> 0 .. (n - 1)],
           \A i, j \in 1 .. k : f[i] = f[j] => i = j
    PROVE  k <= n
<1> SUFFICES ASSUME n < k PROVE FALSE  OBVIOUS
<1>1. IsFiniteSet(1 .. k) /\ Cardinality(1 .. k) = k
  <2>1. /\ IsFiniteSet(1 .. k)
        /\ Cardinality(1 .. k) = IF 1 > k THEN 0 ELSE k - 1 + 1
    BY FS_Interval
  <2> QED  BY <2>1
<1>2. IsFiniteSet(0 .. (n - 1)) /\ Cardinality(0 .. (n - 1)) = n
  <2>1. /\ IsFiniteSet(0 .. (n - 1))
        /\ Cardinality(0 .. (n - 1)) = IF 0 > n - 1 THEN 0 ELSE (n - 1) - 0 + 1
    BY FS_Interval
  <2> QED  BY <2>1
<1>3. Cardinality(0 .. (n - 1)) < Cardinality(1 .. k)  BY <1>1, <1>2
<1> QED  BY <1>1, <1>2, <1>3, FS_PigeonHole

\* What a walk of the level of q is.
WalkOf(q, w) ==
    /\ Chain(slab, levels[q].head, w)
    /\ w \in Seq(SlotsAt(q))
    /\ w[Len(w)] = levels[q].tail
    /\ \A i, j \in DOMAIN w : w[i] = w[j] => i = j
    /\ \A s \in SlotsAt(q) : \E i \in DOMAIN w : w[i] = s

\* The walk of every level follows its links from its head to its tail and
\* passes every order there once.
WalksAreComplete == \A q \in DOMAIN levels : WalkOf(q, SlotsOf(q))

\* In a book whose links are sound, the walk of a level is complete.
LEMMA WalkIsComplete ==
    ASSUME Inv, NEW q \in DOMAIN levels, NEW w, w = SlotsOf(q)
    PROVE  WalkOf(q, w)
<1>0. TypeOK /\ LinksConsistent  BY DEF Inv
<1>1. PICK stamp \in [DOMAIN slab -> Nat] : InTimeOrder(stamp)
  BY DEF Inv, ChainsAreStamped
<1>2. PICK head, n : head = levels[q].head /\ n = slab_len  OBVIOUS
<1>3. /\ n \in Nat /\ DOMAIN slab \subseteq 0 .. (n - 1)
      /\ NoSlot \notin DOMAIN slab
      /\ head \in SlotsAt(q) /\ slab[head].prev = NoSlot
  <2>1. head \in DOMAIN slab /\ QueueOf(slab[head].order) = q
    BY <1>0, <1>2 DEF LinksConsistent
  <2>2. slab[head].prev = NoSlot  BY <1>0, <1>2, <2>1 DEF LinksConsistent
  <2> QED  BY <1>0, <1>2, <2>1, <2>2, SlotFacts DEF SlotsAt, TypeOK
<1>4. WalkSoFar(q, head, n + 1, w)
  <2>1. w = SlotsFrom[n + 1][head]  BY <1>2 DEF SlotsOf
  <2> QED  BY <1>3, <2>1, WalksStayOnTheLevel
<1>5. /\ w \in Seq(SlotsAt(q)) /\ Len(w) \in Nat /\ Len(w) # 0 /\ w[1] = head
      /\ DOMAIN w = 1 .. Len(w)
      /\ \A i \in DOMAIN w : w[i] \in SlotsAt(q)
      /\ \A i \in 1 .. (Len(w) - 1) : slab[w[i]].next = w[i + 1]
      /\ Len(w) = n + 1 \/ slab[w[Len(w)]].next = NoSlot
  <2>1. w \in Seq(SlotsAt(q)) /\ Len(w) \in 1 .. (n + 1)  BY <1>4 DEF WalkSoFar
  <2>2. Len(w) \in Nat /\ Len(w) # 0  BY <1>3, <2>1
  <2>3. \A i \in 1 .. Len(w) : w[i] \in SlotsAt(q)  BY <2>1, ElementOfSeq
  <2> QED  BY <1>4, <2>1, <2>2, <2>3, LenProperties DEF WalkSoFar
<1>6. \A i \in DOMAIN w : w[i] \in DOMAIN slab /\ stamp[w[i]] \in Nat
  BY <1>5 DEF SlotsAt
<1>7. \A i, j \in DOMAIN w : i < j => stamp[w[i]] < stamp[w[j]]
  <2>1. n + 1 \in Nat  BY <1>3
  <2> QED  BY <1>1, <1>4, <1>5, <2>1, StampsRise
<1>8. \A i, j \in DOMAIN w : w[i] = w[j] => i = j
  <2> SUFFICES ASSUME NEW i \in DOMAIN w, NEW j \in DOMAIN w, w[i] = w[j], i # j
               PROVE  FALSE
    OBVIOUS
  <2>1. i < j \/ j < i  BY <1>5
  <2>2. ~(stamp[w[i]] < stamp[w[i]])  BY <1>6
  <2> QED  BY <1>7, <2>1, <2>2
<1>9. Len(w) <= n
  <2>1. w \in [1 .. Len(w) -> 0 .. (n - 1)]
    <3>1. w = [i \in 1 .. Len(w) |-> w[i]]  BY <1>5
    <3>2. \A i \in 1 .. Len(w) : w[i] \in 0 .. (n - 1)  BY <1>3, <1>5, <1>6
    <3> QED  BY <3>1, <3>2
  <2>2. \A i, j \in 1 .. Len(w) : w[i] = w[j] => i = j  BY <1>5, <1>8
  <2>3. Len(w) \in Nat  BY <1>5
  <2> QED  BY ONLY <1>3, <2>1, <2>2, <2>3, NoMoreThanSlots
<1>10. slab[w[Len(w)]].next = NoSlot
  <2>1. n \in Nat /\ Len(w) \in Nat  BY <1>3, <1>5
  <2>2. Len(w) # n + 1  BY ONLY <2>1, <1>9
  <2> QED  BY <1>5, <2>2
<1>11. Len(w) \in DOMAIN w /\ 1 \in DOMAIN w  BY <1>5
<1>12. w[Len(w)] = levels[q].tail
  <2>1. w[Len(w)] \in DOMAIN slab /\ QueueOf(slab[w[Len(w)]].order) = q
    BY <1>5, <1>11 DEF SlotsAt
  <2> QED  BY <1>0, <1>10, <2>1 DEF LinksConsistent
<1>13. Chain(slab, levels[q].head, w)
  <2>1. w \in Seq(DOMAIN slab)
    <3>1. \A i \in 1 .. Len(w) : w[i] \in DOMAIN slab  BY <1>5, <1>6
    <3> QED  BY <1>5, <3>1, IsASeq
  <2> QED  BY <1>2, <1>5, <1>10, <2>1 DEF Chain
<1>14. ASSUME NEW s \in SlotsAt(q) PROVE \E i \in DOMAIN w : w[i] = s
  <2> SUFFICES ASSUME \A i \in DOMAIN w : w[i] # s PROVE FALSE  OBVIOUS
  <2>1. /\ s \in DOMAIN slab /\ QueueOf(slab[s].order) = q /\ stamp[s] \in Nat
        /\ \A i \in DOMAIN w : QueueOf(slab[w[i]].order) = q /\ stamp[w[i]] # stamp[s]
    BY <1>1, <1>5, <1>6 DEF SlotsAt, InTimeOrder
  <2> DEFINE S == {i \in Nat : i \in DOMAIN w => stamp[w[i]] < stamp[s]}
  <2>2. 0 \in S  BY <1>5
  <2>3. ASSUME NEW i \in Nat, i \in S PROVE i + 1 \in S
    <3> SUFFICES ASSUME i + 1 \in DOMAIN w PROVE stamp[w[i + 1]] < stamp[s]
      OBVIOUS
    <3>1. CASE i = 0
      <4>1. ~(stamp[s] < stamp[head])
        BY <1>1, <1>3, <2>1 DEF InTimeOrder, SlotsAt
      <4>2. w[i + 1] = head /\ 1 \in DOMAIN w  BY <1>5, <1>11, <3>1
      <4> QED  BY <1>5, <1>6, <1>11, <2>1, <4>1, <4>2
    <3>2. CASE i # 0
      <4>1. i \in DOMAIN w /\ i \in 1 .. (Len(w) - 1)  BY <1>5, <3>2
      <4>2. stamp[w[i]] < stamp[s] /\ slab[w[i]].next = w[i + 1]
        BY <1>5, <2>3, <4>1
      <4>3. stamp[w[i + 1]] <= stamp[s]
        BY <1>1, <1>6, <2>1, <4>1, <4>2 DEF InTimeOrder
      <4> HIDE DEF S
      <4> QED  BY <1>6, <2>1, <4>3
    <3> QED  BY <3>1, <3>2
  <2> HIDE DEF S
  <2>4. Nat \subseteq S  BY <2>2, <2>3, NumbersByInduction
  <2>5. stamp[w[Len(w)]] < stamp[s]  BY <1>5, <1>11, <2>4 DEF S
  <2>6. slab[w[Len(w)]].next # NoSlot
    BY <1>1, <1>6, <1>11, <2>1, <2>5 DEF InTimeOrder
  <2> QED  BY <1>10, <2>6
<1> QED  BY <1>5, <1>8, <1>12, <1>13, <1>14 DEF WalkOf

\* After a step that keeps the invariant the walks are complete again.
LEMMA WalksStayComplete == Inv' => WalksAreComplete'
<1>1. Inv => WalksAreComplete  BY WalkIsComplete DEF WalksAreComplete
<1> QED  BY <1>1, PTL

\* In every reachable book the walk of every level is complete: what orders_at
\* yields is every order resting there, once.
THEOREM WalksAreAlwaysComplete == Spec => []WalksAreComplete
<1>1. Spec => []Inv  BY BookIsConsistent
<1>2. Inv => WalksAreComplete  BY WalkIsComplete DEF WalksAreComplete
<1> QED  BY <1>1, <1>2, PTL

-----------------------------------------------------------------------------
(* The sequences of PriorityBook *)

\* What a queue is left with when the order at one place leaves it.
LEMMA OneLess ==
  ASSUME NEW S, NEW s \in Seq(S), NEW i \in DOMAIN s,
         NEW r, r = Abstract!Lists!RemoveAt(s, i)
  PROVE  /\ r \in Seq(S)
         /\ Len(r) = Len(s) - 1
         /\ DOMAIN r = 1 .. (Len(s) - 1)
         /\ \A j \in 1 .. (Len(s) - 1) : r[j] = IF j < i THEN s[j] ELSE s[j + 1]
<1> DEFINE n == Len(s)
           a == SubSeq(s, 1, i - 1)
           b == SubSeq(s, i + 1, n)
<1>1. n \in Nat /\ DOMAIN s = 1 .. n /\ i \in 1 .. n /\ \A j \in 1 .. n : s[j] \in S
  BY LenProperties
<1>2. /\ a \in Seq(S) /\ Len(a) = i - 1
      /\ \A j \in 1 .. i - 1 : a[j] = s[j]
  <2>1. \A j \in 1 .. i - 1 : s[j] \in S /\ 1 + j - 1 = j /\ (i - 1) - 1 + 1 = i - 1
    BY <1>1
  <2>2. /\ a \in Seq(S) /\ Len(a) = IF 1 <= i - 1 THEN (i - 1) - 1 + 1 ELSE 0
        /\ \A j \in 1 .. (i - 1) - 1 + 1 : a[j] = s[1 + j - 1]
    BY <1>1, <2>1, SubSeqProperties
  <2> HIDE DEF a
  <2> QED  BY <1>1, <2>1, <2>2
<1>3. /\ b \in Seq(S) /\ Len(b) = n - i
      /\ \A j \in 1 .. n - i : b[j] = s[i + j]
  <2>1. \A j \in i + 1 .. n : s[j] \in S
    BY <1>1
  <2>2. /\ b \in Seq(S) /\ Len(b) = IF i + 1 <= n THEN n - (i + 1) + 1 ELSE 0
        /\ \A j \in 1 .. n - (i + 1) + 1 : b[j] = s[(i + 1) + j - 1]
    BY <1>1, <2>1, SubSeqProperties
  <2>3. /\ n - (i + 1) + 1 = n - i
        /\ (IF i + 1 <= n THEN n - (i + 1) + 1 ELSE 0) = n - i
        /\ \A j \in 1 .. n - i : (i + 1) + j - 1 = i + j
    BY <1>1
  <2> HIDE DEF b
  <2> QED  BY <2>2, <2>3
<1>4. r = a \o b  BY DEF Abstract!Lists!RemoveAt
<1> HIDE DEF a, b
<1>5. /\ r \in Seq(S) /\ Len(r) = Len(a) + Len(b)
      /\ \A j \in 1 .. Len(a) + Len(b) : r[j] = IF j <= Len(a) THEN a[j] ELSE b[j - Len(a)]
  <2>1. a \in Seq(S) /\ b \in Seq(S)  BY <1>2, <1>3
  <2> QED  BY ONLY <2>1, <1>4, ConcatProperties
<1>6. Len(a) = i - 1 /\ Len(a) + Len(b) = n - 1 /\ Len(r) = n - 1
  BY <1>1, <1>2, <1>3, <1>5
<1>7. ASSUME NEW j \in 1 .. n - 1
      PROVE  r[j] = IF j < i THEN s[j] ELSE s[j + 1]
  <2>1. CASE j < i
    <3>1. j \in 1 .. i - 1 /\ j \in 1 .. Len(a) + Len(b) /\ j <= Len(a)
      BY <1>1, <1>6, <2>1
    <3> QED  BY <1>2, <1>5, <2>1, <3>1
  <2>2. CASE ~ (j < i)
    <3>1. j - (i - 1) \in 1 .. n - i /\ i + (j - (i - 1)) = j + 1 /\ ~ (j <= i - 1)
      BY <1>1, <2>2
    <3>2. r[j] = b[j - (i - 1)]
      <4>1. j \in 1 .. Len(a) + Len(b) /\ ~ (j <= Len(a))  BY <1>6, <3>1
      <4>2. r[j] = b[j - Len(a)]  BY <1>5, <4>1
      <4> QED  BY <1>6, <4>2
    <3>3. b[j - (i - 1)] = s[j + 1]  BY <1>3, <3>1
    <3> QED  BY <2>2, <3>2, <3>3
  <2> QED  BY <2>1, <2>2
<1> QED  BY <1>5, <1>6, <1>7, LenProperties

-----------------------------------------------------------------------------

\* What a queue is when the order at one place goes behind the others.
Turned(S, s, i, last, r) ==
    /\ r \in Seq(S) /\ Len(r) = Len(s) /\ DOMAIN r = 1 .. Len(s)
    /\ \A j \in 1 .. (Len(s) - 1) : r[j] = IF j < i THEN s[j] ELSE s[j + 1]
    /\ r[Len(s)] = last

\* Removing the order at one place and appending it turns the queue so.
LEMMA OneLast ==
  ASSUME NEW S, NEW s \in Seq(S), NEW i \in DOMAIN s, NEW last \in S,
         NEW r, r = Append(Abstract!Lists!RemoveAt(s, i), last)
  PROVE  Turned(S, s, i, last, r)
<1>1. PICK t : t = Abstract!Lists!RemoveAt(s, i)  OBVIOUS
<1>2. /\ t \in Seq(S)
      /\ Len(t) = Len(s) - 1
      /\ \A j \in 1 .. (Len(s) - 1) : t[j] = IF j < i THEN s[j] ELSE s[j + 1]
  BY <1>1, OneLess
<1>3. Len(s) \in Nat /\ Len(t) \in Nat  BY <1>2, LenProperties
<1>4. r = Append(t, last)  BY <1>1
<1>5. /\ r \in Seq(S) /\ Len(r) = Len(t) + 1
      /\ \A j \in 1 .. Len(t) : r[j] = t[j]
      /\ r[Len(t) + 1] = last
  BY ONLY <1>2, <1>4, AppendProperties, last \in S
<1>6. Len(r) = Len(s) /\ Len(t) + 1 = Len(s)  BY <1>2, <1>3, <1>5
<1>7. DOMAIN r = 1 .. Len(s)  BY <1>5, <1>6, LenProperties
<1> QED  BY <1>2, <1>5, <1>6, <1>7 DEF Turned

\* A book of PriorityBook in which an id rests once at most.
OneQueuePerId(b) ==
    /\ b \in [Queue -> Seq(Order)]
    /\ \A k, l \in Queue : \A i \in DOMAIN b[k], j \in DOMAIN b[l] :
         /\ QueueOf(b[k][i]) = k
         /\ b[k][i].id = b[l][j].id => k = l /\ i = j

\* In such a book the place where an id is found is the place it rests at.
LEMMA FoundWhereItRests ==
  ASSUME NEW b, OneQueuePerId(b), NEW k \in Queue, NEW i \in DOMAIN b[k],
         NEW id, id = b[k][i].id
  PROVE  /\ id \in Abstract!RestingIds(b)
         /\ Abstract!HomeOf(b, id) = k
         /\ Abstract!PlaceIn(b[k], id) = i
         /\ Abstract!get(b, id) = b[k][i]
<1>1. DOMAIN b = Queue  BY DEF OneQueuePerId
<1>2. id \in Abstract!Ids(b[k])  BY DEF Abstract!Ids
<1>3. id \in Abstract!RestingIds(b)  BY <1>1, <1>2 DEF Abstract!RestingIds
<1>4. \A l \in Queue : id \in Abstract!Ids(b[l]) => l = k
  BY DEF Abstract!Ids, OneQueuePerId
<1>5. Abstract!HomeOf(b, id) = k
  BY <1>1, <1>2, <1>4 DEF Abstract!HomeOf
<1>6. \A j \in DOMAIN b[k] : b[k][j].id = id => j = i
  BY DEF OneQueuePerId
<1>7. Abstract!PlaceIn(b[k], id) = i  BY <1>6 DEF Abstract!PlaceIn
<1>8. Abstract!get(b, id) = b[k][i]  BY <1>5, <1>7 DEF Abstract!get
<1> QED  BY <1>3, <1>5, <1>7, <1>8

-----------------------------------------------------------------------------
(* The queues that the walks show *)

Shown == [q \in Queue |-> orders_at(q)]

\* What a walk passes: the slots of its queue, each once.
Passes(q, w) ==
    /\ w \in Seq(SlotsAt(q)) /\ Len(w) \in Nat /\ DOMAIN w = 1 .. Len(w)
    /\ \A i \in DOMAIN w : w[i] \in DOMAIN slab /\ QueueOf(slab[w[i]].order) = q
    /\ \A i, j \in DOMAIN w : w[i] = w[j] => i = j
    /\ \A s \in DOMAIN slab : QueueOf(slab[s].order) = q => \E i \in DOMAIN w : w[i] = s
    /\ q \notin DOMAIN levels => w = <<>>

\* The walk of a queue passes its slots.
LEMMA SlotsPassed ==
  ASSUME Inv, NEW q \in Queue, NEW w, w = SlotsOf(q)
  PROVE  Passes(q, w)
<1>1. /\ w \in Seq(SlotsAt(q))
      /\ \A i, j \in DOMAIN w : w[i] = w[j] => i = j
      /\ \A s \in SlotsAt(q) : \E i \in DOMAIN w : w[i] = s
      /\ q \notin DOMAIN levels => w = <<>>
  <2>1. CASE q \in DOMAIN levels  BY <2>1, WalkIsComplete DEF WalkOf
  <2>2. CASE q \notin DOMAIN levels
    <3>1. w = <<>>  BY <2>2 DEF SlotsOf
    <3>2. SlotsAt(q) = {}  BY <2>2 DEF Inv, LevelsExact, SlotsAt
    <3>3. w \in Seq(SlotsAt(q)) /\ DOMAIN w = {}  BY <3>1
    <3> QED  BY <2>2, <3>1, <3>2, <3>3
  <2> QED  BY <2>1, <2>2
<1>2. Len(w) \in Nat /\ DOMAIN w = 1 .. Len(w) /\ \A i \in DOMAIN w : w[i] \in SlotsAt(q)
  <2>1. Len(w) \in Nat /\ DOMAIN w = 1 .. Len(w)  BY <1>1, LenProperties
  <2>2. \A i \in 1 .. Len(w) : w[i] \in SlotsAt(q)  BY <1>1, ElementOfSeq
  <2> QED  BY <2>1, <2>2
<1>3. \A i \in DOMAIN w : w[i] \in DOMAIN slab /\ QueueOf(slab[w[i]].order) = q
                          /\ slab[w[i]].order \in Order
  BY <1>2, SlotFacts DEF Inv, SlotsAt
<1>9. \A s \in DOMAIN slab : QueueOf(slab[s].order) = q => \E i \in DOMAIN w : w[i] = s
  BY <1>1 DEF SlotsAt
<1> QED  BY <1>1, <1>2, <1>3, <1>9 DEF Passes

\* The queue of a price is the orders of its slots, in the order of the walk.
LEMMA ShownQueues ==
  ASSUME Inv, NEW q \in Queue, NEW w, w = SlotsOf(q)
  PROVE  /\ w \in Seq(SlotsAt(q)) /\ Len(w) \in Nat /\ DOMAIN w = 1 .. Len(w)
         /\ \A i \in DOMAIN w : w[i] \in DOMAIN slab /\ QueueOf(slab[w[i]].order) = q
         /\ \A i, j \in DOMAIN w : w[i] = w[j] => i = j
         /\ \A s \in DOMAIN slab : QueueOf(slab[s].order) = q => \E i \in DOMAIN w : w[i] = s
         /\ Shown[q] = [i \in DOMAIN w |-> slab[w[i]].order]
         /\ Shown[q] \in Seq(Order) /\ DOMAIN Shown[q] = DOMAIN w /\ Len(Shown[q]) = Len(w)
         /\ q \notin DOMAIN levels => w = <<>>
<1>1. Passes(q, w)  BY SlotsPassed
<1>2. w \in Seq(SlotsAt(q)) /\ Len(w) \in Nat /\ DOMAIN w = 1 .. Len(w)
  BY <1>1 DEF Passes
<1>3. \A i \in DOMAIN w : w[i] \in DOMAIN slab /\ QueueOf(slab[w[i]].order) = q
                          /\ slab[w[i]].order \in Order
  BY <1>1, SlotFacts DEF Inv, Passes
<1>4. Shown[q] = [i \in DOMAIN w |-> slab[w[i]].order]  BY DEF Shown, orders_at
<1>5. PICK row : row = Shown[q]  OBVIOUS
<1>6. row \in [1 .. Len(w) -> Order]
  BY <1>2, <1>3, <1>4, <1>5
<1>7. row \in Seq(Order)  BY <1>2, <1>6, SeqDef
<1>8. DOMAIN row = 1 .. Len(w) /\ Len(row) = Len(w)
  <2>1. DOMAIN row = 1 .. Len(w)  BY <1>6
  <2>2. Len(row) \in Nat /\ DOMAIN row = 1 .. Len(row)  BY <1>7, LenProperties
  <2> QED  BY <1>2, <2>1, <2>2
<1> QED  BY <1>1, <1>2, <1>3, <1>4, <1>5, <1>7, <1>8 DEF Passes

\* No id is shown twice.
LEMMA ShownOnce == Inv => OneQueuePerId(Shown)
<1> SUFFICES ASSUME Inv PROVE OneQueuePerId(Shown)  OBVIOUS
<1>1. ASSUME NEW q \in Queue
      PROVE  Shown[q] \in Seq(Order)
  <2>1. PICK w : w = SlotsOf(q)  OBVIOUS
  <2> QED  BY <2>1, ShownQueues
<1>2. Shown \in [Queue -> Seq(Order)]
  <2>1. Shown = [q \in Queue |-> Shown[q]]  BY DEF Shown
  <2> QED  BY <1>1, <2>1
<1>3. ASSUME NEW k \in Queue, NEW l \in Queue, NEW i \in DOMAIN Shown[k], NEW j \in DOMAIN Shown[l]
      PROVE  /\ QueueOf(Shown[k][i]) = k
             /\ Shown[k][i].id = Shown[l][j].id => k = l /\ i = j
  <2>1. PICK v, w : v = SlotsOf(k) /\ w = SlotsOf(l)  OBVIOUS
  <2>2. /\ i \in DOMAIN v /\ v[i] \in DOMAIN slab /\ QueueOf(slab[v[i]].order) = k
        /\ Shown[k][i] = slab[v[i]].order
        /\ \A h, g \in DOMAIN v : v[h] = v[g] => h = g
    <3>1. /\ DOMAIN Shown[k] = DOMAIN v /\ Shown[k] = [h \in DOMAIN v |-> slab[v[h]].order]
          /\ \A h \in DOMAIN v : v[h] \in DOMAIN slab /\ QueueOf(slab[v[h]].order) = k
          /\ \A h, g \in DOMAIN v : v[h] = v[g] => h = g
      BY <2>1, ShownQueues
    <3>2. i \in DOMAIN v  BY <3>1
    <3> QED  BY <3>1, <3>2
  <2>3. /\ j \in DOMAIN w /\ w[j] \in DOMAIN slab /\ QueueOf(slab[w[j]].order) = l
        /\ Shown[l][j] = slab[w[j]].order
    <3>1. /\ DOMAIN Shown[l] = DOMAIN w /\ Shown[l] = [h \in DOMAIN w |-> slab[w[h]].order]
          /\ \A h \in DOMAIN w : w[h] \in DOMAIN slab /\ QueueOf(slab[w[h]].order) = l
      BY <2>1, ShownQueues
    <3>2. j \in DOMAIN w  BY <3>1
    <3> QED  BY <3>1, <3>2
  <2>4. slab[v[i]].order.id = slab[w[j]].order.id => v[i] = w[j]
    BY <2>2, <2>3 DEF Inv, IndexExact
  <2> QED  BY <2>1, <2>2, <2>3, <2>4
<1> QED  BY <1>2, <1>3 DEF OneQueuePerId

\* order_index finds an id where the walks show it.
LEMMA ShownPlace ==
  ASSUME Inv, NEW id \in DOMAIN order_index, NEW slot, slot = order_index[id],
         NEW q, q = QueueOf(slab[slot].order), NEW w, w = SlotsOf(q)
  PROVE  /\ q \in Queue /\ slot \in DOMAIN slab /\ slab[slot].order.id = id
         /\ id \in Abstract!RestingIds(Shown)
         /\ Abstract!get(Shown, id) = slab[slot].order
         /\ \E i \in DOMAIN w :
              /\ w[i] = slot /\ i \in DOMAIN Shown[q] /\ Shown[q][i].id = id
              /\ Abstract!HomeOf(Shown, id) = q
              /\ Abstract!PlaceIn(Shown[q], id) = i
<1>1. slot \in DOMAIN slab /\ slab[slot].order.id = id /\ q \in Queue
  BY SlotFacts DEF Inv, IndexExact
<1>2. /\ \E i \in DOMAIN w : w[i] = slot
      /\ Shown[q] = [i \in DOMAIN w |-> slab[w[i]].order]
  BY <1>1, ShownQueues
<1>3. PICK i \in DOMAIN w : w[i] = slot  BY <1>2
<1>4. i \in DOMAIN Shown[q] /\ Shown[q][i] = slab[slot].order  BY <1>2, <1>3
<1>5. OneQueuePerId(Shown)  BY ShownOnce
<1> QED  BY <1>1, <1>3, <1>4, <1>5, FoundWhereItRests

\* The ids shown are those of order_index.
LEMMA ShownIds ==
  ASSUME Inv, NEW id
  PROVE  id \in Abstract!RestingIds(Shown) <=> id \in DOMAIN order_index
<1>1. ASSUME id \in DOMAIN order_index PROVE id \in Abstract!RestingIds(Shown)
  <2>1. PICK slot, q, w : slot = order_index[id] /\ q = QueueOf(slab[slot].order) /\ w = SlotsOf(q)
    OBVIOUS
  <2> QED  BY <1>1, <2>1, ShownPlace
<1>2. ASSUME id \in Abstract!RestingIds(Shown) PROVE id \in DOMAIN order_index
  <2>1. DOMAIN Shown = Queue  BY DEF Shown
  <2>2. PICK q \in Queue : id \in Abstract!Ids(Shown[q])
    BY <1>2, <2>1 DEF Abstract!RestingIds
  <2>3. PICK i \in DOMAIN Shown[q] : Shown[q][i].id = id  BY <2>2 DEF Abstract!Ids
  <2>4. PICK w : w = SlotsOf(q)  OBVIOUS
  <2>5. i \in DOMAIN w /\ w[i] \in DOMAIN slab /\ Shown[q][i] = slab[w[i]].order
    <3>1. /\ DOMAIN Shown[q] = DOMAIN w /\ Shown[q] = [h \in DOMAIN w |-> slab[w[h]].order]
          /\ \A h \in DOMAIN w : w[h] \in DOMAIN slab
      BY <2>4, ShownQueues
    <3>2. i \in DOMAIN w  BY <2>3, <3>1
    <3> QED  BY <3>1, <3>2
  <2> QED  BY <2>3, <2>5 DEF Inv, IndexExact
<1> QED  BY <1>1, <1>2

-----------------------------------------------------------------------------
(* The walks after a step *)

\* A walk of a level after a step is the walk of that level.
LEMMA NewWalk ==
  ASSUME Inv', NEW k \in DOMAIN levels', NEW w, Chain(slab', levels'[k].head, w)
  PROVE  SlotsOf(k)' = w
<1>1. NoSlot \notin DOMAIN slab'
  BY NoSlotAssumption DEF Inv, TypeOK
<1>2. Chain(slab', levels'[k].head, SlotsOf(k)')
  BY WalksStayComplete DEF WalksAreComplete, WalkOf
<1> QED  BY <1>1, <1>2, OneChain

\* A level whose head and links stay keeps its walk.
LEMMA WalkKept ==
  ASSUME Inv, Inv', NEW k \in Queue,
         k \in DOMAIN levels' <=> k \in DOMAIN levels,
         k \in DOMAIN levels => levels'[k].head = levels[k].head,
         \A s \in DOMAIN slab : QueueOf(slab[s].order) = k =>
             s \in DOMAIN slab' /\ slab'[s].next = slab[s].next
  PROVE  SlotsOf(k)' = SlotsOf(k)
<1>1. CASE k \notin DOMAIN levels  BY <1>1 DEF SlotsOf
<1>2. CASE k \in DOMAIN levels
  <2>1. PICK w : w = SlotsOf(k)  OBVIOUS
  <2>2. /\ Len(w) \in Nat /\ DOMAIN w = 1 .. Len(w)
        /\ \A i \in DOMAIN w : w[i] \in DOMAIN slab /\ QueueOf(slab[w[i]].order) = k
    BY <2>1, SlotsPassed DEF Passes
  <2>3. Chain(slab, levels[k].head, w)  BY <1>2, <2>1, WalkIsComplete DEF WalkOf
  <2>4. /\ w \in Seq(DOMAIN slab) /\ Len(w) # 0 /\ w[1] = levels[k].head
        /\ \A i \in 1 .. (Len(w) - 1) : slab[w[i]].next = w[i + 1]
        /\ slab[w[Len(w)]].next = NoSlot
    BY <2>3 DEF Chain
  <2>5. \A i \in DOMAIN w : w[i] \in DOMAIN slab' /\ slab'[w[i]].next = slab[w[i]].next
    BY <2>2
  <2>6. \A i \in 1 .. (Len(w) - 1) : i \in DOMAIN w  BY <2>2
  <2>7. Len(w) \in DOMAIN w  BY <2>2, <2>4
  <2>8. w \in Seq(DOMAIN slab')
    <3>1. \A i \in 1 .. Len(w) : w[i] \in DOMAIN slab'  BY <2>2, <2>5
    <3>2. w = [i \in 1 .. Len(w) |-> w[i]]  BY <2>2, <2>4
    <3> QED  BY <2>2, <3>1, <3>2, IsASeq
  <2>9. Chain(slab', levels'[k].head, w)
    BY <1>2, <2>4, <2>5, <2>6, <2>7, <2>8 DEF Chain
  <2> QED  BY <1>2, <2>1, <2>9, NewWalk
<1> QED  BY <1>1, <1>2

\* A level whose orders stay as they are, too, shows the same queue.
LEMMA QueueKept ==
  ASSUME Inv, Inv', NEW k \in Queue,
         k \in DOMAIN levels' <=> k \in DOMAIN levels,
         k \in DOMAIN levels => levels'[k].head = levels[k].head,
         \A s \in DOMAIN slab : QueueOf(slab[s].order) = k =>
             /\ s \in DOMAIN slab' /\ slab'[s].next = slab[s].next
             /\ slab'[s].order = slab[s].order
  PROVE  Shown'[k] = Shown[k]
<1>1. PICK w : w = SlotsOf(k)  OBVIOUS
<1>2. SlotsOf(k)' = w  BY <1>1, WalkKept
<1>3. /\ \A i \in DOMAIN w : w[i] \in DOMAIN slab /\ QueueOf(slab[w[i]].order) = k
      /\ Shown[k] = [i \in DOMAIN w |-> slab[w[i]].order]
  BY <1>1, ShownQueues
<1>4. Shown'[k] = [i \in DOMAIN w |-> slab'[w[i]].order]
  BY <1>2 DEF Shown, orders_at
<1> QED  BY <1>3, <1>4

\* The new order is last on the walk of its level (book.rs:324-341).
LEMMA InsertExtendsWalk ==
  ASSUME Inv, Inv', NEW order \in Order, InsertOrder(order),
         NEW q, q = QueueOf(order), NEW f, f = FreshSlot, NEW w, w = SlotsOf(q)
  PROVE  SlotsOf(q)' = Append(w, f)
<1>0. q \in Queue  BY QueueOfType
<1>1. /\ DOMAIN slab' = DOMAIN slab \cup {f}
      /\ \A s \in DOMAIN slab :
           /\ slab'[s].next = IF s = TailAt(q) THEN f ELSE slab[s].next
      /\ slab'[f].next = NoSlot
      /\ q \in DOMAIN levels'
      /\ levels'[q].head = IF HeadAt(q) = NoSlot THEN f ELSE HeadAt(q)
  BY InsertEffect DEF Inv
<1>2. /\ Len(w) \in Nat /\ DOMAIN w = 1 .. Len(w)
      /\ \A i \in DOMAIN w : w[i] \in DOMAIN slab
      /\ \A i, j \in DOMAIN w : w[i] = w[j] => i = j
      /\ q \notin DOMAIN levels => w = <<>>
  BY <1>0, SlotsPassed DEF Passes
<1>3. w \in Seq(DOMAIN slab')
  <2>1. w \in Seq(SlotsAt(q))  BY <1>0, SlotsPassed DEF Passes
  <2>2. w = [i \in 1 .. Len(w) |-> w[i]]  BY <1>2, <2>1
  <2>3. \A i \in 1 .. Len(w) : w[i] \in DOMAIN slab'  BY <1>1, <1>2
  <2> QED  BY <1>2, <2>2, <2>3, IsASeq
<1>4. PICK v : v = Append(w, f)  OBVIOUS
<1>5. /\ v \in Seq(DOMAIN slab') /\ Len(v) = Len(w) + 1
      /\ \A i \in 1 .. Len(w) : v[i] = w[i]
      /\ v[Len(w) + 1] = f
  <2>1. f \in DOMAIN slab'  BY <1>1
  <2> QED  BY ONLY <1>3, <1>4, <2>1, AppendProperties
<1>6. CASE q \notin DOMAIN levels
  <2>1. Len(w) = 0 /\ HeadAt(q) = NoSlot  BY <1>2, <1>6 DEF HeadAt
  <2>2. Len(v) = 1 /\ v[1] = f  BY <1>5, <2>1
  <2>3. levels'[q].head = f  BY <1>1, <2>1
  <2>4. \A i \in 1 .. (Len(v) - 1) : slab'[v[i]].next = v[i + 1]  BY <2>2
  <2>5. slab'[v[Len(v)]].next = NoSlot  BY <1>1, <2>2
  <2>6. v \in Seq(DOMAIN slab') /\ Len(v) # 0 /\ v[1] = levels'[q].head
    BY <1>5, <2>2, <2>3
  <2>7. Chain(slab', levels'[q].head, v)  BY ONLY <2>4, <2>5, <2>6 DEF Chain
  <2> QED  BY <1>1, <1>4, <2>7, NewWalk
<1>7. CASE q \in DOMAIN levels
  <2>1. /\ Len(w) # 0 /\ w[1] = levels[q].head /\ w[Len(w)] = levels[q].tail
        /\ \A i \in 1 .. (Len(w) - 1) : slab[w[i]].next = w[i + 1]
    BY <1>7, WalkIsComplete DEF WalkOf, Chain
  <2>2. TailAt(q) = w[Len(w)] /\ HeadAt(q) = w[1] /\ w[1] \in DOMAIN slab
        /\ 1 \in 1 .. Len(w) /\ Len(w) \in DOMAIN w
    BY <1>2, <1>7, <2>1 DEF TailAt, HeadAt
  <2>3. levels'[q].head = v[1]
    <3>1. w[1] # NoSlot  BY <2>2, SlotFacts DEF Inv
    <3> QED  BY <1>1, <1>5, <2>2, <3>1
  <2>4. ASSUME NEW i \in 1 .. (Len(v) - 1) PROVE slab'[v[i]].next = v[i + 1]
    <3>1. i \in 1 .. Len(w) /\ v[i] = w[i] /\ w[i] \in DOMAIN slab  BY <1>2, <1>5
    <3>2. CASE i = Len(w)  BY <1>1, <1>5, <2>2, <3>1, <3>2
    <3>3. CASE i # Len(w)
      <4>0. Len(w) \in Nat  BY <1>2
      <4>1. i \in 1 .. (Len(w) - 1) /\ i + 1 \in 1 .. Len(w)
        BY ONLY <4>0, <3>1, <3>3
      <4>2. w[i] # TailAt(q)  BY <1>2, <2>2, <3>1, <3>3
      <4> QED  BY <1>1, <1>5, <2>1, <3>1, <4>1, <4>2
    <3> QED  BY <3>2, <3>3
  <2>5. v[Len(v)] = f /\ Len(v) # 0  BY <1>2, <1>5
  <2>6. Chain(slab', levels'[q].head, v)
    BY <1>1, <1>5, <2>3, <2>4, <2>5 DEF Chain
  <2> QED  BY <1>1, <1>4, <2>6, NewWalk
<1> QED  BY <1>6, <1>7

\* add appends to the queue of its side and price.
LEMMA InsertShows ==
  ASSUME Inv, Inv', NEW order \in Order, InsertOrder(order)
  PROVE  Shown' = Abstract!AppendOrder(Shown, order)
<1>1. PICK q, f, w, v :
        q = QueueOf(order) /\ f = FreshSlot /\ w = SlotsOf(q) /\ v = Append(w, f)
  OBVIOUS
<1>2. q \in Queue  BY <1>1, QueueOfType
<1>3. /\ DOMAIN slab' = DOMAIN slab \cup {f}
      /\ \A s \in DOMAIN slab :
           /\ slab'[s].order = slab[s].order
           /\ slab'[s].next = IF s = TailAt(q) THEN f ELSE slab[s].next
      /\ slab'[f].order = order
      /\ DOMAIN levels' = DOMAIN levels \cup {q}
      /\ \A k \in DOMAIN levels : k # q => levels'[k] = levels[k]
  BY <1>1, InsertEffect DEF Inv
<1>4. /\ w \in Seq(SlotsAt(q)) /\ Len(w) \in Nat /\ DOMAIN w = 1 .. Len(w)
      /\ \A i \in DOMAIN w : w[i] \in DOMAIN slab
      /\ Shown[q] = [i \in DOMAIN w |-> slab[w[i]].order]
      /\ Shown[q] \in Seq(Order) /\ Len(Shown[q]) = Len(w)
  BY <1>1, <1>2, ShownQueues
<1>5. /\ DOMAIN v = 1 .. (Len(w) + 1)
      /\ \A i \in 1 .. Len(w) : v[i] = w[i]
      /\ v[Len(w) + 1] = f
  <2>1. \A i \in DOMAIN w : w[i] \in DOMAIN slab'  BY <1>3, <1>4
  <2>2. w = [i \in 1 .. Len(w) |-> w[i]]  BY <1>4
  <2>3. w \in Seq(DOMAIN slab')  BY <1>4, <2>1, <2>2, IsASeq
  <2>4. f \in DOMAIN slab'  BY <1>3
  <2>5. /\ v \in Seq(DOMAIN slab') /\ Len(v) = Len(w) + 1
        /\ \A i \in 1 .. Len(w) : v[i] = w[i]
        /\ v[Len(w) + 1] = f
    BY ONLY <1>1, <2>3, <2>4, AppendProperties
  <2> QED  BY <2>5, LenProperties
<1>6. Shown'[q] = Append(Shown[q], order)
  <2>1. PICK old, new : old = Shown[q] /\ new = Append(old, order)  OBVIOUS
  <2>2. /\ new \in Seq(Order) /\ Len(new) = Len(old) + 1
        /\ \A i \in 1 .. Len(old) : new[i] = old[i]
        /\ new[Len(old) + 1] = order
    <3>1. old \in Seq(Order)  BY <1>4, <2>1
    <3> QED  BY ONLY <2>1, <3>1, AppendProperties, order \in Order
  <2>3. new = [i \in 1 .. (Len(w) + 1) |-> new[i]]
    <3>1. DOMAIN new = 1 .. (Len(w) + 1)  BY <1>4, <2>1, <2>2, LenProperties
    <3> QED  BY <2>2, <3>1
  <2>4. Shown'[q] = [i \in 1 .. (Len(w) + 1) |-> slab'[v[i]].order]
    <3>1. SlotsOf(q)' = v  BY <1>1, InsertExtendsWalk
    <3> QED  BY <1>2, <1>5, <3>1 DEF Shown, orders_at
  <2>5. ASSUME NEW i \in 1 .. (Len(w) + 1) PROVE slab'[v[i]].order = new[i]
    <3>1. CASE i = Len(w) + 1  BY <1>3, <1>4, <1>5, <2>1, <2>2, <3>1
    <3>2. CASE i # Len(w) + 1
      <4>1. i \in 1 .. Len(w)  BY <1>4, <3>2
      <4> QED  BY <1>3, <1>4, <1>5, <2>1, <2>2, <4>1
    <3> QED  BY <3>1, <3>2
  <2> QED  BY <2>1, <2>3, <2>4, <2>5
<1>7. ASSUME NEW k \in Queue, k # q PROVE Shown'[k] = Shown[k]
  <2>1. ASSUME NEW s \in DOMAIN slab, QueueOf(slab[s].order) = k
        PROVE  /\ s \in DOMAIN slab' /\ slab'[s].next = slab[s].next
               /\ slab'[s].order = slab[s].order
    <3>1. s # TailAt(q)
      <4>1. CASE q \in DOMAIN levels
        BY <1>7, <2>1, <4>1 DEF TailAt, Inv, LinksConsistent
      <4>2. CASE q \notin DOMAIN levels
        BY <4>2, SlotFacts DEF TailAt, Inv
      <4> QED  BY <4>1, <4>2
    <3> QED  BY <1>3, <3>1
  <2>2. k \in DOMAIN levels' <=> k \in DOMAIN levels  BY <1>3, <1>7
  <2>3. k \in DOMAIN levels => levels'[k].head = levels[k].head  BY <1>3, <1>7
  <2> QED  BY <2>1, <2>2, <2>3, QueueKept
<1>8. DOMAIN Shown = Queue /\ DOMAIN Shown' = Queue
      /\ Shown = [k \in Queue |-> Shown[k]] /\ Shown' = [k \in Queue |-> Shown'[k]]
  BY DEF Shown
<1>9. Abstract!AppendOrder(Shown, order) = [Shown EXCEPT ![q] = Append(Shown[q], order)]
  BY <1>1 DEF Abstract!AppendOrder, Abstract!QueueOf, QueueOf
<1> QED  BY <1>2, <1>6, <1>7, <1>8, <1>9

\* On a walk, prev and next are the slots before and after.
LEMMA Neighbours ==
  ASSUME Inv, NEW q \in DOMAIN levels, NEW w, w = SlotsOf(q), NEW i \in DOMAIN w,
         NEW p, p = slab[w[i]].prev, NEW n, n = slab[w[i]].next
  PROVE  /\ Len(w) \in Nat /\ DOMAIN w = 1 .. Len(w) /\ w[i] \in DOMAIN slab
         /\ \A j, k \in DOMAIN w : w[j] = w[k] => j = k
         /\ i = 1 => p = NoSlot
         /\ i # 1 => i - 1 \in DOMAIN w /\ p = w[i - 1]
         /\ i = Len(w) => n = NoSlot
         /\ i # Len(w) => i + 1 \in DOMAIN w /\ n = w[i + 1]
<1>0. q \in Queue  BY DEF Inv, TypeOK
<1>1. /\ Len(w) \in Nat /\ DOMAIN w = 1 .. Len(w)
      /\ \A j \in DOMAIN w : w[j] \in DOMAIN slab /\ QueueOf(slab[w[j]].order) = q
      /\ \A j, k \in DOMAIN w : w[j] = w[k] => j = k
  BY <1>0, SlotsPassed DEF Passes
<1>2. Chain(slab, levels[q].head, w)  BY WalkIsComplete DEF WalkOf
<1>3. /\ w[1] = levels[q].head
      /\ \A j \in 1 .. (Len(w) - 1) : slab[w[j]].next = w[j + 1]
      /\ slab[w[Len(w)]].next = NoSlot
  BY <1>2 DEF Chain
<1>4. NoSlot \notin DOMAIN slab  BY SlotFacts DEF Inv
<1>5. ASSUME i = 1 PROVE p = NoSlot
  <2>1. w[i] \in DOMAIN slab /\ QueueOf(slab[w[i]].order) = q /\ levels[q].head = w[i]
    BY <1>1, <1>3, <1>5
  <2>2. LinksConsistent  BY DEF Inv
  <2>3. slab[w[i]].prev = NoSlot  BY ONLY <2>1, <2>2 DEF LinksConsistent
  <2> QED  BY <2>3
<1>6. ASSUME i # 1 PROVE i - 1 \in DOMAIN w /\ p = w[i - 1]
  <2>1. i - 1 \in DOMAIN w /\ i - 1 \in 1 .. (Len(w) - 1) /\ (i - 1) + 1 = i
    BY <1>1, <1>6
  <2>2. slab[w[i - 1]].next = w[i] /\ w[i - 1] \in DOMAIN slab  BY <1>1, <1>3, <2>1
  <2>3. LinksConsistent /\ w[i] \in DOMAIN slab  BY <1>1 DEF Inv
  <2>4. PICK s, u : s = w[i - 1] /\ u = w[i]  OBVIOUS
  <2>5. s \in DOMAIN slab /\ slab[s].next = u /\ u # NoSlot  BY <1>4, <2>2, <2>3, <2>4
  <2>6. slab[slab[s].next].prev = s  BY ONLY <2>3, <2>5 DEF LinksConsistent
  <2> QED  BY <2>1, <2>4, <2>5, <2>6
<1>7. ASSUME i # Len(w) PROVE i + 1 \in DOMAIN w /\ n = w[i + 1]
  <2>1. i \in 1 .. (Len(w) - 1) /\ i + 1 \in DOMAIN w  BY <1>1, <1>7
  <2> QED  BY <1>3, <2>1
<1>8. w[i] \in DOMAIN slab  BY <1>1
<1> QED  BY <1>1, <1>3, <1>5, <1>6, <1>7, <1>8

\* A level with one order has a walk of one slot, and the other way round.
LEMMA LoneSlot ==
  ASSUME Inv, NEW q \in DOMAIN levels, NEW w, w = SlotsOf(q), NEW i \in DOMAIN w
  PROVE  levels[q].order_count = 1 <=> Len(w) = 1
<1>0. q \in Queue  BY DEF Inv, TypeOK
<1>1. /\ Len(w) \in Nat /\ DOMAIN w = 1 .. Len(w)
      /\ \A j \in DOMAIN w : w[j] \in DOMAIN slab /\ QueueOf(slab[w[j]].order) = q
      /\ \A j, k \in DOMAIN w : w[j] = w[k] => j = k
      /\ \A s \in DOMAIN slab : QueueOf(slab[s].order) = q => \E j \in DOMAIN w : w[j] = s
  BY <1>0, SlotsPassed DEF Passes
<1>2. PICK slot \in DOMAIN slab : slot = w[i] /\ QueueOf(slab[slot].order) = q
  BY <1>1
<1>3. /\ levels[q].order_count = 1 => SlotsAt(q) = {slot}
      /\ SlotsAt(q) = {slot} => levels[q].order_count = 1
  BY <1>2, CountFacts DEF Inv
<1>4. ASSUME SlotsAt(q) = {slot} PROVE Len(w) = 1
  <2>1. \A j \in DOMAIN w : w[j] = slot  BY <1>1, <1>4 DEF SlotsAt
  <2>2. \A j \in DOMAIN w : j = i  BY <1>1, <1>2, <2>1
  <2>3. 1 \in DOMAIN w /\ Len(w) \in DOMAIN w  BY <1>1
  <2> QED  BY <2>2, <2>3
<1>5. ASSUME Len(w) = 1 PROVE SlotsAt(q) = {slot}
  <2>1. \A j \in DOMAIN w : j = i  BY <1>1, <1>5
  <2>2. \A s \in DOMAIN slab : QueueOf(slab[s].order) = q => s = slot
    BY <1>1, <1>2, <2>1
  <2> QED  BY <1>2, <2>2 DEF SlotsAt
<1> QED  BY <1>3, <1>4, <1>5

\* The slot leaves the walk of its level; the others close up (book.rs:345-380).
LEMMA TakeOutCutsWalk ==
  ASSUME Inv, Inv', NEW id \in DOMAIN order_index, TakeOut(id),
         NEW slot, slot = order_index[id], NEW q, q = QueueOf(slab[slot].order),
         NEW w, w = SlotsOf(q), NEW i \in DOMAIN w, w[i] = slot,
         NEW v, v = Abstract!Lists!RemoveAt(w, i)
  PROVE  SlotsOf(q)' = v
<1>0. q \in Queue /\ q \in DOMAIN levels /\ slot \in DOMAIN slab
  BY SlotFacts DEF Inv, IndexExact, LinksConsistent
<1>1. PICK p, n : p = slab[slot].prev /\ n = slab[slot].next  OBVIOUS
<1>2. /\ DOMAIN slab' = DOMAIN slab \ {slot}
      /\ \A s \in DOMAIN slab : s # slot =>
           slab'[s].next = IF s = p THEN n ELSE slab[s].next
      /\ levels[q].order_count = 1 => q \notin DOMAIN levels'
      /\ levels[q].order_count # 1 =>
           /\ q \in DOMAIN levels'
           /\ levels'[q].head = IF p = NoSlot THEN n ELSE levels[q].head
  <2>1. /\ slab' \in [DOMAIN slab \ {slot} -> OrderNode]
        /\ \A s \in DOMAIN slab \ {slot} :
             slab'[s].next = IF s = p THEN n ELSE slab[s].next
        /\ levels[q].order_count = 1 => levels' \in [DOMAIN levels \ {q} -> Level]
        /\ levels[q].order_count # 1 =>
             /\ levels' \in [DOMAIN levels -> Level]
             /\ levels'[q].head = IF p = NoSlot THEN n ELSE levels[q].head
    BY SMTT(30), <1>1, TakeOutEffect DEF Inv
  <2>2. levels[q].order_count = 1 => q \notin DOMAIN levels'  BY <2>1
  <2>3. levels[q].order_count # 1 => q \in DOMAIN levels'  BY <1>0, <2>1
  <2>4. DOMAIN slab' = DOMAIN slab \ {slot}  BY <2>1
  <2> QED  BY <2>1, <2>2, <2>3, <2>4
<1>3. /\ Len(w) \in Nat /\ DOMAIN w = 1 .. Len(w)
      /\ \A j, k \in DOMAIN w : w[j] = w[k] => j = k
      /\ i = 1 => p = NoSlot
      /\ i # 1 => i - 1 \in DOMAIN w /\ p = w[i - 1]
      /\ i = Len(w) => n = NoSlot
      /\ i # Len(w) => i + 1 \in DOMAIN w /\ n = w[i + 1]
  BY <1>0, <1>1, Neighbours
<1>4. w \in Seq(DOMAIN slab) /\ \A j \in DOMAIN w : w[j] \in DOMAIN slab
  <2>1. /\ w \in Seq(SlotsAt(q))
        /\ \A j \in DOMAIN w : w[j] \in DOMAIN slab /\ QueueOf(slab[w[j]].order) = q
    BY <1>0, SlotsPassed DEF Passes
  <2>2. SlotsAt(q) \subseteq DOMAIN slab  BY DEF SlotsAt
  <2> QED  BY <2>1, <2>2
<1>5. /\ v \in Seq(DOMAIN slab) /\ Len(v) = Len(w) - 1 /\ DOMAIN v = 1 .. (Len(w) - 1)
      /\ \A j \in 1 .. (Len(w) - 1) : v[j] = IF j < i THEN w[j] ELSE w[j + 1]
  <2>1. PICK S : S = DOMAIN slab  OBVIOUS
  <2>2. w \in Seq(S)  BY <1>4, <2>1
  <2>3. v = Abstract!Lists!RemoveAt(w, i) /\ i \in DOMAIN w  OBVIOUS
  <2>4. /\ v \in Seq(S) /\ Len(v) = Len(w) - 1 /\ DOMAIN v = 1 .. (Len(w) - 1)
        /\ \A j \in 1 .. (Len(w) - 1) : v[j] = IF j < i THEN w[j] ELSE w[j + 1]
    BY ONLY <2>2, <2>3, OneLess
  <2> QED  BY <2>1, <2>4
<1>6. CASE levels[q].order_count = 1
  <2>1. Len(w) = 1  BY <1>0, <1>6, LoneSlot
  <2>2. v = <<>>  BY <1>5, <2>1, EmptySeq
  <2>3. SlotsOf(q)' = <<>>  BY <1>2, <1>6 DEF SlotsOf
  <2> QED  BY <2>2, <2>3
<1>7. CASE levels[q].order_count # 1
  <2>1. Len(w) \in Nat /\ i \in 1 .. Len(w) /\ Len(w) # 1
    BY <1>0, <1>3, <1>7, LoneSlot
  <2>2. NoSlot \notin DOMAIN slab  BY SlotFacts DEF Inv
  <2>3. /\ w[1] = levels[q].head
        /\ \A j \in 1 .. (Len(w) - 1) : slab[w[j]].next = w[j + 1]
        /\ slab[w[Len(w)]].next = NoSlot
    BY <1>0, WalkIsComplete DEF WalkOf, Chain
  <2>4. ASSUME NEW j \in DOMAIN w, j # i
        PROVE  /\ w[j] \in DOMAIN slab' /\ w[j] # slot
               /\ j + 1 = i => slab'[w[j]].next = n
               /\ j + 1 # i => slab'[w[j]].next = slab[w[j]].next
    <3>1. w[j] # slot /\ w[j] \in DOMAIN slab  BY <1>3, <1>4, <2>4
    <3>2. j + 1 = i => w[j] = p
      <4>1. j + 1 = i => i # 1 /\ i - 1 = j  BY <1>3
      <4> QED  BY <1>3, <4>1
    <3>3. j + 1 # i => w[j] # p
      <4>1. CASE i = 1  BY <1>3, <2>2, <3>1, <4>1
      <4>2. CASE i # 1
        <5>1. j + 1 # i => i - 1 # j  BY <1>3
        <5> QED  BY <1>3, <4>2, <5>1
      <4> QED  BY <4>1, <4>2
    <3> QED  BY <1>2, <3>1, <3>2, <3>3
  <2>5. ASSUME NEW j \in 1 .. (Len(w) - 1)
        PROVE  v[j] \in DOMAIN slab'
    <3>1. j \in DOMAIN w /\ j + 1 \in DOMAIN w /\ (j < i => j # i) /\ (~(j < i) => j + 1 # i)
      BY <1>3, <2>1
    <3> QED  BY <1>5, <2>4, <3>1
  <2>6. v \in Seq(DOMAIN slab') /\ Len(v) # 0
    <3>1. v = [j \in 1 .. (Len(w) - 1) |-> v[j]] /\ Len(w) - 1 \in Nat  BY <1>5, <2>1
    <3>2. v \in Seq(DOMAIN slab')  BY <2>5, <3>1, IsASeq
    <3> QED  BY <1>5, <2>1, <3>2
  <2>7. v[1] = levels'[q].head
    <3>1. 1 \in 1 .. (Len(w) - 1)  BY <2>1
    <3>2. CASE i = 1
      <4>1. v[1] = w[2] /\ 1 # Len(w) /\ n = w[2]  BY <1>3, <1>5, <2>1, <3>1, <3>2
      <4> QED  BY <1>2, <1>3, <1>7, <3>2, <4>1
    <3>3. CASE i # 1
      <4>1. v[1] = w[1]  BY <1>5, <2>1, <3>1, <3>3
      <4>2. p # NoSlot  BY <1>3, <1>4, <2>2, <3>3
      <4> QED  BY <1>2, <1>7, <2>3, <4>1, <4>2
    <3> QED  BY <3>2, <3>3
  <2>8. ASSUME NEW j \in 1 .. (Len(v) - 1) PROVE slab'[v[j]].next = v[j + 1]
    <3>1. j \in 1 .. (Len(w) - 1) /\ j + 1 \in 1 .. (Len(w) - 1) /\ j \in DOMAIN w
          /\ j + 1 \in DOMAIN w /\ j # Len(w) /\ j + 1 # Len(w)
      BY <1>3, <1>5, <2>1
    <3>2. CASE j + 1 < i
      <4>1. v[j] = w[j] /\ v[j + 1] = w[j + 1] /\ j # i /\ j + 1 # i
        BY <1>5, <2>1, <3>1, <3>2
      <4> QED  BY <2>3, <2>4, <3>1, <4>1
    <3>3. CASE j + 1 = i
      <4>1. v[j] = w[j] /\ v[j + 1] = w[i + 1] /\ j # i /\ i # Len(w)
        BY <1>5, <2>1, <3>1, <3>3
      <4> QED  BY <1>3, <2>4, <3>1, <3>3, <4>1
    <3>4. CASE i < j + 1
      <4>0. j \in Nat /\ i \in Nat  BY <2>1, <3>1
      <4>1. ~(j < i) /\ ~(j + 1 < i) /\ j + 1 # i /\ (j + 1) + 1 # i
        BY ONLY <4>0, <3>4
      <4>2. v[j] = w[j + 1] /\ v[j + 1] = w[(j + 1) + 1]
        BY <1>5, <3>1, <4>1
      <4> QED  BY SMTT(30), <2>3, <2>4, <3>1, <4>1, <4>2
    <3> QED  BY <2>1, <3>1, <3>2, <3>3, <3>4
  <2>9. slab'[v[Len(v)]].next = NoSlot
    <3>1. Len(v) \in 1 .. (Len(w) - 1) /\ Len(v) + 1 = Len(w) /\ Len(v) \in DOMAIN w
          /\ Len(w) \in DOMAIN w
      <4>1. PICK m, k : m = Len(w) /\ k = Len(v)  OBVIOUS
      <4>2. m \in Nat /\ m # 1 /\ i \in 1 .. m /\ k = m - 1  BY <1>5, <2>1, <4>1
      <4>3. k \in 1 .. (m - 1) /\ k + 1 = m /\ k \in 1 .. m /\ m \in 1 .. m
        BY ONLY <4>2
      <4> QED  BY <1>3, <4>1, <4>3
    <3>2. CASE i = Len(w)
      <4>1. v[Len(v)] = w[Len(v)] /\ Len(v) # i /\ Len(v) + 1 = i
        BY <1>5, <2>1, <3>1, <3>2
      <4>2. PICK k : k = Len(v)  OBVIOUS
      <4>3. k \in DOMAIN w /\ k # i /\ k + 1 = i /\ v[k] = w[k]  BY <3>1, <4>1, <4>2
      <4>4. slab'[w[k]].next = n  BY <2>4, <4>3
      <4>5. n = NoSlot  BY <1>3, <3>2
      <4> QED  BY <4>2, <4>3, <4>4, <4>5
    <3>3. CASE i # Len(w)
      <4>1. v[Len(v)] = w[Len(w)] /\ Len(w) + 1 # i
        BY <1>5, <2>1, <3>1, <3>3
      <4> QED  BY <2>3, <2>4, <3>1, <3>3, <4>1
    <3> QED  BY <3>2, <3>3
  <2>10. Chain(slab', levels'[q].head, v)
    BY ONLY <2>6, <2>7, <2>8, <2>9 DEF Chain
  <2> QED  BY <1>2, <1>7, <2>10, NewWalk
<1> QED  BY <1>6, <1>7

\* remove takes the order out of its queue.
LEMMA TakeOutShows ==
  ASSUME Inv, Inv', NEW id \in DOMAIN order_index, TakeOut(id)
  PROVE  Shown' = Abstract!DropOrder(Shown, id)
<1>1. PICK slot, q, w :
        slot = order_index[id] /\ q = QueueOf(slab[slot].order) /\ w = SlotsOf(q)
  OBVIOUS
<1>2. /\ q \in Queue /\ slot \in DOMAIN slab
      /\ \E i \in DOMAIN w :
           /\ w[i] = slot /\ i \in DOMAIN Shown[q]
           /\ Abstract!HomeOf(Shown, id) = q
           /\ Abstract!PlaceIn(Shown[q], id) = i
  BY <1>1, ShownPlace
<1>3. PICK i \in DOMAIN w :
           /\ w[i] = slot /\ i \in DOMAIN Shown[q]
           /\ Abstract!HomeOf(Shown, id) = q
           /\ Abstract!PlaceIn(Shown[q], id) = i
  BY <1>2
<1>4. PICK v, row, less : /\ v = Abstract!Lists!RemoveAt(w, i)
                          /\ row = Shown[q]
                          /\ less = Abstract!Lists!RemoveAt(row, i)
  OBVIOUS
<1>5. SlotsOf(q)' = v  BY <1>1, <1>3, <1>4, TakeOutCutsWalk
<1>6. Passes(q, w)  BY <1>1, <1>2, SlotsPassed
<1>7. /\ Len(w) \in Nat /\ DOMAIN w = 1 .. Len(w)
      /\ \A j \in DOMAIN w : w[j] \in DOMAIN slab
      /\ \A j, k \in DOMAIN w : w[j] = w[k] => j = k
  BY <1>6 DEF Passes
<1>8. /\ DOMAIN slab' = DOMAIN slab \ {slot}
      /\ \A s \in DOMAIN slab \ {slot} :
           /\ slab'[s].order = slab[s].order
           /\ s # slab[slot].prev => slab'[s].next = slab[s].next
      /\ \A k \in DOMAIN levels : k # q => levels'[k] = levels[k]
      /\ DOMAIN levels \ {q} \subseteq DOMAIN levels' /\ DOMAIN levels' \subseteq DOMAIN levels
  <2>0. PICK p, n : p = slab[slot].prev /\ n = slab[slot].next  OBVIOUS
  <2>1. TypeOK /\ IndexExact /\ LevelsExact  BY DEF Inv
  <2>2. slab' \in [DOMAIN slab \ {slot} -> OrderNode]
    BY ONLY <1>1, <2>1, id \in DOMAIN order_index, TakeOut(id), TakeOutEffect
  <2>3. \A s \in DOMAIN slab \ {slot} :
             /\ slab'[s].order = slab[s].order
             /\ slab'[s].next = IF s = p THEN n ELSE slab[s].next
    BY ONLY ZenonT(60), <1>1, <2>0, <2>1, id \in DOMAIN order_index, TakeOut(id), TakeOutEffect
  <2>4. \A k \in DOMAIN levels : k # q => levels'[k] = levels[k]
    BY ONLY <1>1, <2>1, id \in DOMAIN order_index, TakeOut(id), TakeOutEffect
  <2>5. levels' \in [DOMAIN levels \ {q} -> Level] \/ levels' \in [DOMAIN levels -> Level]
    BY ONLY <1>1, <2>1, id \in DOMAIN order_index, TakeOut(id), TakeOutEffect
  <2>6. DOMAIN slab' = DOMAIN slab \ {slot}  BY <2>2
  <2>7. DOMAIN levels \ {q} \subseteq DOMAIN levels' /\ DOMAIN levels' \subseteq DOMAIN levels
    BY <2>5
  <2> QED  BY <2>0, <2>3, <2>4, <2>6, <2>7
<1>9. /\ DOMAIN v = 1 .. (Len(w) - 1)
      /\ \A j \in 1 .. (Len(w) - 1) : v[j] = IF j < i THEN w[j] ELSE w[j + 1]
  <2>1. PICK S : S = DOMAIN slab  OBVIOUS
  <2>2. w \in Seq(S)
    <3>1. w \in Seq(SlotsAt(q)) /\ SlotsAt(q) \subseteq S  BY <1>6, <2>1 DEF Passes, SlotsAt
    <3> QED  BY <3>1
  <2> QED  BY ONLY <1>3, <1>4, <2>2, OneLess
<1>10. /\ Len(row) = Len(w) /\ DOMAIN row = DOMAIN w
       /\ row = [j \in DOMAIN w |-> slab[w[j]].order]
       /\ row \in Seq(Order)
  BY <1>1, <1>2, <1>4, ShownQueues
<1>11. /\ less \in Seq(Order) /\ DOMAIN less = 1 .. (Len(w) - 1)
       /\ \A j \in 1 .. (Len(w) - 1) : less[j] = IF j < i THEN row[j] ELSE row[j + 1]
  <2>1. PICK S : S = Order  OBVIOUS
  <2>2. i \in DOMAIN row /\ row \in Seq(S)  BY <1>10, <2>1
  <2>3. less = Abstract!Lists!RemoveAt(row, i)  BY <1>4
  <2>4. /\ less \in Seq(S) /\ DOMAIN less = 1 .. (Len(row) - 1)
        /\ \A j \in 1 .. (Len(row) - 1) : less[j] = IF j < i THEN row[j] ELSE row[j + 1]
    BY ONLY <2>2, <2>3, OneLess
  <2> QED  BY <1>10, <2>1, <2>4
<1>12. Shown'[q] = less
  <2>1. Shown'[q] = [j \in 1 .. (Len(w) - 1) |-> slab'[v[j]].order]
    BY <1>2, <1>5, <1>9 DEF Shown, orders_at
  <2>2. less = [j \in 1 .. (Len(w) - 1) |-> less[j]]  BY <1>11
  <2>3. ASSUME NEW j \in 1 .. (Len(w) - 1) PROVE slab'[v[j]].order = less[j]
    <3>0. i \in 1 .. Len(w) /\ Len(w) \in Nat  BY <1>7
    <3>1. j \in DOMAIN w /\ j + 1 \in DOMAIN w /\ (j < i => j # i) /\ (~(j < i) => j + 1 # i)
      BY <1>7, <3>0
    <3>2. PICK k \in DOMAIN w : v[j] = w[k] /\ less[j] = row[k] /\ k # i
      BY <1>9, <1>11, <3>1
    <3>3. w[k] \in DOMAIN slab \ {slot}  BY <1>3, <1>7, <3>2
    <3> QED  BY <1>8, <1>10, <3>2, <3>3
  <2> QED  BY <2>1, <2>2, <2>3
<1>13. ASSUME NEW k \in Queue, k # q PROVE Shown'[k] = Shown[k]
  <2>1. ASSUME NEW s \in DOMAIN slab, QueueOf(slab[s].order) = k
        PROVE  /\ s \in DOMAIN slab' /\ slab'[s].next = slab[s].next
               /\ slab'[s].order = slab[s].order
    <3>1. s # slot  BY <1>1, <1>13, <2>1
    <3>2. s # slab[slot].prev
      <4>1. LinksConsistent /\ NoSlot \notin DOMAIN slab  BY SlotFacts DEF Inv
      <4>2. slab[slot].prev # NoSlot => QueueOf(slab[slab[slot].prev].order) = q
        BY <1>1, <1>2, <4>1 DEF LinksConsistent
      <4> QED  BY <1>13, <2>1, <4>1, <4>2
    <3> QED  BY <1>8, <3>1, <3>2
  <2>2. k \in DOMAIN levels' <=> k \in DOMAIN levels  BY <1>8, <1>13
  <2>3. k \in DOMAIN levels => levels'[k].head = levels[k].head  BY <1>8, <1>13
  <2> QED  BY <2>1, <2>2, <2>3, QueueKept
<1>14. DOMAIN Shown = Queue /\ DOMAIN Shown' = Queue
      /\ Shown = [k \in Queue |-> Shown[k]] /\ Shown' = [k \in Queue |-> Shown'[k]]
  BY DEF Shown
<1>15. Abstract!DropOrder(Shown, id) = [Shown EXCEPT ![q] = less]
  BY <1>3, <1>4 DEF Abstract!DropOrder
<1> QED  BY <1>2, <1>12, <1>13, <1>14, <1>15

\* The orders of a slab in which one has a new quantity.
LEMMA ResizedOrders ==
  ASSUME Inv, NEW id \in DOMAIN order_index, NEW slot, slot = order_index[id],
         NEW new_qty \in Qty, NEW nodes, nodes = NodesResized(slot, new_qty)
  PROVE  /\ DOMAIN nodes = DOMAIN slab
         /\ \A s \in DOMAIN slab :
              /\ nodes[s].order = IF slab[s].order.id = id
                                  THEN [slab[s].order EXCEPT !.qty = new_qty]
                                  ELSE slab[s].order
              /\ nodes[s].order \in Order
              /\ QueueOf(nodes[s].order) = QueueOf(slab[s].order)
<1>1. slot \in DOMAIN slab /\ \A s \in DOMAIN slab : slab[s].order.id = id <=> s = slot
  BY DEF Inv, IndexExact
<1>2. \A s \in DOMAIN slab : nodes[s] = IF s = slot THEN WithQty(slab[s], new_qty) ELSE slab[s]
  BY <1>1 DEF NodesResized
<1>3. DOMAIN nodes = DOMAIN slab  BY DEF NodesResized
<1>4. \A s \in DOMAIN slab : slab[s] \in OrderNode  BY DEF Inv, TypeOK
<1>5. ASSUME NEW s \in DOMAIN slab
      PROVE  WithQty(slab[s], new_qty).order = [slab[s].order EXCEPT !.qty = new_qty]
  BY <1>4 DEF WithQty, OrderNode
<1>6. ASSUME NEW s \in DOMAIN slab
      PROVE  /\ nodes[s].order \in Order
             /\ QueueOf(nodes[s].order) = QueueOf(slab[s].order)
  <2>1. slab[s].order \in Order  BY <1>4 DEF OrderNode
  <2>2. nodes[s].order = slab[s].order \/ nodes[s].order = [slab[s].order EXCEPT !.qty = new_qty]
    BY <1>2, <1>5
  <2> QED  BY <2>1, <2>2 DEF Order, QueueOf
<1> QED  BY <1>1, <1>2, <1>3, <1>5, <1>6

\* A book whose orders are those of such a slab, on the walks of before, is
\* the resized book.
LEMMA ResizedBook ==
  ASSUME Inv, NEW id \in DOMAIN order_index, NEW slot, slot = order_index[id],
         NEW new_qty \in Qty, NEW nodes,
         \A s \in DOMAIN slab : nodes[s].order = NodesResized(slot, new_qty)[s].order,
         NEW k \in Queue, NEW w, w = SlotsOf(k)
  PROVE  Abstract!Resize(Shown, id, new_qty)[k] = [i \in DOMAIN w |-> nodes[w[i]].order]
<1>1. \A s \in DOMAIN slab : nodes[s].order = IF slab[s].order.id = id
                                  THEN [slab[s].order EXCEPT !.qty = new_qty]
                                  ELSE slab[s].order
  BY ResizedOrders
<1>2. Shown[k] = [i \in DOMAIN w |-> slab[w[i]].order] /\ DOMAIN Shown[k] = DOMAIN w
  BY ShownQueues
<1>3. \A i \in DOMAIN w : w[i] \in DOMAIN slab  BY SlotsPassed DEF Passes
<1>4. k \in DOMAIN Shown  BY DEF Shown
<1>5. Abstract!Resize(Shown, id, new_qty)[k] =
        [i \in DOMAIN w |->
          IF Shown[k][i].id = id THEN [Shown[k][i] EXCEPT !.qty = new_qty] ELSE Shown[k][i]]
  BY <1>2, <1>4 DEF Abstract!Resize
<1>6. ASSUME NEW i \in DOMAIN w
      PROVE  (IF Shown[k][i].id = id THEN [Shown[k][i] EXCEPT !.qty = new_qty] ELSE Shown[k][i])
             = nodes[w[i]].order
  <2>1. PICK s \in DOMAIN slab : s = w[i]  BY <1>3
  <2>2. PICK o : o = slab[s].order  OBVIOUS
  <2>3. Shown[k][i] = o  BY <1>2, <2>1, <2>2
  <2>4. nodes[s].order = IF o.id = id THEN [o EXCEPT !.qty = new_qty] ELSE o
    BY <1>1, <2>2
  <2> QED  BY <2>1, <2>3, <2>4
<1> QED  BY <1>5, <1>6

\* update_size and an amendment in place show as a resized order.
LEMMA SetQtyShows ==
  ASSUME Inv, Inv', NEW id \in DOMAIN order_index, NEW new_qty \in Qty, SetQty(id, new_qty)
  PROVE  Shown' = Abstract!Resize(Shown, id, new_qty)
<1>1. PICK slot : slot = order_index[id]  OBVIOUS
<1>2. slab' = NodesResized(slot, new_qty)  BY <1>1 DEF SetQty
<1>3. /\ DOMAIN slab' = DOMAIN slab
      /\ \A s \in DOMAIN slab : slab'[s].next = slab[s].next
      /\ DOMAIN levels' = DOMAIN levels
      /\ \A k \in DOMAIN levels : levels'[k].head = levels[k].head
  <2>1. /\ slab' \in [DOMAIN slab -> OrderNode]
        /\ \A s \in DOMAIN slab : slab'[s].next = slab[s].next
        /\ levels' \in [DOMAIN levels -> Level]
        /\ \A k \in DOMAIN levels : levels'[k].head = levels[k].head
    BY SetQtyEffect DEF Inv
  <2>2. DOMAIN slab' = DOMAIN slab /\ DOMAIN levels' = DOMAIN levels  BY <2>1
  <2> QED  BY <2>1, <2>2
<1>4. ASSUME NEW k \in Queue
      PROVE  Shown'[k] = Abstract!Resize(Shown, id, new_qty)[k]
  <2>1. PICK w : w = SlotsOf(k)  OBVIOUS
  <2>2. SlotsOf(k)' = w  BY <1>3, <2>1, WalkKept
  <2>3. Shown'[k] = [i \in DOMAIN w |-> slab'[w[i]].order]  BY <2>2 DEF Shown, orders_at
  <2>4. Abstract!Resize(Shown, id, new_qty)[k] = [i \in DOMAIN w |-> slab'[w[i]].order]
    BY <1>1, <1>2, <2>1, ResizedBook
  <2> QED  BY <2>3, <2>4
<1>5. /\ Shown' = [k \in Queue |-> Shown'[k]]
      /\ Abstract!Resize(Shown, id, new_qty) =
           [k \in Queue |-> Abstract!Resize(Shown, id, new_qty)[k]]
  BY DEF Shown, Abstract!Resize
<1> QED  BY <1>4, <1>5

\* The orders after an increase that loses its place.
LEMMA MovedOrders ==
  ASSUME Inv, NEW id \in DOMAIN order_index, NEW new_qty \in Qty, GrowAndMove(id, new_qty),
         NEW slot, slot = order_index[id]
  PROVE  \A s \in DOMAIN slab : slab'[s].order = NodesResized(slot, new_qty)[s].order
<1>0. TypeOK /\ IndexExact /\ LinksConsistent /\ LevelsExact  BY DEF Inv
<1>1. slot \in DOMAIN slab  BY <1>0 DEF IndexExact
<1>2. PICK q, nodes, level : /\ q = QueueOf(slab[slot].order)
                             /\ nodes = NodesResized(slot, new_qty)
                             /\ level = LevelResized(slot, new_qty)
  OBVIOUS
<1>3. PICK moved : moved = move_to_tail(nodes, level, slot)  OBVIOUS
<1>4. slab' = moved.slab  BY <1>2, <1>3 DEF GrowAndMove
<1>5. /\ nodes \in [DOMAIN slab -> OrderNode]
      /\ nodes[slot].next = slab[slot].next
      /\ level \in Level /\ level.tail = levels[q].tail
  BY <1>0, <1>1, <1>2, ResizeEffect
<1>6. CASE level.tail = slot
  BY <1>2, <1>3, <1>4, <1>6 DEF move_to_tail
<1>7. CASE level.tail # slot
  <2>1. /\ q \in DOMAIN levels /\ levels[q].tail \in DOMAIN slab
        /\ slab[slot].next \in DOMAIN slab
    BY <1>0, <1>1, <1>2, <1>5, <1>7 DEF LinksConsistent
  <2>2. DOMAIN nodes = DOMAIN slab  BY <1>5
  <2>3. DOMAIN nodes \subseteq Link /\ NoSlot \notin DOMAIN nodes
    BY <1>0, <2>2, SlotFacts
  <2>4. PICK prev, next : prev = nodes[slot].prev /\ next = nodes[slot].next  OBVIOUS
  <2>5. level.tail \in DOMAIN nodes /\ next \in DOMAIN nodes  BY <1>5, <2>1, <2>2, <2>4
  <2>6. nodes \in [DOMAIN nodes -> OrderNode] /\ slot \in DOMAIN nodes  BY <1>1, <1>5, <2>2
  <2>7. \A s \in DOMAIN nodes : moved.slab[s].order = nodes[s].order
    BY ONLY <1>3, <1>5, <1>7, <2>3, <2>4, <2>5, <2>6, MoveToTailEffect
  <2> QED  BY <1>2, <1>4, <2>2, <2>7
<1> QED  BY <1>6, <1>7

\* A slot that is not the tail goes behind the others (move_to_tail, book.rs:1054-1069).
LEMMA MoveTurnsWalk ==
  ASSUME Inv, Inv', NEW id \in DOMAIN order_index, NEW new_qty \in Qty,
         GrowAndMove(id, new_qty),
         NEW slot, slot = order_index[id], NEW q, q = QueueOf(slab[slot].order),
         NEW w, w = SlotsOf(q), NEW i \in DOMAIN w, w[i] = slot, i # Len(w),
         NEW v, v = Append(Abstract!Lists!RemoveAt(w, i), slot)
  PROVE  SlotsOf(q)' = v
<1>0. q \in Queue /\ q \in DOMAIN levels /\ slot \in DOMAIN slab
  BY SlotFacts DEF Inv, IndexExact, LinksConsistent
<1>1. PICK p, n, t : p = slab[slot].prev /\ n = slab[slot].next /\ t = levels[q].tail
  OBVIOUS
<1>3. /\ Len(w) \in Nat /\ DOMAIN w = 1 .. Len(w)
      /\ \A j, k \in DOMAIN w : w[j] = w[k] => j = k
      /\ i = 1 => p = NoSlot
      /\ i # 1 => i - 1 \in DOMAIN w /\ p = w[i - 1]
      /\ i # Len(w) => i + 1 \in DOMAIN w /\ n = w[i + 1]
  BY <1>0, <1>1, Neighbours
<1>4. /\ w \in Seq(DOMAIN slab)
      /\ w[1] = levels[q].head
      /\ \A j \in 1 .. (Len(w) - 1) : slab[w[j]].next = w[j + 1]
      /\ slab[w[Len(w)]].next = NoSlot /\ w[Len(w)] = t
  BY <1>0, <1>1, WalkIsComplete DEF WalkOf, Chain
<1>5. t # slot
  <2>1. Len(w) \in DOMAIN w  BY <1>3
  <2> QED  BY <1>3, <1>4, <2>1
<1>6. /\ DOMAIN slab' = DOMAIN slab
      /\ q \in DOMAIN levels'
      /\ levels'[q].head = IF p = NoSlot THEN n ELSE levels[q].head
      /\ NoSlot \notin DOMAIN slab
  BY <1>0, <1>1, <1>5, MovedLinks
<1>7. \A s \in DOMAIN slab :
        slab'[s].next = IF s = t THEN slot ELSE IF s = slot THEN NoSlot
                        ELSE IF s = p THEN n ELSE slab[s].next
  BY <1>1, <1>5, MovedLinks
<1>8. PICK m \in Nat : m = Len(w) - 1 /\ m # 0 /\ i \in 1 .. m /\ Len(w) = m + 1
  <2>1. PICK l : l = Len(w)  OBVIOUS
  <2>2. l \in Nat /\ i \in 1 .. l /\ i # l  BY <1>3, <2>1
  <2>3. l - 1 \in Nat /\ l - 1 # 0 /\ i \in 1 .. (l - 1) /\ l = (l - 1) + 1
    BY ONLY <2>2
  <2> QED  BY <2>1, <2>3
<1>9. /\ v \in Seq(DOMAIN slab) /\ Len(v) = m + 1
      /\ \A j \in 1 .. m : v[j] = IF j < i THEN w[j] ELSE w[j + 1]
      /\ v[m + 1] = slot
  <2>1. PICK S : S = DOMAIN slab  OBVIOUS
  <2>2. w \in Seq(S) /\ slot \in S  BY <1>0, <1>4, <2>1
  <2>3. v = Append(Abstract!Lists!RemoveAt(w, i), slot) /\ i \in DOMAIN w  OBVIOUS
  <2>4. Turned(S, w, i, slot, v)  BY ONLY <2>2, <2>3, OneLast
  <2> QED  BY <1>8, <2>1, <2>4 DEF Turned
<1>10. ASSUME NEW j \in 1 .. (m + 1), j # i
       PROVE  /\ w[j] \in DOMAIN slab
              /\ j = m + 1 => slab'[w[j]].next = slot
              /\ j # m + 1 /\ j + 1 = i => slab'[w[j]].next = n
              /\ j # m + 1 /\ j + 1 # i => slab'[w[j]].next = w[j + 1]
  <2>1. j \in DOMAIN w /\ m + 1 \in DOMAIN w  BY <1>3, <1>8
  <2>2. w[j] # slot /\ w[j] \in DOMAIN slab  BY <1>3, <1>4, <1>10, <2>1, ElementOfSeq
  <2>3. w[j] = t <=> j = m + 1  BY <1>3, <1>4, <1>8, <2>1
  <2>4. j + 1 = i => w[j] = p
    <3>1. j + 1 = i => i # 1 /\ i - 1 = j  BY <1>8
    <3> QED  BY <1>3, <3>1
  <2>5. j + 1 # i => w[j] # p
    <3>1. CASE i = 1  BY <1>3, <1>6, <2>2, <3>1
    <3>2. CASE i # 1
      <4>1. j + 1 # i => i - 1 # j  BY <1>8
      <4> QED  BY <1>3, <2>1, <3>2, <4>1
    <3> QED  BY <3>1, <3>2
  <2>6. j # m + 1 => slab[w[j]].next = w[j + 1]
    <3>1. j # m + 1 => j \in 1 .. (Len(w) - 1)  BY <1>8
    <3> QED  BY <1>4, <3>1
  <2> QED  BY <1>7, <2>2, <2>3, <2>4, <2>5, <2>6
<1>11. v \in Seq(DOMAIN slab') /\ Len(v) # 0  BY <1>6, <1>9
<1>12. v[1] = levels'[q].head
  <2>1. 1 \in 1 .. m  BY <1>8
  <2>2. CASE i = 1
    <3>1. v[1] = w[2] /\ n = w[2]  BY <1>3, <1>8, <1>9, <2>1, <2>2
    <3> QED  BY <1>3, <1>6, <2>2, <3>1
  <2>3. CASE i # 1
    <3>0. 1 < i  BY <1>8, <2>3
    <3>1. v[1] = w[1]  BY <1>9, <2>1, <3>0
    <3>2. p # NoSlot
      <4>1. p \in DOMAIN slab  BY <1>3, <1>4, <2>3, ElementOfSeq
      <4> QED  BY <1>6, <4>1
    <3> QED  BY <1>4, <1>6, <3>1, <3>2
  <2> QED  BY <2>2, <2>3
<1>13. ASSUME NEW j \in 1 .. m PROVE slab'[v[j]].next = v[j + 1]
  <2>0. i \in Nat /\ j \in Nat /\ m \in Nat /\ j + 1 \in 1 .. (m + 1) /\ j \in 1 .. (m + 1)
        /\ j # m + 1
    BY <1>8
  <2>1. CASE j + 1 < i
    <3>1. j < i /\ j # i /\ j + 1 # i /\ j + 1 \in 1 .. m  BY <1>8, <2>0, <2>1
    <3>2. v[j] = w[j] /\ v[j + 1] = w[j + 1]  BY <1>9, <2>1, <3>1
    <3> QED  BY <1>10, <2>0, <3>1, <3>2
  <2>2. CASE j + 1 = i
    <3>1. j < i /\ j # i /\ j + 1 \in 1 .. m  BY <1>8, <2>0, <2>2
    <3>2. v[j] = w[j] /\ v[j + 1] = w[i + 1]  BY <1>9, <2>2, <3>1
    <3> QED  BY <1>3, <1>10, <2>0, <2>2, <3>1, <3>2
  <2>3. CASE i < j + 1
    <3>1. ~(j < i) /\ ~(j + 1 < i) /\ j + 1 # i /\ (j + 1) + 1 # i  BY ONLY <2>0, <2>3
    <3>2. v[j] = w[j + 1]  BY <1>9, <3>1
    <3>3. CASE j = m  BY <1>9, <1>10, <2>0, <3>1, <3>2, <3>3
    <3>4. CASE j # m
      <4>1. j + 1 \in 1 .. m /\ j + 1 # m + 1  BY ONLY <2>0, <3>4
      <4>2. v[j + 1] = w[(j + 1) + 1]  BY <1>9, <3>1, <4>1
      <4> QED  BY <1>10, <2>0, <3>1, <3>2, <4>1, <4>2
    <3> QED  BY <3>3, <3>4
  <2>4. j + 1 < i \/ j + 1 = i \/ i < j + 1  BY ONLY <2>0
  <2> QED  BY <2>1, <2>2, <2>3, <2>4
<1>14. slab'[v[Len(v)]].next = NoSlot  BY <1>0, <1>5, <1>7, <1>9
<1>15. \A j \in 1 .. (Len(v) - 1) : slab'[v[j]].next = v[j + 1]
  <2>1. 1 .. (Len(v) - 1) = 1 .. m  BY <1>8, <1>9
  <2> QED  BY <1>13, <2>1
<1>16. Chain(slab', levels'[q].head, v)
  BY ONLY <1>11, <1>12, <1>14, <1>15 DEF Chain
<1> QED  BY <1>6, <1>16, NewWalk

\* A new quantity moves no order.
LEMMA ResizedOnce ==
  ASSUME NEW b, OneQueuePerId(b), NEW id, NEW new_qty \in Qty,
         NEW r, r = Abstract!Resize(b, id, new_qty)
  PROVE  /\ OneQueuePerId(r)
         /\ \A k \in Queue : DOMAIN r[k] = DOMAIN b[k] /\ Len(r[k]) = Len(b[k])
         /\ \A k \in Queue : \A i \in DOMAIN b[k] : r[k][i].id = b[k][i].id
<1>1. DOMAIN b = Queue /\ \A k \in Queue : b[k] \in Seq(Order)  BY DEF OneQueuePerId
<1>2. /\ DOMAIN r = Queue /\ r = [k \in Queue |-> r[k]]
      /\ \A k \in Queue : r[k] = [i \in DOMAIN b[k] |->
           IF b[k][i].id = id THEN [b[k][i] EXCEPT !.qty = new_qty] ELSE b[k][i]]
  BY <1>1 DEF Abstract!Resize
<1>3. ASSUME NEW k \in Queue
      PROVE  /\ r[k] \in Seq(Order) /\ DOMAIN r[k] = DOMAIN b[k] /\ Len(r[k]) = Len(b[k])
             /\ \A i \in DOMAIN b[k] : /\ QueueOf(r[k][i]) = QueueOf(b[k][i])
                                       /\ r[k][i].id = b[k][i].id
  <2>1. PICK s, t : s = b[k] /\ t = r[k]  OBVIOUS
  <2>2. Len(s) \in Nat /\ DOMAIN s = 1 .. Len(s) /\ \A i \in 1 .. Len(s) : s[i] \in Order
    BY <1>1, <2>1, LenProperties, ElementOfSeq
  <2>3. t = [i \in 1 .. Len(s) |->
               IF s[i].id = id THEN [s[i] EXCEPT !.qty = new_qty] ELSE s[i]]
    BY <1>2, <2>1, <2>2
  <2>4. ASSUME NEW i \in 1 .. Len(s)
        PROVE  t[i] \in Order /\ QueueOf(t[i]) = QueueOf(s[i]) /\ t[i].id = s[i].id
    <3>1. t[i] = s[i] \/ t[i] = [s[i] EXCEPT !.qty = new_qty]  BY <2>3
    <3>2. s[i] \in Order  BY <2>2
    <3> QED  BY <3>1, <3>2 DEF Order, QueueOf
  <2>5. DOMAIN t = 1 .. Len(s) /\ t = [i \in 1 .. Len(s) |-> t[i]]  BY <2>3
  <2>6. t \in Seq(Order)  BY <2>2, <2>4, <2>5, IsASeq
  <2>7. Len(t) = Len(s)  BY <2>2, <2>5, <2>6, LenProperties
  <2> QED  BY <2>1, <2>2, <2>4, <2>5, <2>6, <2>7
<1>4. r \in [Queue -> Seq(Order)]  BY <1>2, <1>3
<1>5. ASSUME NEW k \in Queue, NEW l \in Queue, NEW i \in DOMAIN r[k], NEW j \in DOMAIN r[l]
      PROVE  /\ QueueOf(r[k][i]) = k
             /\ r[k][i].id = r[l][j].id => k = l /\ i = j
  <2>1. i \in DOMAIN b[k] /\ j \in DOMAIN b[l]  BY <1>3
  <2>2. /\ QueueOf(b[k][i]) = k
        /\ b[k][i].id = b[l][j].id => k = l /\ i = j
    BY <2>1 DEF OneQueuePerId
  <2> QED  BY <1>3, <2>1, <2>2
<1>6. OneQueuePerId(r)  BY <1>4, <1>5 DEF OneQueuePerId
<1> QED  BY <1>3, <1>6

\* An increase that loses its place shows as the resized order behind the others.
LEMMA GrowAndMoveShows ==
  ASSUME Inv, Inv', NEW id \in DOMAIN order_index, NEW new_qty \in Qty,
         GrowAndMove(id, new_qty)
  PROVE  Shown' = Abstract!MoveToTail(Abstract!Resize(Shown, id, new_qty), id)
<1>1. PICK slot, q, w, r :
        /\ slot = order_index[id] /\ q = QueueOf(slab[slot].order) /\ w = SlotsOf(q)
        /\ r = Abstract!Resize(Shown, id, new_qty)
  OBVIOUS
<1>2. /\ q \in Queue /\ slot \in DOMAIN slab
      /\ \E i \in DOMAIN w : w[i] = slot /\ i \in DOMAIN Shown[q] /\ Shown[q][i].id = id
  BY <1>1, ShownPlace
<1>3. PICK i \in DOMAIN w : w[i] = slot /\ i \in DOMAIN Shown[q] /\ Shown[q][i].id = id
  BY <1>2
<1>4. \A s \in DOMAIN slab : slab'[s].order = NodesResized(slot, new_qty)[s].order
  BY <1>1, MovedOrders
<1>5. \A k \in Queue : \A u : u = SlotsOf(k) => r[k] = [j \in DOMAIN u |-> slab'[u[j]].order]
  BY <1>1, <1>4, ResizedBook
<1>6. OneQueuePerId(r) /\ i \in DOMAIN r[q] /\ r[q][i].id = id
  <2>1. OneQueuePerId(Shown)  BY ShownOnce
  <2>2. PICK b : b = Shown  OBVIOUS
  <2>3. OneQueuePerId(b) /\ r = Abstract!Resize(b, id, new_qty)  BY <1>1, <2>1, <2>2
  <2>4. OneQueuePerId(r)  BY <2>3, ResizedOnce
  <2>5. \A k \in Queue : DOMAIN r[k] = DOMAIN b[k]  BY <2>3, ResizedOnce
  <2>6. \A k \in Queue : \A j \in DOMAIN b[k] : r[k][j].id = b[k][j].id
    BY <2>3, ResizedOnce
  <2> QED  BY <1>2, <1>3, <2>2, <2>4, <2>5, <2>6
<1>7. PICK row, o, turned : /\ row = r[q] /\ o = row[i]
                            /\ turned = Append(Abstract!Lists!RemoveAt(row, i), o)
  OBVIOUS
<1>8. /\ Abstract!HomeOf(r, id) = q /\ Abstract!PlaceIn(row, id) = i
      /\ Abstract!get(r, id) = o
  BY <1>2, <1>6, <1>7, FoundWhereItRests
<1>9. row \in Seq(Order) /\ o \in Order /\ QueueOf(o) = q
  <2>1. row \in Seq(Order) /\ QueueOf(o) = q  BY <1>2, <1>6, <1>7 DEF OneQueuePerId
  <2>2. o \in Order  BY <1>6, <1>7, <2>1, ElementOfSeq, LenProperties
  <2> QED  BY <2>1, <2>2
<1>10. DOMAIN r = Queue /\ r = [k \in Queue |-> r[k]]
  <2>1. r \in [Queue -> Seq(Order)]  BY <1>6 DEF OneQueuePerId
  <2> QED  BY <2>1
<1>11. Abstract!MoveToTail(r, id) = [r EXCEPT ![q] = turned]
  <2>1. PICK less : less = Abstract!Lists!RemoveAt(row, i)  OBVIOUS
  <2>2. Abstract!DropOrder(r, id) = [r EXCEPT ![q] = less]
    BY <1>7, <1>8, <2>1 DEF Abstract!DropOrder
  <2>3. PICK d : d = [r EXCEPT ![q] = less]  OBVIOUS
  <2>4. Abstract!AppendOrder(d, o) = [d EXCEPT ![q] = Append(d[q], o)]
    BY <1>9 DEF Abstract!AppendOrder, Abstract!QueueOf, QueueOf
  <2>5. d[q] = less  BY <1>2, <1>10, <2>3
  <2>6. [d EXCEPT ![q] = turned] = [r EXCEPT ![q] = turned]  BY <1>10, <2>3
  <2> QED  BY <1>7, <1>8, <2>1, <2>2, <2>3, <2>4, <2>5, <2>6 DEF Abstract!MoveToTail
<1>12. Passes(q, w)  BY <1>1, <1>2, SlotsPassed
<1>13. /\ Len(w) \in Nat /\ DOMAIN w = 1 .. Len(w)
       /\ row = [j \in DOMAIN w |-> slab'[w[j]].order] /\ Len(row) = Len(w)
  <2>1. Len(w) \in Nat /\ DOMAIN w = 1 .. Len(w)  BY <1>12 DEF Passes
  <2>2. row = [j \in DOMAIN w |-> slab'[w[j]].order]  BY <1>1, <1>2, <1>5, <1>7
  <2>3. DOMAIN row = 1 .. Len(w)  BY <2>1, <2>2
  <2>4. Len(row) = Len(w)  BY <1>9, <2>1, <2>3, LenProperties
  <2> QED  BY <2>1, <2>2, <2>4
<1>14. Turned(Order, row, i, o, turned)
  <2>1. PICK S : S = Order  OBVIOUS
  <2>2. row \in Seq(S) /\ o \in S /\ i \in DOMAIN row
    BY <1>6, <1>7, <1>9, <2>1
  <2>3. Turned(S, row, i, o, turned)  BY ONLY <1>7, <2>2, OneLast
  <2> QED  BY <2>1, <2>3
<1>15. /\ DOMAIN turned = 1 .. Len(w)
       /\ \A j \in 1 .. (Len(w) - 1) : turned[j] = IF j < i THEN row[j] ELSE row[j + 1]
       /\ turned[Len(w)] = o
  BY <1>13, <1>14 DEF Turned
<1>16. PICK p, n, t : p = slab[slot].prev /\ n = slab[slot].next /\ t = levels[q].tail
  OBVIOUS
<1>17. q \in DOMAIN levels /\ t \in DOMAIN slab /\ QueueOf(slab[t].order) = q
       /\ (p # NoSlot => QueueOf(slab[p].order) = q) /\ NoSlot \notin DOMAIN slab
  BY <1>1, <1>2, <1>16, SlotFacts DEF Inv, LinksConsistent
<1>18. DOMAIN slab' = DOMAIN slab /\ DOMAIN levels' = DOMAIN levels
  <2>1. slab' \in [DOMAIN slab -> OrderNode]  BY GrowAndMoveEffect DEF Inv
  <2>2. levels' \in [DOMAIN levels -> Level]  BY GrowAndMoveEffect DEF Inv
  <2> QED  BY <2>1, <2>2
<1>19. \A k \in DOMAIN levels : k # q => levels'[k] = levels[k]
  BY <1>1, GrowAndMoveEffect DEF Inv
<1>20. /\ t = slot => levels'[q].head = levels[q].head
       /\ \A s \in DOMAIN slab : t = slot => slab'[s].next = slab[s].next
  BY <1>1, <1>16, GrowAndMoveEffect DEF Inv
<1>21. t # slot =>
        \A s \in DOMAIN slab :
          slab'[s].next = IF s = t THEN slot ELSE IF s = slot THEN NoSlot
                          ELSE IF s = p THEN n ELSE slab[s].next
  BY <1>1, <1>16, MovedLinks
<1>22. ASSUME NEW k \in Queue, k # q PROVE Shown'[k] = r[k]
  <2>1. PICK u : u = SlotsOf(k)  OBVIOUS
  <2>2. ASSUME NEW s \in DOMAIN slab, QueueOf(slab[s].order) = k
        PROVE  s \in DOMAIN slab' /\ slab'[s].next = slab[s].next
    <3>1. s # slot /\ s # t /\ s # p  BY <1>1, <1>17, <1>22, <2>2
    <3> QED  BY <1>18, <1>20, <1>21, <3>1
  <2>3. SlotsOf(k)' = u  BY <1>18, <1>19, <1>22, <2>1, <2>2, WalkKept
  <2>4. Shown'[k] = [j \in DOMAIN u |-> slab'[u[j]].order]  BY <2>3 DEF Shown, orders_at
  <2> QED  BY <1>5, <2>1, <2>4
<1>23. Shown'[q] = turned
  <2>1. w[Len(w)] = t  BY <1>1, <1>16, <1>17, WalkIsComplete DEF WalkOf
  <2>2. turned = [j \in 1 .. Len(w) |-> turned[j]]
    <3>1. turned \in Seq(Order)  BY <1>14 DEF Turned
    <3> QED  BY <1>15, <3>1
  <2>3. CASE i = Len(w)
    <3>1. t = slot  BY <1>3, <2>1, <2>3
    <3>2. SlotsOf(q)' = w  BY <1>1, <1>2, <1>18, <1>20, <3>1, WalkKept
    <3>3. Shown'[q] = row  BY <1>2, <1>13, <3>2 DEF Shown, orders_at
    <3>4. ASSUME NEW j \in 1 .. Len(w) PROVE turned[j] = row[j]
      <4>1. CASE j = Len(w)  BY <1>7, <1>15, <2>3, <4>1
      <4>2. CASE j # Len(w)
        <5>0. Len(w) \in Nat  BY <1>13
        <5>1. j \in 1 .. (Len(w) - 1) /\ j < i  BY ONLY <5>0, <2>3, <4>2, j \in 1 .. Len(w)
        <5> QED  BY <1>15, <5>1
      <4> QED  BY <4>1, <4>2
    <3>5. row = [j \in 1 .. Len(w) |-> row[j]]  BY <1>13
    <3> QED  BY <2>2, <3>3, <3>4, <3>5
  <2>4. CASE i # Len(w)
    <3>1. PICK v : v = Append(Abstract!Lists!RemoveAt(w, i), slot)  OBVIOUS
    <3>2. SlotsOf(q)' = v  BY <1>1, <1>3, <2>4, <3>1, MoveTurnsWalk
    <3>3. /\ DOMAIN v = 1 .. Len(w)
          /\ \A j \in 1 .. (Len(w) - 1) : v[j] = IF j < i THEN w[j] ELSE w[j + 1]
          /\ v[Len(w)] = slot
      <4>1. PICK S : S = DOMAIN slab  OBVIOUS
      <4>2. w \in Seq(S) /\ slot \in S
        <5>1. w \in Seq(SlotsAt(q)) /\ SlotsAt(q) \subseteq S
          BY <1>12, <4>1 DEF Passes, SlotsAt
        <5> QED  BY <1>2, <4>1, <5>1
      <4>3. i \in DOMAIN w  OBVIOUS
      <4>4. Turned(S, w, i, slot, v)  BY ONLY <3>1, <4>2, <4>3, OneLast
      <4> QED  BY <4>4 DEF Turned
    <3>4. Shown'[q] = [j \in 1 .. Len(w) |-> slab'[v[j]].order]
      BY <1>2, <3>2, <3>3 DEF Shown, orders_at
    <3>5. ASSUME NEW j \in 1 .. Len(w) PROVE slab'[v[j]].order = turned[j]
      <4>1. CASE j = Len(w)
        <5>1. v[j] = w[i] /\ turned[j] = row[i]  BY <1>3, <1>7, <1>15, <3>3, <4>1
        <5> QED  BY <1>13, <5>1
      <4>2. CASE j # Len(w)
        <5>0. Len(w) \in Nat  BY <1>13
        <5>1. j \in 1 .. (Len(w) - 1) /\ j + 1 \in 1 .. Len(w)
          BY ONLY <5>0, <4>2, j \in 1 .. Len(w)
        <5>2. PICK k \in 1 .. Len(w) : v[j] = w[k] /\ turned[j] = row[k]
          BY <1>15, <3>3, <5>1
        <5> QED  BY <1>13, <5>2
      <4> QED  BY <4>1, <4>2
    <3> QED  BY <2>2, <3>4, <3>5
  <2> QED  BY <2>3, <2>4
<1>24. Shown' = [k \in Queue |-> Shown'[k]]  BY DEF Shown
<1> QED  BY <1>1, <1>2, <1>10, <1>11, <1>22, <1>23, <1>24

\* A call that changes no slot and no level shows the same queues.
LEMMA SameShows ==
  ASSUME Inv, Inv', UNCHANGED <<slab, levels>>
  PROVE  Shown' = Shown
<1>1. ASSUME NEW k \in Queue PROVE Shown'[k] = Shown[k]
  BY QueueKept
<1> QED  BY <1>1 DEF Shown

\* A book without levels, and a book that shows nothing.
NoLevels == DOMAIN levels = {}
ShowsNothing == Shown = Abstract!EmptyBook

\* A book without levels shows empty queues.
LEMMA NothingShows == NoLevels => ShowsNothing
<1> SUFFICES ASSUME NoLevels PROVE ShowsNothing  OBVIOUS
<1>1. \A k \in Queue : orders_at(k) = <<>>
  <2>1. \A k : SlotsOf(k) = <<>>  BY DEF SlotsOf, NoLevels
  <2> QED  BY <2>1 DEF orders_at
<1> QED
  BY <1>1
  DEF ShowsNothing, Shown, Abstract!EmptyBook, Abstract!Queue, Queue, Abstract!Side, Side

\* So does a slab after clear.
LEMMA NothingShowsNext == NoLevels' => ShowsNothing'
<1>1. NoLevels => ShowsNothing  BY NothingShows
<1> QED  BY <1>1, PTL

\* Writing the quantity an order has changes nothing.
LEMMA SameQtyShows ==
  ASSUME Inv, NEW id \in DOMAIN order_index, NEW new_qty \in Qty,
         new_qty = NodeOf(id).order.qty
  PROVE  Abstract!Resize(Shown, id, new_qty) = Shown
<1>1. PICK slot : slot = order_index[id]  OBVIOUS
<1>2. slot \in DOMAIN slab /\ slab[slot].order.qty = new_qty
      /\ \A s \in DOMAIN slab : slab[s].order.id = id => s = slot
  BY <1>1 DEF Inv, IndexExact, NodeOf
<1>3. ASSUME NEW s \in DOMAIN slab
      PROVE  slab[s].order = NodesResized(slot, new_qty)[s].order
  <2>1. NodesResized(slot, new_qty)[s].order = IF slab[s].order.id = id
                                  THEN [slab[s].order EXCEPT !.qty = new_qty]
                                  ELSE slab[s].order
    BY <1>1, ResizedOrders
  <2>2. slab[s].order \in Order  BY SlotFacts DEF Inv
  <2>3. [slab[slot].order EXCEPT !.qty = new_qty] = slab[slot].order
    BY <1>2, SlotFacts DEF Inv, Order
  <2> QED  BY <1>2, <2>1, <2>3
<1>4. ASSUME NEW k \in Queue PROVE Abstract!Resize(Shown, id, new_qty)[k] = Shown[k]
  <2>1. PICK w : w = SlotsOf(k)  OBVIOUS
  <2>2. Abstract!Resize(Shown, id, new_qty)[k] = [i \in DOMAIN w |-> slab[w[i]].order]
    <3>1. PICK nodes : nodes = slab  OBVIOUS
    <3>2. \A s \in DOMAIN slab : nodes[s].order = NodesResized(slot, new_qty)[s].order
      BY <1>3, <3>1
    <3>3. Abstract!Resize(Shown, id, new_qty)[k] = [i \in DOMAIN w |-> nodes[w[i]].order]
      BY <1>1, <2>1, <3>2, ResizedBook
    <3> QED  BY <3>1, <3>3
  <2>3. Shown[k] = [i \in DOMAIN w |-> slab[w[i]].order]  BY <2>1 DEF Shown, orders_at
  <2> QED  BY <2>2, <2>3
<1>5. /\ Shown = [k \in Queue |-> Shown[k]]
      /\ Abstract!Resize(Shown, id, new_qty) =
           [k \in Queue |-> Abstract!Resize(Shown, id, new_qty)[k]]
  BY DEF Shown, Abstract!Resize
<1> QED  BY <1>4, <1>5

\* The quantity that get answers.
LEMMA ShownQty ==
  ASSUME Inv, NEW id \in DOMAIN order_index
  PROVE  /\ Abstract!get(Shown, id).qty = NodeOf(id).order.qty
         /\ NodeOf(id).order.qty \in Nat
<1>1. PICK slot, q, w :
        slot = order_index[id] /\ q = QueueOf(slab[slot].order) /\ w = SlotsOf(q)
  OBVIOUS
<1>2. Abstract!get(Shown, id) = slab[slot].order /\ slot \in DOMAIN slab  BY <1>1, ShownPlace
<1>3. slab[slot].order \in Order  BY <1>2, SlotFacts DEF Inv
<1> QED  BY <1>1, <1>2, <1>3, QtyLimitAssumption DEF NodeOf, Order, Qty

\* An error changes no queue.
LEMMA FailShows ==
  ASSUME Inv, Inv', NEW error, Fail(error)
  PROVE  Shown' = Shown /\ result' = error
BY SameShows DEF Fail

\* add is the add of PriorityBook.
LEMMA AddRefines ==
  ASSUME Inv, Inv', NEW order \in Order, add(order)
  PROVE  Abstract!Add(order)
<1>0. order.id \in DOMAIN order_index <=> order.id \in Abstract!RestingIds(Shown)
  BY ShownIds
<1>1. PICK out : out = Abstract!add(Shown, order)  OBVIOUS
<1>2. Shown' = out.book /\ result' = out.result
  <2>1. CASE order.qty = 0 /\ Fail("ZeroQty")
    BY <1>1, <2>1, FailShows DEF Abstract!add, Abstract!Fail
  <2>2. CASE order.qty # 0 /\ Rests(order.id) /\ Fail("DuplicateOrderId")
    BY <1>0, <1>1, <2>2, FailShows DEF Abstract!add, Abstract!Fail, Rests
  <2>3. CASE order.qty # 0 /\ ~Rests(order.id) /\ InsertOrder(order)
    <3>1. Shown' = Abstract!AppendOrder(Shown, order) /\ result' = "Ok"
      BY <2>3, InsertShows DEF InsertOrder
    <3> QED  BY <1>0, <1>1, <2>3, <3>1 DEF Abstract!add, Abstract!Done, Rests
  <2> QED  BY <2>1, <2>2, <2>3 DEF add
<1> QED  BY <1>1, <1>2 DEF Abstract!Add, Abstract!Answers, Shown

\* remove is the remove of PriorityBook.
LEMMA RemoveShows ==
  ASSUME Inv, Inv', NEW id, remove(id),
         NEW out, out = Abstract!remove(Shown, id)
  PROVE  Shown' = out.book /\ result' = out.result
<1>0. id \in DOMAIN order_index <=> id \in Abstract!RestingIds(Shown)  BY ShownIds
<1>1. CASE ~Rests(id) /\ Fail("UnknownOrderId")
  BY <1>0, <1>1, FailShows DEF Abstract!remove, Abstract!Fail, Rests
<1>2. CASE Rests(id) /\ TakeOut(id)
  <2>1. Shown' = Abstract!DropOrder(Shown, id) /\ result' = "Ok"
    BY <1>2, TakeOutShows DEF Rests, TakeOut
  <2> QED  BY <1>0, <1>2, <2>1 DEF Abstract!remove, Abstract!Done, Rests
<1> QED  BY <1>1, <1>2 DEF remove

\* So remove is the abstract action.
LEMMA RemoveRefines ==
  ASSUME Inv, Inv', NEW id, remove(id)
  PROVE  Abstract!Remove(id)
<1>1. PICK out : out = Abstract!remove(Shown, id)  OBVIOUS
<1>2. Shown' = out.book /\ result' = out.result  BY <1>1, RemoveShows
<1> QED  BY <1>1, <1>2 DEF Abstract!Remove, Abstract!Answers, Shown

\* update_size is the update_size of PriorityBook.
LEMMA UpdateSizeRefines ==
  ASSUME Inv, Inv', NEW id, NEW new_qty \in Qty, update_size(id, new_qty)
  PROVE  Abstract!UpdateSize(id, new_qty)
<1>0. id \in DOMAIN order_index <=> id \in Abstract!RestingIds(Shown)  BY ShownIds
<1>1. PICK out : out = Abstract!update_size(Shown, id, new_qty)  OBVIOUS
<1>2. Shown' = out.book /\ result' = out.result
  <2>1. CASE ~Rests(id) /\ Fail("UnknownOrderId")
    BY <1>0, <1>1, <2>1, FailShows DEF Abstract!update_size, Abstract!Fail, Rests
  <2>2. CASE Rests(id)
    <3>1. PICK qty \in Nat : qty = NodeOf(id).order.qty /\ qty = Abstract!get(Shown, id).qty
      BY <2>2, ShownQty DEF Rests
    <3>2. new_qty \in Nat  BY QtyLimitAssumption DEF Qty
    <3>3. CASE new_qty >= qty /\ Fail("NonDecreasingSize")
      BY <1>0, <1>1, <2>2, <3>1, <3>3, FailShows DEF Abstract!update_size, Abstract!Fail, Rests
    <3>4. CASE new_qty < qty /\ new_qty = 0 /\ TakeOut(id)
      <4>1. ~(new_qty >= qty)  BY <3>1, <3>2, <3>4
      <4>2. Shown' = Abstract!DropOrder(Shown, id) /\ result' = "Ok"
        BY <2>2, <3>4, TakeOutShows DEF Rests, TakeOut
      <4> QED
        BY <1>0, <1>1, <2>2, <3>1, <3>4, <4>1, <4>2
        DEF Abstract!update_size, Abstract!remove, Abstract!Done, Rests
    <3>5. CASE new_qty < qty /\ new_qty # 0 /\ SetQty(id, new_qty)
      <4>1. ~(new_qty >= qty)  BY <3>1, <3>2, <3>5
      <4>2. Shown' = Abstract!Resize(Shown, id, new_qty) /\ result' = "Ok"
        BY <2>2, <3>5, SetQtyShows DEF Rests, SetQty
      <4> QED
        BY <1>0, <1>1, <2>2, <3>1, <3>5, <4>1, <4>2
        DEF Abstract!update_size, Abstract!Done, Rests
    <3> QED  BY <2>2, <3>1, <3>3, <3>4, <3>5 DEF update_size
  <2> QED  BY <2>1, <2>2 DEF update_size
<1> QED  BY <1>1, <1>2 DEF Abstract!UpdateSize, Abstract!Answers, Shown

\* amend_size_with_policy is that of PriorityBook.
LEMMA AmendSizeRefines ==
  ASSUME Inv, Inv', NEW id, NEW new_qty \in Qty, NEW policy,
         amend_size_with_policy(id, new_qty, policy)
  PROVE  Abstract!AmendSize(id, new_qty, policy)
<1>0. id \in DOMAIN order_index <=> id \in Abstract!RestingIds(Shown)  BY ShownIds
<1>1. PICK out : out = Abstract!amend_size_with_policy(Shown, id, new_qty, policy)  OBVIOUS
<1>2. Shown' = out.book /\ result' = out.result
  <2>1. CASE new_qty = 0 /\ remove(id)
    <3>1. out = Abstract!remove(Shown, id)  BY <1>1, <2>1 DEF Abstract!amend_size_with_policy
    <3> QED  BY <2>1, <3>1, RemoveShows
  <2>2. CASE new_qty # 0 /\ ~Rests(id) /\ Fail("UnknownOrderId")
    BY <1>0, <1>1, <2>2, FailShows
    DEF Abstract!amend_size_with_policy, Abstract!Fail, Rests
  <2>3. CASE new_qty # 0 /\ Rests(id)
    <3>1. PICK qty \in Nat : qty = NodeOf(id).order.qty /\ qty = Abstract!get(Shown, id).qty
      BY <2>3, ShownQty DEF Rests
    <3>2. new_qty \in Nat  BY QtyLimitAssumption DEF Qty
    <3>3. CASE new_qty = qty /\ Fail("Ok")
      <4>1. ~(new_qty > qty)  BY <3>1, <3>2, <3>3
      <4>2. Abstract!Resize(Shown, id, new_qty) = Shown
        BY <2>3, <3>1, <3>3, SameQtyShows DEF Rests
      <4>3. Shown' = Shown /\ result' = "Ok"  BY <3>3, FailShows
      <4> QED
        BY <1>0, <1>1, <2>3, <3>1, <4>1, <4>2, <4>3
        DEF Abstract!amend_size_with_policy, Abstract!Done, Rests
    <3>4. CASE (policy = "Preserve" \/ new_qty < qty) /\ SetQty(id, new_qty)
      <4>1. ~(new_qty > qty /\ policy = "LosePriorityOnIncrease")  BY <3>1, <3>2, <3>4
      <4>2. Shown' = Abstract!Resize(Shown, id, new_qty) /\ result' = "Ok"
        BY <2>3, <3>4, SetQtyShows DEF Rests, SetQty
      <4> QED
        BY <1>0, <1>1, <2>3, <3>1, <4>1, <4>2
        DEF Abstract!amend_size_with_policy, Abstract!Done, Rests
    <3>5. CASE new_qty > qty /\ policy = "LosePriorityOnIncrease" /\ GrowAndMove(id, new_qty)
      <4>1. /\ Shown' = Abstract!MoveToTail(Abstract!Resize(Shown, id, new_qty), id)
            /\ result' = "Ok"
        BY <2>3, <3>5, GrowAndMoveShows DEF Rests, GrowAndMove
      <4> QED
        BY <1>0, <1>1, <2>3, <3>1, <3>5, <4>1
        DEF Abstract!amend_size_with_policy, Abstract!Done, Rests
    <3> QED  BY <2>3, <3>1, <3>3, <3>4, <3>5 DEF amend_size_with_policy
  <2> QED  BY <2>1, <2>2, <2>3 DEF amend_size_with_policy
<1> QED  BY <1>1, <1>2 DEF Abstract!AmendSize, Abstract!Answers, Shown

\* clear is the clear of PriorityBook.
LEMMA ClearRefines == clear => Abstract!Clear
<1> SUFFICES ASSUME clear PROVE Abstract!Clear  OBVIOUS
<1>1. NoLevels' /\ result' = "Ok"  BY DEF clear, EmptyMap, NoLevels
<1>2. Shown' = Abstract!EmptyBook  BY <1>1, NothingShowsNext DEF ShowsNothing
<1> QED  BY <1>1, <1>2 DEF Abstract!Clear, Abstract!Answers, Abstract!Done, Shown

\* A new book is the abstract book without orders.
LEMMA InitRefines == Init => Abstract!Init
<1> SUFFICES ASSUME Init PROVE Abstract!Init  OBVIOUS
<1>1. NoLevels /\ result = "Ok"  BY DEF Init, EmptyMap, NoLevels
<1>2. Shown = Abstract!EmptyBook  BY <1>1, NothingShows DEF ShowsNothing
<1> QED  BY <1>1, <1>2 DEF Abstract!Init, Shown

\* Every step of the slab is a step of the queues, or leaves them alone.
LEMMA StepRefines == Inv /\ Inv' /\ [Next]_vars => [Abstract!Next]_Abstract!vars
<1> SUFFICES ASSUME Inv, Inv', [Next]_vars PROVE [Abstract!Next]_Abstract!vars
  OBVIOUS
<1> USE DEF Abstract!Next
<1>0. /\ Abstract!Order = Order /\ Abstract!Qty = Qty
      /\ Abstract!AmendPriorityPolicy = AmendPriorityPolicy
  BY DEF Abstract!Order, Order, Abstract!Qty, Qty, Abstract!AmendPriorityPolicy,
         AmendPriorityPolicy, Abstract!Side, Side
<1>1. CASE \E order \in Order : add(order)
  BY <1>0, <1>1, AddRefines
<1>2. CASE \E id \in OrderId : remove(id)
  BY <1>2, RemoveRefines
<1>3. CASE \E id \in OrderId, new_qty \in Qty : update_size(id, new_qty)
  BY <1>0, <1>3, UpdateSizeRefines
<1>4. CASE \E id \in OrderId, new_qty \in Qty, policy \in AmendPriorityPolicy :
             amend_size_with_policy(id, new_qty, policy)
  BY <1>0, <1>4, AmendSizeRefines
<1>5. CASE clear  BY <1>5, ClearRefines
<1>6. CASE UNCHANGED vars
  <2>1. Shown' = Shown /\ result' = result  BY <1>6, SameShows DEF vars
  <2> QED  BY <2>1 DEF Abstract!vars, Shown
<1> QED  BY <1>1, <1>2, <1>3, <1>4, <1>5, <1>6 DEF Next

\* The book of slab, free list, links and indexes behaves as PriorityBook: what
\* every public call answers, and the queue of orders that every level then
\* shows in price-time order, are those of sequences changed directly.
THEOREM BookImplementsQueues == Spec => ImplementsPriorityBook
<1>1. Spec => []Inv  BY BookIsConsistent
<1> QED  BY <1>1, InitRefines, StepRefines, PTL DEF Spec, ImplementsPriorityBook, Abstract!Spec

-----------------------------------------------------------------------------
(* Remainders *)

\* Division leaves a remainder below the divisor.
LEMMA ModDef ==
  ASSUME NEW N \in Nat \ {0}, NEW a \in Int
  PROVE  a % N \in 0 .. (N - 1) /\ a = N * (a \div N) + (a % N) /\ a \div N \in Int
OBVIOUS

\* The remainder is the only number below the divisor that differs from `a` by a
\* multiple of it.
LEMMA ModUnique ==
  ASSUME NEW N \in Nat \ {0}, NEW k \in Int, NEW r \in 0 .. (N - 1), NEW a, a = N * k + r
  PROVE  a % N = r
<1>1. PICK j \in Int : j = a \div N  BY ModDef
<1>2. PICK s \in 0 .. (N-1) : s = a % N BY ModDef
<1>3. N * j + s = N * k + r  BY ModDef, <1>1, <1>2
<1>4. N * (j - k) = r - s BY <1>3
<1>5. j - k < 1
  <2> SUFFICES ASSUME j - k >= 1 PROVE FALSE OBVIOUS
  <2>1. N * (j - k) >= N  OBVIOUS
  <2> QED BY <2>1, <1>4
<1>6. j - k > -1
  <2> SUFFICES ASSUME j - k <= -1 PROVE FALSE OBVIOUS
  <2>1. N * (j - k) <= -N  OBVIOUS
  <2> QED BY <2>1, <1>4
<1>7. j = k BY <1>5, <1>6
<1> QED BY <1>2, <1>4, <1>7

\* A remainder can be added to instead of the number.
LEMMA AddMod ==
  ASSUME NEW N \in Nat \ {0}, NEW a \in Int, NEW b \in Int
  PROVE  ((a % N) + b) % N = (a + b) % N
<1>1. PICK r \in 0 .. (N - 1) : r = a % N  BY ModDef
<1>2. PICK j \in Int : a = N * j + r  BY <1>1, ModDef
<1>3. PICK c \in Int : c = r + b  BY <1>1
<1>4. PICK s \in 0 .. (N - 1) : s = c % N  BY ModDef
<1>5. PICK k \in Int : c = N * k + s  BY <1>4, ModDef
<1>6. PICK l \in Int : l = j + k  OBVIOUS
<1>7. N * l = N * j + N * k  BY <1>6
<1>8. a + b = N * l + s
  <2>1. N * j \in Int /\ N * k \in Int /\ N * l \in Int  OBVIOUS
  <2> QED  BY <2>1, <1>2, <1>3, <1>5, <1>7
<1>9. (a + b) % N = s  BY ZenonT(60), <1>8, ModUnique
<1> QED  BY <1>1, <1>3, <1>4, <1>9

\* Or subtracted from.
LEMMA SubMod ==
  ASSUME NEW N \in Nat \ {0}, NEW a \in Int, NEW b \in Int
  PROVE  ((a % N) - b) % N = (a - b) % N
<1>1. PICK c \in Int : c = -b  OBVIOUS
<1>2. PICK r \in Int : r = a % N  BY ModDef
<1>3. r - b = r + c /\ a - b = a + c  BY <1>1
<1>4. ((a % N) + c) % N = (a + c) % N  BY AddMod
<1>5. (a % N) - b = (a % N) + c  BY <1>2, <1>3
<1>6. a - b = a + c  BY <1>3
<1> QED  BY <1>4, <1>5, <1>6

\* A number below the limit is its own remainder.
LEMMA SmallMod ==
  ASSUME NEW N \in Nat \ {0}, NEW a \in 0 .. (N - 1)
  PROVE  a % N = a
<1>1. a = N * 0 + a  OBVIOUS
<1> QED  BY <1>1, ModUnique

-----------------------------------------------------------------------------
(* Sums *)

\* The running total of a walk, as the loop of assert_invariants keeps it.
Running(orders, p) ==
    /\ p \in [0 .. Len(orders) -> Int]
    /\ p[0] = 0
    /\ \A n \in 1 .. Len(orders) : p[n] = p[n - 1] + orders[n].qty

\* The orders add up to the total, in 64 bits.
AddsUp(orders, total) ==
    \E p : Running(orders, p) /\ total = p[Len(orders)] % QtyLimit

\* The last running total is the sum.
LEMMA RunningTotal ==
    ASSUME NEW orders \in Seq(Order), NEW p, Running(orders, p)
    PROVE  TotalQty(orders) = p[Len(orders)]
<1> DEFINE Recurs(f) ==
             f = [n \in 0 .. Len(orders) |->
                    IF n = 0 THEN 0 ELSE f[n - 1] + orders[n].qty]
           sum == CHOOSE f : Recurs(f)
<1>1. TotalQty(orders) = sum[Len(orders)]  BY DEF TotalQty
<1>2. Len(orders) \in Nat  OBVIOUS
<1>3. Recurs(p)
  <2>1. ASSUME NEW n \in 0 .. Len(orders)
        PROVE  p[n] = IF n = 0 THEN 0 ELSE p[n - 1] + orders[n].qty
    BY <1>2, <2>1 DEF Running
  <2> QED  BY <2>1 DEF Running
<1>4. Recurs(sum)  BY <1>3
<1>5. \A n \in 0 .. Len(orders) : sum[n] = IF n = 0 THEN 0 ELSE sum[n - 1] + orders[n].qty
  BY <1>4
<1> HIDE DEF Recurs, sum
<1> DEFINE S == {n \in Nat : n \in 0 .. Len(orders) => sum[n] = p[n]}
<1>6. 0 \in S
  BY <1>2, <1>5 DEF Running
<1>7. ASSUME NEW n \in Nat, n \in S PROVE n + 1 \in S
  <2> SUFFICES ASSUME n + 1 \in 0 .. Len(orders) PROVE sum[n + 1] = p[n + 1]  OBVIOUS
  <2>1. n \in 0 .. Len(orders) /\ n + 1 \in 1 .. Len(orders) /\ (n + 1) - 1 = n /\ n + 1 # 0
    BY <1>2
  <2>2. sum[n] = p[n]  BY <1>7, <2>1
  <2>3. sum[n + 1] = sum[n] + orders[n + 1].qty  BY <1>5, <2>1
  <2>4. p[n + 1] = p[n] + orders[n + 1].qty  BY <2>1 DEF Running
  <2> QED  BY <2>2, <2>3, <2>4
<1> HIDE DEF S
<1>8. Nat \subseteq S  BY <1>6, <1>7, NumbersByInduction
<1>9. sum[Len(orders)] = p[Len(orders)]  BY <1>2, <1>8 DEF S
<1> QED  BY <1>1, <1>9

\* No orders add up to nothing.
LEMMA NothingAddsUp == AddsUp(<<>>, 0)
<1>1. PICK p : p = [n \in 0 .. 0 |-> 0]  OBVIOUS
<1>2. Running(<<>>, p)  BY <1>1 DEF Running
<1>3. 0 % QtyLimit = 0  BY SmallMod, QtyLimitAssumption
<1> QED  BY <1>1, <1>2, <1>3 DEF AddsUp

\* One order more.
LEMMA OneMoreAddsUp ==
    ASSUME NEW orders \in Seq(Order), NEW total, AddsUp(orders, total),
           NEW order \in Order
    PROVE  AddsUp(Append(orders, order), WrapAdd(total, order.qty))
<1>1. PICK p : Running(orders, p) /\ total = p[Len(orders)] % QtyLimit  BY DEF AddsUp
<1>2. PICK m \in Nat : m = Len(orders)  OBVIOUS
<1>3. PICK more : more = Append(orders, order)  OBVIOUS
<1>4. Len(more) = m + 1 /\ more[m + 1] = order /\ \A n \in 1 .. m : more[n] = orders[n]
  BY <1>2, <1>3
<1>5. PICK r : r = [n \in 0 .. (m + 1) |-> IF n = m + 1 THEN p[m] + order.qty ELSE p[n]]
  OBVIOUS
<1>6. order.qty \in Int /\ p[m] \in Int
  BY <1>1, <1>2, QtyLimitAssumption DEF Running, Order, Qty
<1>7. Running(more, r)
  <2>2. \A n \in 0 .. m : n \in 0 .. (m + 1) /\ n # m + 1 /\ r[n] = p[n]  BY <1>5
  <2>3. r[m + 1] = p[m] + order.qty  BY <1>5
  <2>4. r[0] = 0  BY <1>1, <2>2 DEF Running
  <2>5. ASSUME NEW n \in 1 .. (m + 1) PROVE r[n] = r[n - 1] + more[n].qty
    <3>1. CASE n = m + 1
      <4>1. n - 1 = m /\ m \in 0 .. m  BY <3>1
      <4> QED  BY <1>4, <2>2, <2>3, <3>1, <4>1
    <3>2. CASE n # m + 1
      <4>1. n \in 1 .. m /\ n \in 0 .. m /\ n - 1 \in 0 .. m  BY <3>2
      <4>2. p[n] = p[n - 1] + orders[n].qty  BY <1>1, <1>2, <4>1 DEF Running
      <4> QED  BY <1>4, <2>2, <4>1, <4>2
    <3> QED  BY <3>1, <3>2
  <2>6. ASSUME NEW n \in 0 .. (m + 1) PROVE r[n] \in Int
    <3>1. CASE n = m + 1  BY <1>6, <2>3, <3>1
    <3>2. CASE n # m + 1
      <4>1. n \in 0 .. m  BY <3>2
      <4> QED  BY <1>1, <1>2, <2>2, <4>1 DEF Running
    <3> QED  BY <3>1, <3>2
  <2>7. r \in [0 .. Len(more) -> Int]  BY <1>4, <1>5, <2>6
  <2> QED  BY <1>4, <2>4, <2>5, <2>7 DEF Running
<1>8. r[Len(more)] = p[m] + order.qty  BY <1>4, <1>5
<1>9. WrapAdd(total, order.qty) = r[Len(more)] % QtyLimit
  <2>1. ((p[m] % QtyLimit) + order.qty) % QtyLimit = (p[m] + order.qty) % QtyLimit
    BY <1>6, AddMod, QtyLimitAssumption
  <2> QED  BY <1>1, <1>2, <1>8, <2>1 DEF WrapAdd
<1> QED  BY <1>3, <1>7, <1>9 DEF AddsUp

\* One order less.
LEMMA OneLessAddsUp ==
    ASSUME NEW orders \in Seq(Order), NEW total, AddsUp(orders, total),
           NEW i \in DOMAIN orders, NEW qty, qty = orders[i].qty
    PROVE  AddsUp(Abstract!Lists!RemoveAt(orders, i), WrapSub(total, qty))
<1>1. PICK p : Running(orders, p) /\ total = p[Len(orders)] % QtyLimit  BY DEF AddsUp
<1>2. PICK m \in Nat : m = Len(orders)  OBVIOUS
<1>3. PICK less : less = Abstract!Lists!RemoveAt(orders, i)  OBVIOUS
<1>4. i \in 1 .. m /\ m - 1 \in Nat  BY <1>2
<1>5. /\ Len(less) = m - 1
      /\ \A n \in 1 .. (m - 1) : less[n] = IF n < i THEN orders[n] ELSE orders[n + 1]
  BY <1>2, <1>3, OneLess
<1>6. qty \in Int /\ \A n \in 1 .. m : orders[n].qty \in Int
  <2>1. \A n \in DOMAIN orders : orders[n] \in Order  OBVIOUS
  <2>2. \A order \in Order : order.qty \in Int  BY QtyLimitAssumption DEF Order, Qty
  <2> QED  BY <1>2, <2>1, <2>2
<1>7. \A n \in 0 .. m : p[n] \in Int  BY <1>1, <1>2 DEF Running
<1>8. PICK r : r = [n \in 0 .. (m - 1) |-> IF n < i THEN p[n] ELSE p[n + 1] - qty]
  OBVIOUS
<1>9. Running(less, r)
  <2>2. r[0] = 0
    <3>1. 0 \in 0 .. (m - 1) /\ 0 < i  BY <1>4
    <3> QED  BY <1>1, <1>8, <3>1 DEF Running
  <2>3. ASSUME NEW n \in 1 .. (m - 1) PROVE r[n] = r[n - 1] + less[n].qty
    <3>1. n \in 0 .. (m - 1) /\ n - 1 \in 0 .. (m - 1) /\ n \in 1 .. m /\ n + 1 \in 1 .. m
          /\ (n + 1) - 1 = n /\ (n - 1) + 1 = n
      BY <1>4
    <3>2. p[n] = p[n - 1] + orders[n].qty /\ p[n + 1] = p[n] + orders[n + 1].qty
      BY <1>1, <1>2, <3>1 DEF Running
    <3>3. CASE n < i
      <4>1. n - 1 < i  BY <3>3
      <4> QED  BY <1>5, <1>8, <3>1, <3>2, <3>3, <4>1
    <3>4. PICK x : x = orders[n + 1].qty  OBVIOUS
    <3>5. n \in 0 .. m /\ n + 1 \in 0 .. m /\ n - 1 \in 0 .. m  BY <3>1
    <3>6. x \in Int /\ p[n] \in Int /\ p[n - 1] \in Int /\ p[n + 1] \in Int
      BY <1>6, <1>7, <3>1, <3>4, <3>5
    <3>7. p[n + 1] = p[n] + x  BY <3>2, <3>4
    <3>8. CASE n = i
      <4>1. n - 1 < i /\ ~(n < i)  BY <3>8
      <4>2. r[n] = p[n + 1] - qty /\ r[n - 1] = p[n - 1] /\ less[n].qty = x
        BY <1>5, <1>8, <3>1, <3>4, <4>1
      <4>3. p[n] = p[n - 1] + qty  BY <3>2, <3>8
      <4>4. p[n + 1] - qty = p[n - 1] + x
        <5>1. \A a, b, c \in Int : (a + b) + c - b = a + c  OBVIOUS
        <5> QED  BY ONLY <1>6, <3>6, <3>7, <4>3, <5>1
      <4> QED  BY <4>2, <4>4
    <3>9. CASE n > i
      <4>1. ~(n - 1 < i) /\ ~(n < i)  BY <1>4, <3>9
      <4>2. r[n] = p[n + 1] - qty /\ r[n - 1] = p[n] - qty /\ less[n].qty = x
        BY <1>5, <1>8, <3>1, <3>4, <4>1
      <4>3. p[n + 1] - qty = (p[n] - qty) + x  BY <1>6, <3>6, <3>7
      <4> QED  BY <4>2, <4>3
    <3> QED  BY <1>4, <3>3, <3>8, <3>9
  <2>4. ASSUME NEW n \in 0 .. (m - 1) PROVE r[n] \in Int
    <3>1. n \in 0 .. m /\ n + 1 \in 0 .. m  BY <1>4
    <3> QED  BY <1>6, <1>7, <1>8, <3>1
  <2>5. r \in [0 .. Len(less) -> Int]  BY <1>5, <1>8, <2>4
  <2> QED  BY <1>5, <2>2, <2>3, <2>5 DEF Running
<1>10. r[Len(less)] = p[m] - qty
  <2>1. CASE m - 1 < i
    <3>1. i = m /\ m \in 1 .. m /\ m - 1 \in 0 .. (m - 1)  BY <1>4, <2>1
    <3>2. r[m - 1] = p[m - 1] /\ p[m] = p[m - 1] + qty
      BY <1>1, <1>2, <1>8, <2>1, <3>1 DEF Running
    <3>3. p[m] \in Int /\ p[m - 1] \in Int  BY <1>4, <1>7
    <3> QED  BY <1>5, <1>6, <3>2, <3>3
  <2>2. CASE ~(m - 1 < i)
    <3>1. m - 1 \in 0 .. (m - 1) /\ (m - 1) + 1 = m  BY <1>4
    <3> QED  BY <1>5, <1>8, <2>2, <3>1
  <2> QED  BY <2>1, <2>2
<1>11. WrapSub(total, qty) = r[Len(less)] % QtyLimit
  <2>1. p[m] \in Int  BY <1>7
  <2>2. ((p[m] % QtyLimit) - qty) % QtyLimit = (p[m] - qty) % QtyLimit
    BY <1>6, <2>1, SubMod, QtyLimitAssumption
  <2> QED  BY <1>1, <1>2, <1>10, <2>2 DEF WrapSub
<1> QED  BY <1>3, <1>9, <1>11 DEF AddsUp

\* A new quantity for one order.
LEMMA ResizedAddsUp ==
    ASSUME NEW orders \in Seq(Order), NEW total, AddsUp(orders, total),
           NEW i \in DOMAIN orders, NEW old, old = orders[i].qty, NEW new \in Qty,
           NEW changed, Len(changed) = Len(orders),
           \A n \in DOMAIN orders : changed[n].qty = IF n = i THEN new ELSE orders[n].qty
    PROVE  AddsUp(changed, Adjusted(total, old, new))
<1>1. PICK p : Running(orders, p) /\ total = p[Len(orders)] % QtyLimit  BY DEF AddsUp
<1>2. PICK m \in Nat : m = Len(orders)  OBVIOUS
<1>3. i \in 1 .. m /\ DOMAIN orders = 1 .. m  BY <1>2
<1>4. new \in Int /\ \A n \in 1 .. m : orders[n].qty \in Int
  <2>1. \A n \in DOMAIN orders : orders[n] \in Order  OBVIOUS
  <2>2. \A order \in Order : order.qty \in Int  BY QtyLimitAssumption DEF Order, Qty
  <2> QED  BY <1>3, <2>1, <2>2, QtyLimitAssumption DEF Qty
<1>5. old \in Int  BY <1>3, <1>4
<1>6. PICK diff \in Int : diff = new - old  BY <1>4, <1>5
<1>7. PICK r : r = [n \in 0 .. m |-> IF n < i THEN p[n] ELSE p[n] + diff]  OBVIOUS
<1>8. \A n \in 0 .. m : p[n] \in Int  BY <1>1, <1>2 DEF Running
<1>9. Running(changed, r)
  <2>1. r \in [0 .. m -> Int]
    <3>1. ASSUME NEW n \in 0 .. m PROVE r[n] \in Int  BY <1>7, <1>8
    <3> QED  BY <1>7, <3>1
  <2>2. r[0] = 0
    <3>1. 0 \in 0 .. m /\ 0 < i  BY <1>3
    <3> QED  BY <1>1, <1>7, <3>1 DEF Running
  <2>3. ASSUME NEW n \in 1 .. m PROVE r[n] = r[n - 1] + changed[n].qty
    <3>1. n \in 0 .. m /\ n - 1 \in 0 .. m  OBVIOUS
    <3>2. p[n] = p[n - 1] + orders[n].qty  BY <1>1, <1>2 DEF Running
    <3>3. PICK x : x = orders[n].qty  OBVIOUS
    <3>4. x \in Int /\ p[n] \in Int /\ p[n - 1] \in Int /\ p[n] = p[n - 1] + x
      BY <1>4, <1>8, <3>1, <3>2, <3>3
    <3>5. CASE n < i
      <4>1. n - 1 < i /\ n # i  BY <3>5
      <4>2. r[n] = p[n] /\ r[n - 1] = p[n - 1] /\ changed[n].qty = x
        BY <1>3, <1>7, <3>1, <3>3, <3>5, <4>1
      <4> QED  BY <3>4, <4>2
    <3>6. CASE n = i
      <4>1. n - 1 < i /\ ~(n < i)  BY <3>6
      <4>2. r[n] = p[n] + diff /\ r[n - 1] = p[n - 1] /\ changed[n].qty = new
        BY <1>3, <1>7, <3>1, <3>6, <4>1
      <4>3. x = old  BY <3>3, <3>6
      <4>4. (p[n - 1] + old) + (new - old) = p[n - 1] + new  BY ONLY <1>4, <1>5, <3>4
      <4> QED  BY <1>6, <3>4, <4>2, <4>3, <4>4
    <3>7. CASE n > i
      <4>1. ~(n - 1 < i) /\ ~(n < i) /\ n # i  BY <1>3, <3>7
      <4>2. r[n] = p[n] + diff /\ r[n - 1] = p[n - 1] + diff /\ changed[n].qty = x
        BY <1>3, <1>7, <3>1, <3>3, <4>1
      <4>3. (p[n - 1] + x) + diff = (p[n - 1] + diff) + x  BY ONLY <1>6, <3>4
      <4> QED  BY <3>4, <4>2, <4>3
    <3> QED  BY <1>3, <3>5, <3>6, <3>7
  <2> QED  BY <1>2, <2>1, <2>2, <2>3 DEF Running
<1>10. r[Len(changed)] = p[m] + diff
  <2>1. m \in 0 .. m /\ ~(m < i)  BY <1>3
  <2> QED  BY <1>2, <1>7, <2>1
<1>11. Adjusted(total, old, new) = (p[m] + diff) % QtyLimit
  <2>1. p[m] \in Int /\ total = p[m] % QtyLimit  BY <1>1, <1>2, <1>8
  <2>2. CASE new > old
    <3>1. ((p[m] % QtyLimit) + diff) % QtyLimit = (p[m] + diff) % QtyLimit
      BY <2>1, AddMod, QtyLimitAssumption
    <3> QED  BY <1>6, <2>1, <2>2, <3>1 DEF Adjusted, WrapAdd
  <2>3. CASE ~(new > old)
    <3>1. PICK less \in Int : less = old - new  BY <1>4, <1>5
    <3>2. ((p[m] % QtyLimit) - less) % QtyLimit = (p[m] - less) % QtyLimit
      BY <2>1, SubMod, QtyLimitAssumption
    <3>3. p[m] - less = p[m] + diff  BY <1>4, <1>5, <1>6, <2>1, <3>1
    <3> QED  BY <2>1, <2>3, <3>1, <3>2, <3>3 DEF Adjusted, WrapSub
  <2> QED  BY <2>2, <2>3
<1> QED  BY <1>2, <1>9, <1>10, <1>11 DEF AddsUp

\* A quantity taken off and put back.
LEMMA OffAndOn ==
    ASSUME NEW total \in Qty, NEW qty \in Qty
    PROVE  WrapAdd(WrapSub(total, qty), qty) = total
<1>1. total \in Int /\ qty \in Int  BY QtyLimitAssumption DEF Qty
<1>2. PICK d \in Int : d = total - qty  BY <1>1
<1>3. ((d % QtyLimit) + qty) % QtyLimit = (d + qty) % QtyLimit
  BY <1>1, <1>2, AddMod, QtyLimitAssumption
<1>4. d + qty = total  BY <1>1, <1>2
<1>5. total % QtyLimit = total  BY SmallMod, QtyLimitAssumption DEF Qty
<1> QED  BY <1>2, <1>3, <1>4, <1>5 DEF WrapAdd, WrapSub

-----------------------------------------------------------------------------
(* The totals of the levels *)

\* The quantities that the walk of a level shows add up to the level's total.
TotalsExact == \A k \in DOMAIN levels : AddsUp(Shown[k], levels[k].total_qty)

\* New ends leave a level its total, and new counters give it theirs.
LEMMA EndsKeepTotal ==
    ASSUME NEW level \in Level, NEW head, NEW tail, NEW count, NEW total
    PROVE  /\ WithEnds(level, head, tail).total_qty = level.total_qty
           /\ WithCounters(level, count, total).total_qty = total
           /\ WithEnds(WithCounters(level, count, total), head, tail).total_qty = total
BY DEF Level, WithEnds, WithCounters

\* The total of a level after each change.
LEMMA InsertTotal ==
    ASSUME Inv, NEW order \in Order, InsertOrder(order), NEW q, q = QueueOf(order)
    PROVE  levels'[q].total_qty =
             WrapAdd(IF q \in DOMAIN levels THEN levels[q].total_qty ELSE 0, order.qty)
<1>1. PICK level : level = IF q \in DOMAIN levels THEN levels[q] ELSE NewLevel  OBVIOUS
<1>2. level \in Level
  <2>1. NewLevel \in Level
    BY NoSlotIsNoSlot, QtyLimitAssumption DEF NewLevel, Level, Qty
  <2> QED  BY <1>1, <2>1 DEF Inv, TypeOK
<1>3. PICK grown : grown = Grown(level, order.qty)  OBVIOUS
<1>4. PICK nodes, f : f = FreshSlot /\ nodes = Insert(slab, f, NewNode(order))  OBVIOUS
<1>5. levels'[q] = link_tail(nodes, grown, f).level
  BY <1>1, <1>3, <1>4 DEF InsertOrder, Insert
<1>6. \E head, tail : levels'[q] = WithEnds(grown, head, tail)
  <2>1. link_tail(nodes, grown, f).level = WithEnds(grown, f, f)
        \/ link_tail(nodes, grown, f).level = WithEnds(grown, grown.head, f)
    BY DEF link_tail
  <2> QED  BY <1>5, <2>1
<1>7. levels'[q].total_qty = WrapAdd(level.total_qty, order.qty)
  BY <1>2, <1>3, <1>6, EndsKeepTotal DEF Grown
<1>8. NewLevel.total_qty = 0  BY DEF NewLevel
<1> QED  BY <1>1, <1>7, <1>8

\* So after a removal that leaves the level.
LEMMA TakeOutTotal ==
    ASSUME Inv, NEW id \in DOMAIN order_index, TakeOut(id),
           NEW order, order = slab[order_index[id]].order,
           NEW q, q = QueueOf(order), q \in DOMAIN levels, q \in DOMAIN levels'
    PROVE  levels'[q].total_qty = WrapSub(levels[q].total_qty, order.qty)
<1>1. levels[q] \in Level  BY DEF Inv, TypeOK
<1>2. PICK shrunk : shrunk = Shrunk(levels[q], order.qty)  OBVIOUS
<1>3. PICK node, nodes :
        node = slab[order_index[id]] /\ nodes = Without(slab, order_index[id])
  OBVIOUS
<1>4. levels' = Vacated(q, unlink(nodes, shrunk, node.prev, node.next).level)
  BY <1>2, <1>3 DEF TakeOut
<1>5. \E head, tail :
        unlink(nodes, shrunk, node.prev, node.next).level = WithEnds(shrunk, head, tail)
  BY DEF unlink
<1>6. PICK level : /\ \E head, tail : level = WithEnds(shrunk, head, tail)
                   /\ levels' = Vacated(q, level)
  BY <1>4, <1>5
<1>7. levels'[q] = level
  BY <1>6 DEF Vacated, Without
<1> QED  BY <1>1, <1>2, <1>6, <1>7, EndsKeepTotal DEF Shrunk

\* And after a new quantity, moved or not.
LEMMA ResizedTotal ==
    ASSUME Inv, NEW id \in DOMAIN order_index, NEW new_qty \in Qty,
           NEW order, order = slab[order_index[id]].order,
           NEW q, q = QueueOf(order), q \in DOMAIN levels,
           SetQty(id, new_qty) \/ GrowAndMove(id, new_qty)
    PROVE  levels'[q].total_qty = Adjusted(levels[q].total_qty, order.qty, new_qty)
<1>1. levels[q] \in Level /\ levels[q].order_count \in Nat
  BY DEF Inv, TypeOK, Level
<1>2. PICK slot, level : slot = order_index[id] /\ level = LevelResized(slot, new_qty)
  OBVIOUS
<1>3. PICK total : total = Adjusted(levels[q].total_qty, order.qty, new_qty)  OBVIOUS
<1>4. level = WithCounters(levels[q], levels[q].order_count, total)
  BY <1>2, <1>3 DEF LevelResized
<1>5. CASE SetQty(id, new_qty)
  <2>1. levels'[q] = level  BY <1>2, <1>5 DEF SetQty
  <2> QED  BY <1>1, <1>3, <1>4, <2>1, EndsKeepTotal
<1>6. CASE GrowAndMove(id, new_qty)
  <2>1. PICK nodes : nodes = NodesResized(slot, new_qty)  OBVIOUS
  <2>2. levels'[q] = move_to_tail(nodes, level, slot).level
    BY <1>2, <1>6, <2>1 DEF GrowAndMove
  <2>3. \E head, tail : levels'[q] = level
                        \/ levels'[q] = WithEnds(level, head, tail)
    <3>1. \A ns, l, s : \E head, tail : link_tail(ns, l, s).level = WithEnds(l, head, tail)
      <4>1. \A ns, l, s : link_tail(ns, l, s).level = WithEnds(l, s, s)
                          \/ link_tail(ns, l, s).level = WithEnds(l, l.head, s)
        BY DEF link_tail
      <4> QED  BY <4>1
    <3>2. \A p, n : \E head, tail : unlink(nodes, level, p, n).level = WithEnds(level, head, tail)
      BY DEF unlink
    <3>3. \A h1, t1, h2, t2 :
            WithEnds(WithEnds(level, h1, t1), h2, t2) = WithEnds(level, h2, t2)
      BY <1>1, <1>4 DEF WithEnds, WithCounters, Level
    <3>4. move_to_tail(nodes, level, slot).level = level
          \/ \E ns, p, n : move_to_tail(nodes, level, slot).level
                             = link_tail(ns, unlink(nodes, level, p, n).level, slot).level
      BY DEF move_to_tail
    <3> QED  BY <2>2, <3>1, <3>2, <3>3, <3>4
  <2> QED  BY <1>1, <1>3, <1>4, <2>3, EndsKeepTotal
<1> QED  BY <1>5, <1>6

\* Where an order rests, and what rests there.
LEMMA RestingPlace ==
    ASSUME Inv, NEW id \in DOMAIN order_index, NEW slot, slot = order_index[id],
           NEW q, q = QueueOf(slab[slot].order), NEW b, b = Shown
    PROVE  /\ q \in Queue
           /\ \E i \in DOMAIN b[q] :
                /\ b[q][i].id = id /\ b[q][i] = slab[slot].order
                /\ Abstract!HomeOf(b, id) = q
                /\ Abstract!PlaceIn(b[q], id) = i
<1>1. PICK w : w = SlotsOf(q)  OBVIOUS
<1>2. q \in Queue /\ Abstract!get(b, id) = slab[slot].order  BY <1>1, ShownPlace
<1>3. \E i \in DOMAIN w :
        /\ w[i] = slot /\ i \in DOMAIN b[q] /\ b[q][i].id = id
        /\ Abstract!HomeOf(b, id) = q /\ Abstract!PlaceIn(b[q], id) = i
  BY <1>1, ShownPlace
<1>4. PICK i \in DOMAIN b[q] :
        /\ b[q][i].id = id
        /\ Abstract!HomeOf(b, id) = q /\ Abstract!PlaceIn(b[q], id) = i
  BY <1>3
<1>5. b[q][i] = slab[slot].order  BY <1>2, <1>4 DEF Abstract!get
<1> QED  BY <1>2, <1>4, <1>5

\* add keeps the totals exact.
LEMMA InsertKeepsTotals ==
    ASSUME Inv, Inv', TotalsExact, NEW order \in Order, InsertOrder(order)
    PROVE  TotalsExact'
<1>1. PICK q, b : q = QueueOf(order) /\ b = Shown  OBVIOUS
<1>2. /\ q \in Queue
      /\ DOMAIN levels' = DOMAIN levels \cup {q}
      /\ \A k \in DOMAIN levels : k # q => levels'[k] = levels[k]
  BY <1>1, InsertEffect, QueueOfType DEF Inv
<1>3. b \in [Queue -> Seq(Order)] /\ DOMAIN levels \subseteq Queue
  BY <1>1, ShownOnce DEF OneQueuePerId, Inv, TypeOK
<1>4. Shown' = [b EXCEPT ![q] = Append(b[q], order)]
  BY <1>1, InsertShows DEF Abstract!AppendOrder, Abstract!QueueOf, QueueOf
<1>5. ASSUME NEW k \in DOMAIN levels' PROVE AddsUp(Shown'[k], levels'[k].total_qty)
  <2>1. CASE k = q
    <3>1. PICK total : total = IF q \in DOMAIN levels THEN levels[q].total_qty ELSE 0  OBVIOUS
    <3>2. AddsUp(b[q], total)
      <4>1. CASE q \in DOMAIN levels  BY <1>1, <3>1, <4>1 DEF TotalsExact
      <4>2. CASE q \notin DOMAIN levels
        <5>1. b[q] = <<>>
          <6>1. PICK w : w = SlotsOf(q)  OBVIOUS
          <6>2. w = <<>> /\ Len(b[q]) = Len(w)
            BY <1>1, <1>2, <4>2, <6>1, ShownQueues
          <6>3. b[q] \in Seq(Order)  BY <1>2, <1>3
          <6> QED  BY <6>2, <6>3, EmptySeq
        <5> QED  BY <3>1, <4>2, <5>1, NothingAddsUp
      <4> QED  BY <4>1, <4>2
    <3>3. levels'[q].total_qty = WrapAdd(total, order.qty)  BY <1>1, <3>1, InsertTotal
    <3>4. AddsUp(Append(b[q], order), WrapAdd(total, order.qty))
      BY <1>2, <1>3, <3>2, OneMoreAddsUp
    <3> QED  BY <1>2, <1>3, <1>4, <2>1, <3>3, <3>4
  <2>2. CASE k # q
    BY <1>1, <1>2, <1>3, <1>4, <2>2 DEF TotalsExact
  <2> QED  BY <2>1, <2>2
<1> QED  BY <1>5 DEF TotalsExact

\* remove keeps them.
LEMMA TakeOutKeepsTotals ==
    ASSUME Inv, Inv', TotalsExact, NEW id \in DOMAIN order_index, TakeOut(id)
    PROVE  TotalsExact'
<1>1. PICK slot, q, b :
        slot = order_index[id] /\ q = QueueOf(slab[slot].order) /\ b = Shown
  OBVIOUS
<1>2. PICK i \in DOMAIN b[q] :
           /\ q \in Queue /\ b[q][i] = slab[slot].order
           /\ Abstract!HomeOf(b, id) = q
           /\ Abstract!PlaceIn(b[q], id) = i
  BY <1>1, RestingPlace
<1>3. b[q][i] = slab[slot].order  BY <1>2
<1>4. /\ \A k \in DOMAIN levels : k # q => levels'[k] = levels[k]
      /\ DOMAIN levels' \subseteq DOMAIN levels
  <2>1. TypeOK /\ IndexExact /\ LevelsExact  BY DEF Inv
  <2>2. \A k \in DOMAIN levels : k # q => levels'[k] = levels[k]
    BY ONLY <1>1, <2>1, id \in DOMAIN order_index, TakeOut(id), TakeOutEffect
  <2>3. levels' \in [DOMAIN levels \ {q} -> Level] \/ levels' \in [DOMAIN levels -> Level]
    BY ONLY <1>1, <2>1, id \in DOMAIN order_index, TakeOut(id), TakeOutEffect
  <2>4. DOMAIN levels' \subseteq DOMAIN levels  BY <2>3
  <2> QED  BY <2>2, <2>4
<1>5. b \in [Queue -> Seq(Order)] /\ DOMAIN levels \subseteq Queue
  BY <1>1, ShownOnce DEF OneQueuePerId, Inv, TypeOK
<1>6. Shown' = [b EXCEPT ![q] = Abstract!Lists!RemoveAt(b[q], i)]
  BY <1>1, <1>2, TakeOutShows DEF Abstract!DropOrder
<1>7. ASSUME NEW k \in DOMAIN levels' PROVE AddsUp(Shown'[k], levels'[k].total_qty)
  <2>1. CASE k = q
    <3>1. PICK total, qty : total = levels[q].total_qty /\ qty = slab[slot].order.qty
      OBVIOUS
    <3>2. q \in DOMAIN levels /\ q \in DOMAIN levels'  BY <1>4, <2>1
    <3>3. levels'[q].total_qty = WrapSub(total, qty)  BY <1>1, <3>1, <3>2, TakeOutTotal
    <3>4. b[q] \in Seq(Order) /\ AddsUp(b[q], total) /\ qty = b[q][i].qty
      BY <1>1, <1>2, <1>3, <1>5, <3>1, <3>2 DEF TotalsExact
    <3>5. AddsUp(Abstract!Lists!RemoveAt(b[q], i), WrapSub(total, qty))
      BY <1>2, <3>4, OneLessAddsUp
    <3> QED  BY <1>2, <1>5, <1>6, <2>1, <3>3, <3>5
  <2>2. CASE k # q
    BY <1>1, <1>4, <1>5, <1>6, <2>2 DEF TotalsExact
  <2> QED  BY <2>1, <2>2
<1> QED  BY <1>7 DEF TotalsExact

\* One order of one queue has a new quantity.
OneResized(b, r, q, i, new_qty) ==
    /\ b[q] \in Seq(Order) /\ Len(r[q]) = Len(b[q]) /\ DOMAIN r[q] = DOMAIN b[q]
    /\ \A n \in DOMAIN b[q] : r[q][n].qty = IF n = i THEN new_qty ELSE b[q][n].qty
    /\ \A k \in Queue : k # q => r[k] = b[k]

\* What one new quantity leaves of every queue.
LEMMA ResizedQueues ==
    ASSUME Inv, NEW id \in DOMAIN order_index, NEW new_qty \in Qty,
           NEW q, q = QueueOf(slab[order_index[id]].order),
           NEW b, b = Shown, NEW r, r = Abstract!Resize(b, id, new_qty),
           NEW i \in DOMAIN b[q], b[q][i].id = id
    PROVE  OneResized(b, r, q, i, new_qty)
<1>1. q \in Queue  BY ShownPlace
<1>2. OneQueuePerId(b)  BY ShownOnce
<1>3. b \in [Queue -> Seq(Order)]  BY <1>2 DEF OneQueuePerId
<1>4. \A k \in Queue : \A n \in DOMAIN b[k] : b[k][n].id = id => k = q /\ n = i
  BY <1>1, <1>2 DEF OneQueuePerId
<1>5. \A k \in Queue : r[k] = [n \in DOMAIN b[k] |->
                         IF b[k][n].id = id THEN [b[k][n] EXCEPT !.qty = new_qty] ELSE b[k][n]]
  BY <1>3 DEF Abstract!Resize
<1>6. ASSUME NEW k \in Queue, k # q PROVE r[k] = b[k]
  <2>1. \A n \in DOMAIN b[k] : b[k][n].id # id  BY <1>4, <1>6
  <2>2. r[k] = [n \in DOMAIN b[k] |-> b[k][n]]  BY <1>5, <2>1
  <2>3. b[k] \in Seq(Order)  BY <1>3
  <2> QED  BY <2>2, <2>3
<1>7. ASSUME NEW n \in DOMAIN b[q]
      PROVE  r[q][n].qty = IF n = i THEN new_qty ELSE b[q][n].qty
  <2>1. PICK o : o = b[q][n]  OBVIOUS
  <2>2. o \in Order  BY <1>1, <1>3, <2>1, ElementOfSeq, LenProperties
  <2>3. r[q][n] = IF o.id = id THEN [o EXCEPT !.qty = new_qty] ELSE o
    <3>1. PICK row : row = b[q]  OBVIOUS
    <3>2. r[q] = [j \in DOMAIN row |->
                    IF row[j].id = id THEN [row[j] EXCEPT !.qty = new_qty] ELSE row[j]]
      BY <1>1, <1>5, <3>1
    <3>3. n \in DOMAIN row /\ row[n] = o  BY <2>1, <3>1
    <3> QED  BY <3>2, <3>3
  <2>4. o.id = id <=> n = i  BY <1>1, <1>4, <2>1
  <2>5. [o EXCEPT !.qty = new_qty].qty = new_qty  BY <2>2 DEF Order
  <2> QED  BY <2>1, <2>3, <2>4, <2>5
<1>8. b[q] \in Seq(Order) /\ Len(r[q]) = Len(b[q]) /\ DOMAIN r[q] = DOMAIN b[q]
  <2>1. \A k \in Queue : DOMAIN r[k] = DOMAIN b[k] /\ Len(r[k]) = Len(b[k])
    BY <1>2, ResizedOnce
  <2> QED  BY <1>1, <1>3, <2>1
<1> QED  BY <1>6, <1>7, <1>8 DEF OneResized

\* A new quantity keeps the totals exact.
LEMMA SetQtyKeepsTotals ==
    ASSUME Inv, Inv', TotalsExact, NEW id \in DOMAIN order_index, NEW new_qty \in Qty,
           SetQty(id, new_qty)
    PROVE  TotalsExact'
<1>1. PICK slot, q, b, r :
        /\ slot = order_index[id] /\ q = QueueOf(slab[slot].order)
        /\ b = Shown /\ r = Abstract!Resize(b, id, new_qty)
  OBVIOUS
<1>2. PICK i \in DOMAIN b[q] :
        q \in Queue /\ b[q][i].id = id /\ b[q][i] = slab[slot].order
  BY <1>1, RestingPlace
<1>3. b[q][i] = slab[slot].order  BY <1>2
<1>4. /\ b[q] \in Seq(Order) /\ Len(r[q]) = Len(b[q])
      /\ \A n \in DOMAIN b[q] : r[q][n].qty = IF n = i THEN new_qty ELSE b[q][n].qty
      /\ \A k \in Queue : k # q => r[k] = b[k]
  <2>1. OneResized(b, r, q, i, new_qty)  BY <1>1, <1>2, ResizedQueues
  <2> QED  BY <2>1 DEF OneResized
<1>5. Shown' = r  BY <1>1, SetQtyShows
<1>6. /\ DOMAIN levels' = DOMAIN levels /\ DOMAIN levels \subseteq Queue
      /\ \A k \in DOMAIN levels : k # q => levels'[k] = levels[k]
  BY <1>1 DEF SetQty, Inv, TypeOK
<1>7. ASSUME NEW k \in DOMAIN levels' PROVE AddsUp(Shown'[k], levels'[k].total_qty)
  <2>1. CASE k = q
    <3>1. PICK total, old : total = levels[q].total_qty /\ old = slab[slot].order.qty
      OBVIOUS
    <3>2. AddsUp(b[q], total) /\ old = b[q][i].qty
      BY <1>1, <1>3, <1>6, <2>1, <3>1 DEF TotalsExact
    <3>3. levels'[q].total_qty = Adjusted(total, old, new_qty)
      BY <1>1, <1>6, <2>1, <3>1, ResizedTotal
    <3>4. AddsUp(r[q], Adjusted(total, old, new_qty))
      BY <1>2, <1>4, <3>2, ResizedAddsUp
    <3> QED  BY <1>5, <2>1, <3>3, <3>4
  <2>2. CASE k # q
    BY <1>1, <1>4, <1>5, <1>6, <2>2 DEF TotalsExact
  <2> QED  BY <2>1, <2>2
<1> QED  BY <1>7 DEF TotalsExact

\* So does one that costs the order its place: leaving and joining again.
LEMMA GrowAndMoveKeepsTotals ==
    ASSUME Inv, Inv', TotalsExact, NEW id \in DOMAIN order_index, NEW new_qty \in Qty,
           GrowAndMove(id, new_qty)
    PROVE  TotalsExact'
<1>1. PICK slot, q, b, r :
        /\ slot = order_index[id] /\ q = QueueOf(slab[slot].order)
        /\ b = Shown /\ r = Abstract!Resize(b, id, new_qty)
  OBVIOUS
<1>2. PICK i \in DOMAIN b[q] :
        q \in Queue /\ b[q][i].id = id /\ b[q][i] = slab[slot].order
  BY <1>1, RestingPlace
<1>3. b[q][i] = slab[slot].order  BY <1>2
<1>4. /\ b[q] \in Seq(Order) /\ Len(r[q]) = Len(b[q]) /\ DOMAIN r[q] = DOMAIN b[q]
      /\ \A n \in DOMAIN b[q] : r[q][n].qty = IF n = i THEN new_qty ELSE b[q][n].qty
      /\ \A k \in Queue : k # q => r[k] = b[k]
  <2>1. OneResized(b, r, q, i, new_qty)  BY <1>1, <1>2, ResizedQueues
  <2> QED  BY <2>1 DEF OneResized
<1>5. OneQueuePerId(r) /\ r[q][i].id = id
  <2>1. OneQueuePerId(b)  BY <1>1, ShownOnce
  <2>2. OneQueuePerId(r)  BY <1>1, <2>1, ResizedOnce
  <2>3. \A k \in Queue : \A n \in DOMAIN b[k] : r[k][n].id = b[k][n].id
    BY <1>1, <2>1, ResizedOnce
  <2> QED  BY <1>2, <2>2, <2>3
<1>6. PICK row, o : row = r[q] /\ o = row[i]  OBVIOUS
<1>7. /\ row \in Seq(Order) /\ o \in Order /\ i \in DOMAIN row /\ QueueOf(o) = q
      /\ r \in [Queue -> Seq(Order)] /\ o.qty = new_qty
  <2>1. r \in [Queue -> Seq(Order)]  BY <1>5 DEF OneQueuePerId
  <2>2. row \in Seq(Order) /\ i \in DOMAIN row  BY <1>2, <1>4, <1>6, <2>1
  <2>3. o \in Order  BY <1>6, <2>2, ElementOfSeq, LenProperties
  <2>4. QueueOf(o) = q  BY <1>2, <1>5, <1>6, <2>2 DEF OneQueuePerId
  <2>5. o.qty = new_qty  BY <1>2, <1>4, <1>6
  <2> QED  BY <2>1, <2>2, <2>3, <2>4, <2>5
<1>8. /\ Abstract!HomeOf(r, id) = q /\ Abstract!PlaceIn(row, id) = i
      /\ Abstract!get(r, id) = o
  BY <1>2, <1>5, <1>6, <1>7, FoundWhereItRests
<1>9. PICK less, d : /\ less = Abstract!Lists!RemoveAt(row, i)
                     /\ d = [r EXCEPT ![q] = less]
  OBVIOUS
<1>10. Shown' = [d EXCEPT ![q] = Append(d[q], o)]
  <2>1. Abstract!DropOrder(r, id) = d  BY <1>6, <1>8, <1>9 DEF Abstract!DropOrder
  <2>2. Abstract!AppendOrder(d, o) = [d EXCEPT ![q] = Append(d[q], o)]
    BY <1>7 DEF Abstract!AppendOrder, Abstract!QueueOf, QueueOf
  <2>3. Shown' = Abstract!MoveToTail(r, id)  BY <1>1, GrowAndMoveShows
  <2> QED  BY <1>8, <2>1, <2>2, <2>3 DEF Abstract!MoveToTail
<1>11. /\ Shown'[q] = Append(less, o)
       /\ \A k \in Queue : k # q => Shown'[k] = r[k]
  BY <1>2, <1>7, <1>9, <1>10
<1>12. /\ DOMAIN levels' = DOMAIN levels /\ DOMAIN levels \subseteq Queue
       /\ \A k \in DOMAIN levels : k # q => levels'[k] = levels[k]
  BY <1>1 DEF GrowAndMove, Inv, TypeOK
<1>13. ASSUME NEW k \in DOMAIN levels' PROVE AddsUp(Shown'[k], levels'[k].total_qty)
  <2>1. CASE k = q
    <3>1. PICK total, old, after :
            /\ total = levels[q].total_qty /\ old = slab[slot].order.qty
            /\ after = Adjusted(total, old, new_qty)
      OBVIOUS
    <3>2. AddsUp(b[q], total) /\ old = b[q][i].qty
      BY <1>1, <1>3, <1>12, <2>1, <3>1 DEF TotalsExact
    <3>3. levels'[q].total_qty = after
      BY <1>1, <1>12, <2>1, <3>1, ResizedTotal
    <3>4. AddsUp(row, after)
      BY <1>2, <1>4, <1>6, <3>1, <3>2, ResizedAddsUp
    <3>5. AddsUp(less, WrapSub(after, new_qty))
      BY <1>6, <1>7, <1>9, <3>4, OneLessAddsUp
    <3>6. less \in Seq(Order)
      <4>1. PICK S : S = Order  OBVIOUS
      <4>2. row \in Seq(S) /\ i \in DOMAIN row  BY <1>7, <4>1
      <4>3. less \in Seq(S)  BY ONLY <1>9, <4>2, OneLess
      <4> QED  BY <4>1, <4>3
    <3>7. AddsUp(Append(less, o), WrapAdd(WrapSub(after, new_qty), new_qty))
      BY <1>7, <3>5, <3>6, OneMoreAddsUp
    <3>8. after \in Qty
      <4>1. q \in DOMAIN levels'  BY <2>1
      <4>2. levels'[q] \in Level  BY <4>1 DEF Inv, TypeOK
      <4> QED  BY <3>3, <4>2 DEF Level
    <3> QED  BY <1>11, <2>1, <3>3, <3>7, <3>8, OffAndOn
  <2>2. CASE k # q
    BY <1>1, <1>4, <1>11, <1>12, <2>2 DEF TotalsExact
  <2> QED  BY <2>1, <2>2
<1> QED  BY <1>13 DEF TotalsExact

\* A book without levels has no total to get wrong.
LEMMA NoTotals == NoLevels => TotalsExact
BY DEF NoLevels, TotalsExact

\* Nor has one after clear.
LEMMA NoTotalsNext == NoLevels' => TotalsExact'
<1>1. NoLevels => TotalsExact  BY NoTotals
<1> QED  BY <1>1, PTL

\* A call that changes no slot and no level keeps the totals.
LEMMA SameBookKeepsTotals ==
    ASSUME Inv, Inv', TotalsExact, UNCHANGED <<slab, levels>>
    PROVE  TotalsExact'
<1>1. Shown' = Shown  BY SameShows
<1> QED  BY <1>1 DEF TotalsExact

\* Every call keeps the totals exact.
LEMMA StepKeepsTotals == Inv /\ Inv' /\ TotalsExact /\ [Next]_vars => TotalsExact'
<1> SUFFICES ASSUME Inv, Inv', TotalsExact, [Next]_vars PROVE TotalsExact'  OBVIOUS
<1>1. ASSUME NEW error, Fail(error) PROVE TotalsExact'
  BY <1>1, SameBookKeepsTotals DEF Fail
<1>2. ASSUME NEW order \in Order, add(order) PROVE TotalsExact'
  BY <1>1, <1>2, InsertKeepsTotals DEF add
<1>3. ASSUME NEW id \in OrderId, remove(id) PROVE TotalsExact'
  BY <1>1, <1>3, TakeOutKeepsTotals DEF remove, Rests
<1>4. ASSUME NEW id \in OrderId, NEW new_qty \in Qty, update_size(id, new_qty)
      PROVE  TotalsExact'
  <2>1. CASE Rests(id) /\ SetQty(id, new_qty)  BY <2>1, SetQtyKeepsTotals DEF Rests
  <2>2. CASE Rests(id) /\ TakeOut(id)  BY <2>2, TakeOutKeepsTotals DEF Rests
  <2>3. CASE Fail("UnknownOrderId") \/ Fail("NonDecreasingSize")  BY <1>1, <2>3
  <2> QED  BY <1>4, <2>1, <2>2, <2>3 DEF update_size
<1>5. ASSUME NEW id \in OrderId, NEW new_qty \in Qty, NEW policy \in AmendPriorityPolicy,
             amend_size_with_policy(id, new_qty, policy)
      PROVE  TotalsExact'
  <2>1. CASE remove(id)  BY <1>3, <2>1
  <2>2. CASE Fail("UnknownOrderId") \/ Fail("Ok")  BY <1>1, <2>2
  <2>3. CASE Rests(id) /\ SetQty(id, new_qty)  BY <2>3, SetQtyKeepsTotals DEF Rests
  <2>4. CASE Rests(id) /\ GrowAndMove(id, new_qty)
    BY <2>4, GrowAndMoveKeepsTotals DEF Rests
  <2> QED  BY <1>5, <2>1, <2>2, <2>3, <2>4 DEF amend_size_with_policy
<1>6. CASE clear
  <2>1. NoLevels'  BY <1>6 DEF clear, EmptyMap, NoLevels
  <2> QED  BY <2>1, NoTotalsNext
<1>7. CASE UNCHANGED vars  BY <1>7, SameBookKeepsTotals DEF vars
<1> QED  BY <1>2, <1>3, <1>4, <1>5, <1>6, <1>7 DEF Next

\* Sets between which each element has one partner have as many elements.
LEMMA Paired ==
    ASSUME NEW S, NEW T, IsFiniteSet(S), NEW f \in [S -> T],
           \A x, y \in S : f[x] = f[y] => x = y,
           \A t \in T : \E x \in S : f[x] = t
    PROVE  Cardinality(T) = Cardinality(S)
<1>1. f \in Bijection(S, T)  BY Fun_IsBij
<1>2. ExistsBijection(S, T)  BY <1>1 DEF ExistsBijection
<1> QED  BY <1>2, FS_Bijection

\* In a sound book with exact totals every assertion holds.
LEMMA AssertionsHold == Inv /\ TotalsExact => AssertInvariants
<1> SUFFICES ASSUME Inv, TotalsExact PROVE AssertInvariants  OBVIOUS
<1>1. ASSUME NEW q \in DOMAIN levels, NEW w, w = SlotsOf(q)
      PROVE  /\ \A i \in DOMAIN w : QueueOf(slab[w[i]].order) = q
             /\ levels[q].order_count = Len(w)
             /\ levels[q].total_qty = TotalQty(orders_at(q)) % QtyLimit
             /\ levels[q].tail = w[Len(w)]
  <2>1. q \in Queue  BY DEF Inv, TypeOK
  <2>2. PICK row : row = Shown[q]  OBVIOUS
  <2>3. /\ w \in Seq(SlotsAt(q)) /\ Len(w) \in Nat /\ DOMAIN w = 1 .. Len(w)
        /\ \A i \in DOMAIN w : w[i] \in DOMAIN slab /\ QueueOf(slab[w[i]].order) = q
        /\ \A i, j \in DOMAIN w : w[i] = w[j] => i = j
        /\ \A s \in DOMAIN slab : QueueOf(slab[s].order) = q => \E i \in DOMAIN w : w[i] = s
        /\ row \in Seq(Order)
    BY <1>1, <2>1, <2>2, SlotsPassed, ShownOnce DEF Passes, OneQueuePerId
  <2>4. levels[q].order_count = Len(w)
    <3>1. PICK n \in Nat : n = Len(w)  BY <2>3
    <3>2. IsFiniteSet(1 .. n) /\ Cardinality(1 .. n) = n  BY FS_Interval
    <3>3. w \in [1 .. n -> SlotsAt(q)]  BY <2>3, <3>1
    <3>4. \A i, j \in 1 .. n : w[i] = w[j] => i = j  BY <2>3, <3>1
    <3>5. \A s \in SlotsAt(q) : \E i \in 1 .. n : w[i] = s  BY <2>3, <3>1 DEF SlotsAt
    <3>6. Cardinality(SlotsAt(q)) = n  BY <3>2, <3>3, <3>4, <3>5, Paired
    <3> QED  BY <3>1, <3>6 DEF Inv, LevelsExact
  <2>5. levels[q].total_qty = TotalQty(orders_at(q)) % QtyLimit
    <3>1. PICK p : Running(row, p) /\ levels[q].total_qty = p[Len(row)] % QtyLimit
      BY <2>2 DEF TotalsExact, AddsUp
    <3>2. TotalQty(row) = p[Len(row)]  BY <2>3, <3>1, RunningTotal
    <3>3. row = orders_at(q)  BY <2>1, <2>2 DEF Shown
    <3> QED  BY <3>1, <3>2, <3>3
  <2>6. levels[q].tail = w[Len(w)]  BY <1>1, WalkIsComplete DEF WalkOf
  <2> QED  BY <2>3, <2>4, <2>5, <2>6
<1>2. Cardinality(DOMAIN order_index) = Cardinality(DOMAIN slab)
  <2>1. PICK S, T, f : S = DOMAIN slab /\ T = DOMAIN order_index
                       /\ f = [s \in S |-> slab[s].order.id]
    OBVIOUS
  <2>2. IsFiniteSet(S)  BY <2>1, SlabFinite DEF Inv
  <2>3. f \in [S -> T]  BY <2>1 DEF Inv, IndexExact
  <2>4. \A s, t \in S : f[s] = f[t] => s = t  BY <2>1 DEF Inv, IndexExact
  <2>5. \A id \in T : \E s \in S : f[s] = id  BY <2>1 DEF Inv, IndexExact
  <2>6. Cardinality(T) = Cardinality(S)  BY <2>2, <2>3, <2>4, <2>5, Paired
  <2> QED  BY <2>1, <2>6
<1> QED  BY <1>1, <1>2 DEF AssertInvariants

\* assert_invariants never fails, whatever was called before.
THEOREM AssertionsNeverFail == Spec => []AssertInvariants
<1>1. Spec => []Inv  BY BookIsConsistent
<1>2. Init => TotalsExact
  <2>1. Init => NoLevels  BY DEF Init, EmptyMap, NoLevels
  <2> QED  BY <2>1, NoTotals
<1>3. Spec => []TotalsExact  BY <1>1, <1>2, StepKeepsTotals, PTL DEF Spec
<1> QED  BY <1>1, <1>3, AssertionsHold, PTL
=============================================================================
