---------------------------- MODULE DwellirProofs ----------------------------
(***************************************************************************)
(* The programs behind the Dwellir feed.                                   *)
(*                                                                         *)
(* DwellirFeed: whatever the venue does and however its blocks are cut,    *)
(* the book is the venue's in the book's units (Mirrors), but for the      *)
(* orders that the feed does not describe.  The argument goes one diff at  *)
(* a time: the operation that a diff becomes, if any, takes a book that    *)
(* follows the venue to one that follows it still (Tells, Followed), and   *)
(* what is derived twice, or refused, is of an order that is hidden or is  *)
(* too slight a fill (Passes).  The inductive invariant is therefore about *)
(* the block that is still open: decoded and applied it would bring the    *)
(* book to where the venue is (BlockFollowed), for a block of any length.  *)
(*                                                                         *)
(* DebugLogger: the limit of its errors, and what its log shows.  Nothing  *)
(* there depends on what the operations do to the book, only on which      *)
(* record each step leaves behind.                                         *)
(*                                                                         *)
(* CaptureFile: what a replay counts.  The loaded capture is cut by lines  *)
(* and the file by messages; the diffs and the statuses that each holds    *)
(* are shown to be the same ones, and each part of the count is a sum over *)
(* them, so the counts agree (Tally, FileInv).                             *)
(***************************************************************************)
EXTENDS DwellirFeed, DebugLogger, CaptureFile, BookQueuesProofs

\* What the first n diffs of a block become.
DecodedUpTo(n, run, block, told) ==
    /\ run = [i \in 0 .. n |-> run[i]]
    /\ run[0] = EmptyBatch
    /\ \A i \in 1 .. n : run[i] = DecodeDiff(run[i - 1], block[i], told)

\* The definition of decode_updates_with_meta, unfolded.
LEMMA DecodedRuns ==
  ASSUME NEW S, NEW block \in Seq(S), NEW told
  PROVE  \E run : /\ DecodedUpTo(Len(block), run, block, told)
                  /\ decode_updates_with_meta(block, told) = run[Len(block)]
<1> DEFINE N == Len(block)
           T == {n \in Nat : \E f : DecodedUpTo(n, f, block, told)}
<1>0. N \in Nat  OBVIOUS
<1>1. 0 \in T
  <2>1. PICK f : f = [i \in 0 .. 0 |-> EmptyBatch]  OBVIOUS
  <2>2. f = [i \in 0 .. 0 |-> f[i]] /\ f[0] = EmptyBatch  BY <2>1
  <2>3. DecodedUpTo(0, f, block, told)  BY <2>2 DEF DecodedUpTo
  <2> QED  BY <2>3
<1>2. ASSUME NEW n \in Nat, n \in T PROVE n + 1 \in T
  <2>1. PICK f : DecodedUpTo(n, f, block, told)  BY <1>2
  <2>2. PICK m : m = DecodeDiff(f[n], block[n + 1], told)  OBVIOUS
  <2>3. PICK g : g = [i \in 0 .. (n + 1) |-> IF i = n + 1 THEN m ELSE f[i]]  OBVIOUS
  <2>4. \A i \in 0 .. n : g[i] = f[i]
    <3> SUFFICES ASSUME NEW i \in 0 .. n PROVE g[i] = f[i]  OBVIOUS
    <3>1. i \in 0 .. (n + 1) /\ i # n + 1  OBVIOUS
    <3> QED  BY <2>3, <3>1
  <2>5. g[n + 1] = m  BY <2>3
  <2>6. ASSUME NEW i \in 1 .. (n + 1) PROVE g[i] = DecodeDiff(g[i - 1], block[i], told)
    <3>1. CASE i = n + 1
      <4>1. i - 1 = n /\ g[i - 1] = f[n]  BY <2>4, <3>1
      <4> QED  BY <2>2, <2>5, <3>1, <4>1
    <3>2. CASE i # n + 1
      <4>1. i \in 1 .. n /\ i \in 0 .. n /\ i - 1 \in 0 .. n  BY <3>2
      <4>2. g[i] = f[i] /\ g[i - 1] = f[i - 1]  BY <2>4, <4>1
      <4> QED  BY <2>1, <4>1, <4>2 DEF DecodedUpTo
    <3> QED  BY <3>1, <3>2
  <2>7. g = [i \in 0 .. (n + 1) |-> g[i]]  BY <2>3
  <2>8. g[0] = EmptyBatch  BY <2>1, <2>4 DEF DecodedUpTo
  <2>9. DecodedUpTo(n + 1, g, block, told)  BY <2>6, <2>7, <2>8 DEF DecodedUpTo
  <2> QED  BY <2>9
<1>3. N \in T
  <2> HIDE DEF T
  <2>1. Nat \subseteq T  BY <1>1, <1>2, NumbersByInduction
  <2> QED  BY <1>0, <2>1
<1>4. PICK f : DecodedUpTo(N, f, block, told)  BY <1>3
<1> HIDE DEF T
<1> DEFINE Recurs(h) ==
             h = [n \in 0 .. Len(block) |-> IF n = 0 THEN EmptyBatch ELSE DecodeDiff(h[n - 1], block[n], told)]
           upto == CHOOSE h : Recurs(h)
<1>5. decode_updates_with_meta(block, told) = upto[Len(block)]  BY DEF decode_updates_with_meta
<1>6. Recurs(f)
  <2>1. ASSUME NEW n \in 0 .. N
        PROVE  f[n] = IF n = 0 THEN EmptyBatch ELSE DecodeDiff(f[n - 1], block[n], told)
    <3>1. CASE n = 0  BY <1>4, <3>1 DEF DecodedUpTo
    <3>2. CASE n # 0
      <4>1. n \in 1 .. N  BY <1>0, <3>2
      <4> QED  BY <1>4, <3>2, <4>1 DEF DecodedUpTo
    <3> QED  BY <3>1, <3>2
  <2>2. f = [i \in 0 .. N |-> f[i]]  BY <1>4 DEF DecodedUpTo
  <2> QED  BY <2>1, <2>2
<1>7. Recurs(upto)
  <2> HIDE DEF Recurs
  <2> QED  BY <1>6
<1>8. PICK h : h = upto  OBVIOUS
<1> HIDE DEF upto
<1>9. Recurs(h)
  <2> HIDE DEF Recurs
  <2> QED  BY <1>7, <1>8
<1>10. \A n \in 0 .. N : h[n] = IF n = 0 THEN EmptyBatch ELSE DecodeDiff(h[n - 1], block[n], told)
  BY <1>9
<1>11. h = [i \in 0 .. N |-> h[i]]  BY <1>9
<1> HIDE DEF Recurs, N
<1>12. h[0] = EmptyBatch
  <2>1. 0 \in 0 .. N  BY <1>0
  <2> QED  BY <1>10, <2>1, Zenon
<1>13. ASSUME NEW i \in 1 .. N PROVE h[i] = DecodeDiff(h[i - 1], block[i], told)
  <2>1. i \in 0 .. N /\ i # 0  BY <1>0
  <2> QED  BY <1>10, <2>1
<1>14. DecodedUpTo(N, h, block, told)  BY <1>11, <1>12, <1>13 DEF DecodedUpTo
<1> QED  BY <1>5, <1>8, <1>14 DEF N

\* One more diff of the block.
LEMMA DecodedOnAppend ==
  ASSUME NEW S, NEW block \in Seq(S), NEW last \in S, NEW told
  PROVE  decode_updates_with_meta(Append(block, last), told) = DecodeDiff(decode_updates_with_meta(block, told), last, told)
<1>1. PICK longer : longer = Append(block, last)  OBVIOUS
<1>2. /\ longer \in Seq(S) /\ Len(block) \in Nat /\ Len(longer) = Len(block) + 1
      /\ \A i \in 1 .. Len(block) : longer[i] = block[i]
      /\ longer[Len(block) + 1] = last
  BY <1>1
<1>3. PICK N : N = Len(block)  OBVIOUS
<1>4. PICK f : DecodedUpTo(N, f, block, told) /\ decode_updates_with_meta(block, told) = f[N]  BY <1>3, DecodedRuns
<1>5. PICK g : /\ DecodedUpTo(N + 1, g, longer, told)
               /\ decode_updates_with_meta(longer, told) = g[N + 1]
  <2>1. \E g : /\ DecodedUpTo(Len(longer), g, longer, told)
                /\ decode_updates_with_meta(longer, told) = g[Len(longer)]
    BY <1>2, DecodedRuns
  <2> QED  BY <1>2, <1>3, <2>1
<1>6. N \in Nat  BY <1>2, <1>3
<1> DEFINE T == {n \in Nat : n <= N => g[n] = f[n]}
<1>7. 0 \in T  BY <1>4, <1>5 DEF DecodedUpTo
<1>8. ASSUME NEW n \in Nat, n \in T PROVE n + 1 \in T
  <2> SUFFICES ASSUME n + 1 <= N PROVE g[n + 1] = f[n + 1]  OBVIOUS
  <2>1. n <= N /\ n + 1 \in 1 .. N /\ n + 1 \in 1 .. (N + 1) /\ (n + 1) - 1 = n  BY <1>6
  <2>2. g[n] = f[n]  BY <1>8, <2>1
  <2>3. longer[n + 1] = block[n + 1]  BY <1>2, <1>3, <2>1
  <2>4. f[n + 1] = DecodeDiff(f[(n + 1) - 1], block[n + 1], told)  BY <1>4, <2>1 DEF DecodedUpTo
  <2>5. g[n + 1] = DecodeDiff(g[(n + 1) - 1], longer[n + 1], told)  BY <1>5, <2>1 DEF DecodedUpTo
  <2> QED  BY <2>1, <2>2, <2>3, <2>4, <2>5
<1>9. g[N] = f[N]
  <2> HIDE DEF T
  <2>1. Nat \subseteq T  BY <1>7, <1>8, NumbersByInduction
  <2>2. N \in T /\ N <= N  BY <1>6, <2>1
  <2> QED  BY <2>2 DEF T
<1>10. N + 1 \in 1 .. (N + 1) /\ (N + 1) - 1 = N  BY <1>6
<1>11. g[N + 1] = DecodeDiff(g[(N + 1) - 1], longer[N + 1], told)  BY <1>5, <1>10 DEF DecodedUpTo
<1> QED  BY <1>1, <1>2, <1>3, <1>4, <1>5, <1>9, <1>10, <1>11

\* A block without diffs.
LEMMA DecodedNothing ==
  ASSUME NEW told
  PROVE  decode_updates_with_meta(<<>>, told) = EmptyBatch
<1>1. PICK none : none = <<>>  OBVIOUS
<1>2. none \in Seq({}) /\ Len(none) = 0  BY <1>1
<1>3. PICK f : DecodedUpTo(0, f, none, told) /\ decode_updates_with_meta(none, told) = f[0]
  <2>1. \E f : DecodedUpTo(Len(none), f, none, told) /\ decode_updates_with_meta(none, told) = f[Len(none)]
    BY <1>2, DecodedRuns
  <2> QED  BY <1>2, <2>1
<1> QED  BY <1>1, <1>3 DEF DecodedUpTo

\* A replica before the first operation of a message.
Untouched(b) == [book |-> b, refused |-> {}]

\* The replica after the first n operations of a message.
ConsumedUpTo(n, run, ops, b) ==
    /\ run = [i \in 0 .. n |-> run[i]]
    /\ run[0] = Untouched(b)
    /\ \A i \in 1 .. n : run[i] = Consume(run[i - 1], ops[i])

\* The definition of ConsumeAll, unfolded.
LEMMA ConsumedRuns ==
  ASSUME NEW S, NEW ops \in Seq(S), NEW b
  PROVE  \E run : /\ ConsumedUpTo(Len(ops), run, ops, b)
                  /\ ConsumeAll(b, ops) = run[Len(ops)]
<1> DEFINE N == Len(ops)
           T == {n \in Nat : \E f : ConsumedUpTo(n, f, ops, b)}
<1>0. N \in Nat  OBVIOUS
<1>1. 0 \in T
  <2>1. PICK f : f = [i \in 0 .. 0 |-> Untouched(b)]  OBVIOUS
  <2>2. f = [i \in 0 .. 0 |-> f[i]] /\ f[0] = Untouched(b)  BY <2>1
  <2>3. ConsumedUpTo(0, f, ops, b)  BY <2>2 DEF ConsumedUpTo
  <2> QED  BY <2>3
<1>2. ASSUME NEW n \in Nat, n \in T PROVE n + 1 \in T
  <2>1. PICK f : ConsumedUpTo(n, f, ops, b)  BY <1>2
  <2>2. PICK m : m = Consume(f[n], ops[n + 1])  OBVIOUS
  <2>3. PICK g : g = [i \in 0 .. (n + 1) |-> IF i = n + 1 THEN m ELSE f[i]]  OBVIOUS
  <2>4. \A i \in 0 .. n : g[i] = f[i]
    <3> SUFFICES ASSUME NEW i \in 0 .. n PROVE g[i] = f[i]  OBVIOUS
    <3>1. i \in 0 .. (n + 1) /\ i # n + 1  OBVIOUS
    <3> QED  BY <2>3, <3>1
  <2>5. g[n + 1] = m  BY <2>3
  <2>6. ASSUME NEW i \in 1 .. (n + 1) PROVE g[i] = Consume(g[i - 1], ops[i])
    <3>1. CASE i = n + 1
      <4>1. i - 1 = n /\ g[i - 1] = f[n]  BY <2>4, <3>1
      <4> QED  BY <2>2, <2>5, <3>1, <4>1
    <3>2. CASE i # n + 1
      <4>1. i \in 1 .. n /\ i \in 0 .. n /\ i - 1 \in 0 .. n  BY <3>2
      <4>2. g[i] = f[i] /\ g[i - 1] = f[i - 1]  BY <2>4, <4>1
      <4> QED  BY <2>1, <4>1, <4>2 DEF ConsumedUpTo
    <3> QED  BY <3>1, <3>2
  <2>7. g = [i \in 0 .. (n + 1) |-> g[i]]  BY <2>3
  <2>8. g[0] = Untouched(b)  BY <2>1, <2>4 DEF ConsumedUpTo
  <2>9. ConsumedUpTo(n + 1, g, ops, b)  BY <2>6, <2>7, <2>8 DEF ConsumedUpTo
  <2> QED  BY <2>9
<1>3. N \in T
  <2> HIDE DEF T
  <2>1. Nat \subseteq T  BY <1>1, <1>2, NumbersByInduction
  <2> QED  BY <1>0, <2>1
<1>4. PICK f : ConsumedUpTo(N, f, ops, b)  BY <1>3
<1> HIDE DEF T
<1> DEFINE Recurs(h) ==
             h = [n \in 0 .. Len(ops) |-> IF n = 0 THEN Untouched(b) ELSE Consume(h[n - 1], ops[n])]
           upto == CHOOSE h : Recurs(h)
<1>5. ConsumeAll(b, ops) = upto[Len(ops)]  BY DEF ConsumeAll, Untouched
<1>6. Recurs(f)
  <2>1. ASSUME NEW n \in 0 .. N
        PROVE  f[n] = IF n = 0 THEN Untouched(b) ELSE Consume(f[n - 1], ops[n])
    <3>1. CASE n = 0  BY <1>4, <3>1 DEF ConsumedUpTo
    <3>2. CASE n # 0
      <4>1. n \in 1 .. N  BY <1>0, <3>2
      <4> QED  BY <1>4, <3>2, <4>1 DEF ConsumedUpTo
    <3> QED  BY <3>1, <3>2
  <2>2. f = [i \in 0 .. N |-> f[i]]  BY <1>4 DEF ConsumedUpTo
  <2> QED  BY <2>1, <2>2
<1>7. Recurs(upto)
  <2> HIDE DEF Recurs
  <2> QED  BY <1>6
<1>8. PICK h : h = upto  OBVIOUS
<1> HIDE DEF upto
<1>9. Recurs(h)
  <2> HIDE DEF Recurs
  <2> QED  BY <1>7, <1>8
<1>10. \A n \in 0 .. N : h[n] = IF n = 0 THEN Untouched(b) ELSE Consume(h[n - 1], ops[n])
  BY <1>9
<1>11. h = [i \in 0 .. N |-> h[i]]  BY <1>9
<1> HIDE DEF Recurs, N
<1>12. h[0] = Untouched(b)
  <2>1. 0 \in 0 .. N  BY <1>0
  <2> QED  BY <1>10, <2>1, Zenon
<1>13. ASSUME NEW i \in 1 .. N PROVE h[i] = Consume(h[i - 1], ops[i])
  <2>1. i \in 0 .. N /\ i # 0  BY <1>0
  <2> QED  BY <1>10, <2>1
<1>14. ConsumedUpTo(N, h, ops, b)  BY <1>11, <1>12, <1>13 DEF ConsumedUpTo
<1> QED  BY <1>5, <1>8, <1>14 DEF N

\* One more operation of the message.
LEMMA ConsumedOnAppend ==
  ASSUME NEW S, NEW ops \in Seq(S), NEW last \in S, NEW b
  PROVE  ConsumeAll(b, Append(ops, last)) = Consume(ConsumeAll(b, ops), last)
<1>1. PICK longer : longer = Append(ops, last)  OBVIOUS
<1>2. /\ longer \in Seq(S) /\ Len(ops) \in Nat /\ Len(longer) = Len(ops) + 1
      /\ \A i \in 1 .. Len(ops) : longer[i] = ops[i]
      /\ longer[Len(ops) + 1] = last
  BY <1>1
<1>3. PICK N : N = Len(ops)  OBVIOUS
<1>4. PICK f : ConsumedUpTo(N, f, ops, b) /\ ConsumeAll(b, ops) = f[N]  BY <1>3, ConsumedRuns
<1>5. PICK g : /\ ConsumedUpTo(N + 1, g, longer, b)
               /\ ConsumeAll(b, longer) = g[N + 1]
  <2>1. \E g : /\ ConsumedUpTo(Len(longer), g, longer, b)
                /\ ConsumeAll(b, longer) = g[Len(longer)]
    BY <1>2, ConsumedRuns
  <2> QED  BY <1>2, <1>3, <2>1
<1>6. N \in Nat  BY <1>2, <1>3
<1> DEFINE T == {n \in Nat : n <= N => g[n] = f[n]}
<1>7. 0 \in T  BY <1>4, <1>5 DEF ConsumedUpTo
<1>8. ASSUME NEW n \in Nat, n \in T PROVE n + 1 \in T
  <2> SUFFICES ASSUME n + 1 <= N PROVE g[n + 1] = f[n + 1]  OBVIOUS
  <2>1. n <= N /\ n + 1 \in 1 .. N /\ n + 1 \in 1 .. (N + 1) /\ (n + 1) - 1 = n  BY <1>6
  <2>2. g[n] = f[n]  BY <1>8, <2>1
  <2>3. longer[n + 1] = ops[n + 1]  BY <1>2, <1>3, <2>1
  <2>4. f[n + 1] = Consume(f[(n + 1) - 1], ops[n + 1])  BY <1>4, <2>1 DEF ConsumedUpTo
  <2>5. g[n + 1] = Consume(g[(n + 1) - 1], longer[n + 1])  BY <1>5, <2>1 DEF ConsumedUpTo
  <2> QED  BY <2>1, <2>2, <2>3, <2>4, <2>5
<1>9. g[N] = f[N]
  <2> HIDE DEF T
  <2>1. Nat \subseteq T  BY <1>7, <1>8, NumbersByInduction
  <2>2. N \in T /\ N <= N  BY <1>6, <2>1
  <2> QED  BY <2>2 DEF T
<1>10. N + 1 \in 1 .. (N + 1) /\ (N + 1) - 1 = N  BY <1>6
<1>11. g[N + 1] = Consume(g[(N + 1) - 1], longer[N + 1])  BY <1>5, <1>10 DEF ConsumedUpTo
<1> QED  BY <1>1, <1>2, <1>3, <1>4, <1>5, <1>9, <1>10, <1>11

\* A message without operations.
LEMMA ConsumedNothing ==
  ASSUME NEW b
  PROVE  ConsumeAll(b, <<>>) = Untouched(b)
<1>1. PICK none : none = <<>>  OBVIOUS
<1>2. none \in Seq({}) /\ Len(none) = 0  BY <1>1
<1>3. PICK f : ConsumedUpTo(0, f, none, b) /\ ConsumeAll(b, none) = f[0]
  <2>1. \E f : ConsumedUpTo(Len(none), f, none, b) /\ ConsumeAll(b, none) = f[Len(none)]
    BY <1>2, ConsumedRuns
  <2> QED  BY <1>2, <2>1
<1> QED  BY <1>1, <1>3 DEF ConsumedUpTo

-----------------------------------------------------------------------------
(* What one diff becomes *)

\* The diffs of a venue whose sizes are quantities.
Diff ==
    [kind: {"new"}, order: WireOrder]
      \cup [kind: {"remove", "unknown"}, oid: OrderId]
      \cup [kind: {"update"}, oid: OrderId, origSz: Qty, sz: Qty]
      \cup [kind: {"modified"}, oid: OrderId, sz: Qty]

Reasoned ==
    [op: BookOp, status: BOOLEAN,
     diff: {"New", "Remove", "Update", "Modified", "CompleteFillCollapsed"}]
Batch ==
    [ops: Seq(Reasoned), removed: SUBSET OrderId, collapsed_complete_fills: Nat,
     dropped_duplicate_removes: Nat, unresolved_new: Nat]

\* A size that the decoder takes for zero (dwellir.rs:261, 297).
Empties(diff) == diff.kind \in {"update", "modified"} /\ diff.sz < Grain

\* A size on the wire, cut to the unit (dwellir.rs:484-514).
LEMMA Units ==
  ASSUME NEW sz \in Qty
  PROVE  /\ sz \div Grain \in Qty
         /\ sz \div Grain = 0 <=> sz < Grain
         /\ sz \div Grain > 0 <=> ~(sz < Grain)
<1>1. sz \in Nat /\ Grain \in Nat /\ Grain > 0 /\ sz < QtyLimit
  BY QtyLimitAssumption, GrainAssumption DEF Qty
<1>2. PICK q : q = sz \div Grain  OBVIOUS
<1>3. q \in Nat /\ Grain * q <= sz /\ sz < Grain * q + Grain
  BY <1>1, <1>2
<1>4. q <= Grain * q
  BY <1>1, <1>3
<1>5. q <= sz /\ q < QtyLimit
  BY <1>1, <1>3, <1>4, QtyLimitAssumption
<1>6. q \in Qty
  BY <1>3, <1>5, QtyLimitAssumption DEF Qty
<1>7. CASE q = 0
  BY <1>1, <1>2, <1>3, <1>6, <1>7
<1>8. CASE q > 0
  <2>1. Grain <= Grain * q
    BY <1>1, <1>3, <1>8
  <2> QED
    BY <1>1, <1>2, <1>3, <1>6, <1>8, <2>1
<1> QED
  BY <1>3, <1>7, <1>8

\* An order of the wire is an order, in both units, and has a size.
LEMMA WireOrders ==
  ASSUME NEW order \in WireOrder
  PROVE  /\ order \in Order /\ order.id \in OrderId /\ order.qty \in Qty /\ order.qty > 0
         /\ parse_order(order) \in Order
         /\ parse_order(order) = [order EXCEPT !.qty = order.qty \div Grain]
         /\ parse_order(order).id = order.id
         /\ parse_order(order).qty = order.qty \div Grain
         /\ QueueOf(parse_order(order)) = QueueOf(order)
<1>1. order.qty \in Qty /\ order.qty > 0 /\ order.side \in Side
  <2>1. order.qty \in WireSize /\ order.side \in WireSide
    BY DEF WireOrder
  <2>2. order.qty \in Qty /\ order.qty # 0 /\ order.side \in Side
    BY <2>1, WireSizeAssumption, WireSideAssumption
  <2> QED
    BY <2>2, QtyLimitAssumption DEF Qty
<1>2. order \in Order
  BY <1>1 DEF WireOrder, Order
<1>3. parse_order(order) = [order EXCEPT !.qty = order.qty \div Grain]
  BY DEF parse_order, parse_fixed
<1>4. order.qty \div Grain \in Qty
  BY <1>1, Units
<1> QED
  BY <1>1, <1>2, <1>3, <1>4 DEF Order, QueueOf

\* The shapes of a diff.
LEMMA DiffShapes ==
  ASSUME NEW diff \in Diff
  PROVE  /\ DiffId(diff) \in OrderId
         /\ \/ diff.kind = "new" /\ diff.order \in WireOrder /\ DiffId(diff) = diff.order.id
            \/ diff.kind \in {"remove", "unknown"} /\ DiffId(diff) = diff.oid
            \/ /\ diff.kind \in {"update", "modified"} /\ DiffId(diff) = diff.oid
               /\ diff.sz \in Qty
<1>1. CASE diff \in [kind: {"new"}, order: WireOrder]
  BY <1>1 DEF DiffId, WireOrder
<1>2. CASE diff \in [kind: {"remove", "unknown"}, oid: OrderId]
  BY <1>2 DEF DiffId
<1>3. CASE diff \in [kind: {"update"}, oid: OrderId, origSz: Qty, sz: Qty]
  BY <1>3 DEF DiffId
<1>4. CASE diff \in [kind: {"modified"}, oid: OrderId, sz: Qty]
  BY <1>4 DEF DiffId
<1> QED
  BY <1>1, <1>2, <1>3, <1>4 DEF Diff

\* Nothing comes of the diff but a count.
NothingEmitted(batch, next) == next.ops = batch.ops /\ next.removed = batch.removed

\* An operation comes of it.
Emitted(batch, next, op, why, told) ==
    next.ops = Append(batch.ops, reasoned_venue_op(op, why, told))

\* The operation that a diff asks for, and what it is marked with.
OpOf(diff) ==
    IF diff.kind = "new" THEN [kind |-> "Add", order |-> parse_order(diff.order)]
    ELSE IF diff.kind = "remove" \/ Empties(diff) THEN [kind |-> "Remove", id |-> diff.oid]
    ELSE [kind |-> IF diff.kind = "update" THEN "UpdateSize" ELSE "AmendSize",
          id |-> diff.oid, new_qty |-> diff.sz \div Grain]
WhyOf(diff) ==
    IF diff.kind = "new" THEN "New"
    ELSE IF diff.kind = "remove" THEN "Remove"
    ELSE IF Empties(diff) THEN "CompleteFillCollapsed"
    ELSE IF diff.kind = "update" THEN "Update" ELSE "Modified"

\* What asks for a removal, and when the decoder passes over a diff.
Removing(diff) == diff.kind = "remove" \/ Empties(diff)
PassedOver(batch, diff, told) ==
    \/ diff.kind = "unknown"
    \/ diff.kind = "new" /\ diff.order.id \notin told
    \/ Removing(diff) /\ diff.oid \in batch.removed

\* The operation of a diff names the diff's id.
LEMMA OpsOfDiffs ==
  ASSUME NEW diff \in Diff, diff.kind # "unknown"
  PROVE  /\ OpOf(diff) \in BookOp
         /\ IdOf(OpOf(diff)) = DiffId(diff)
         /\ OpOf(diff).kind = "Remove" <=> Removing(diff)
         /\ Removing(diff) => OpOf(diff).id = diff.oid /\ DiffId(diff) = diff.oid
         /\ WhyOf(diff) \in {"New", "Remove", "Update", "Modified", "CompleteFillCollapsed"}
         /\ Removing(diff) => (WhyOf(diff) = "CompleteFillCollapsed" <=> Empties(diff))
<1>1. CASE diff.kind = "new"
  <2>1. diff.order \in WireOrder
    BY <1>1, DiffShapes
  <2>2. parse_order(diff.order) \in Order /\ parse_order(diff.order).id = diff.order.id
    BY <2>1, WireOrders
  <2>3. OpOf(diff) = [kind |-> "Add", order |-> parse_order(diff.order)]
    BY <1>1 DEF OpOf
  <2>4. OpOf(diff) \in BookOp /\ IdOf(OpOf(diff)) = parse_order(diff.order).id
    BY <2>2, <2>3 DEF BookOp, IdOf
  <2>5. DiffId(diff) = diff.order.id /\ ~Removing(diff) /\ WhyOf(diff) = "New"
    BY <1>1 DEF DiffId, Removing, Empties, WhyOf
  <2> QED
    BY <2>2, <2>3, <2>4, <2>5
<1>2. CASE Removing(diff)
  <2>1. diff.oid \in OrderId /\ DiffId(diff) = diff.oid /\ diff.kind # "new"
    BY <1>2, DiffShapes DEF Removing, Empties
  <2>2. OpOf(diff) = [kind |-> "Remove", id |-> diff.oid]
    BY <1>2, <2>1 DEF OpOf, Removing
  <2>3. OpOf(diff) \in BookOp /\ IdOf(OpOf(diff)) = diff.oid
    BY <2>1, <2>2 DEF BookOp, IdOf
  <2>4. WhyOf(diff) = IF Empties(diff) THEN "CompleteFillCollapsed" ELSE "Remove"
    BY <1>2, <2>1 DEF WhyOf, Removing, Empties
  <2> QED
    BY <1>2, <2>1, <2>2, <2>3, <2>4
<1>3. CASE diff.kind # "new" /\ ~Removing(diff)
  <2>1. diff.kind \in {"update", "modified"} /\ ~Empties(diff)
    BY <1>3, DiffShapes DEF Removing
  <2>2. diff.sz \in Qty /\ diff.oid \in OrderId /\ DiffId(diff) = diff.oid
    BY <2>1, DiffShapes
  <2>3. diff.sz \div Grain \in Qty
    BY <2>2, Units
  <2>4. PICK kind \in {"UpdateSize", "AmendSize"} :
          OpOf(diff) = [kind |-> kind, id |-> diff.oid, new_qty |-> diff.sz \div Grain]
    BY <1>3 DEF OpOf, Removing
  <2>5. OpOf(diff) \in BookOp /\ IdOf(OpOf(diff)) = diff.oid
    BY <2>2, <2>3, <2>4 DEF BookOp, IdOf
  <2>6. WhyOf(diff) \in {"Update", "Modified"}
    BY <1>3, <2>1 DEF WhyOf, Removing
  <2> QED
    BY <1>3, <2>2, <2>4, <2>5, <2>6
<1> QED
  BY <1>1, <1>2, <1>3

\* A batch with one more operation of the block's.
LEMMA EmitKeeps ==
  ASSUME NEW batch \in Batch, NEW op \in BookOp,
         NEW why \in {"New", "Remove", "Update", "Modified", "CompleteFillCollapsed"}, NEW told,
         NEW next, next = Emit(batch, reasoned_venue_op(op, why, told))
  PROVE  /\ next \in Batch /\ Emitted(batch, next, op, why, told)
         /\ next.removed = batch.removed
<1>1. PICK r : r = reasoned_venue_op(op, why, told)  OBVIOUS
<1>2. r \in Reasoned
  BY <1>1 DEF reasoned_venue_op, Reasoned
<1>3. batch.ops \in Seq(Reasoned)
  BY DEF Batch
<1>4. Append(batch.ops, r) \in Seq(Reasoned)
  BY <1>2, <1>3
<1>5. next = [batch EXCEPT !.ops = Append(batch.ops, r)]
  BY <1>1 DEF Emit
<1> QED
  BY <1>1, <1>4, <1>5 DEF Batch, Emitted

\* A removal: the first of its id and message is passed on.
LEMMA RemovalDecoded ==
  ASSUME NEW batch \in Batch, NEW oid \in OrderId, NEW told,
         NEW why \in {"Remove", "CompleteFillCollapsed"},
         NEW next, next = EmitRemove(batch, oid, why, told)
  PROVE  /\ next \in Batch
         /\ oid \in batch.removed => NothingEmitted(batch, next)
         /\ oid \notin batch.removed =>
              /\ Emitted(batch, next, [kind |-> "Remove", id |-> oid], why, told)
              /\ next.removed = batch.removed \cup {oid}
<1>1. CASE oid \in batch.removed
  <2>1. next = [batch EXCEPT !.dropped_duplicate_removes = batch.dropped_duplicate_removes + 1]
    BY <1>1 DEF EmitRemove
  <2> QED
    BY <1>1, <2>1 DEF Batch, NothingEmitted
<1>2. CASE oid \notin batch.removed
  <2>1. PICK marked : marked = [batch EXCEPT !.removed = batch.removed \cup {oid}]  OBVIOUS
  <2>2. marked \in Batch /\ marked.ops = batch.ops /\ marked.removed = batch.removed \cup {oid}
    BY <2>1 DEF Batch
  <2>3. PICK op : op = [kind |-> "Remove", id |-> oid]  OBVIOUS
  <2>4. op \in BookOp
    BY <2>3 DEF BookOp
  <2>5. next = Emit(marked, reasoned_venue_op(op, why, told))
    BY <1>2, <2>1, <2>3 DEF EmitRemove
  <2>6. /\ next \in Batch /\ Emitted(marked, next, op, why, told)
        /\ next.removed = marked.removed
    BY <2>2, <2>4, <2>5, EmitKeeps
  <2> QED
    BY <1>2, <2>2, <2>3, <2>6 DEF Emitted
<1> QED
  BY <1>1, <1>2

\* A size: a complete fill is a removal (dwellir.rs:261-264).
LEMMA SizeDecoded ==
  ASSUME NEW batch \in Batch, NEW diff \in Diff, diff.kind \in {"update", "modified"}, NEW told,
         NEW kind, kind = IF diff.kind = "update" THEN "UpdateSize" ELSE "AmendSize",
         NEW why, why = IF diff.kind = "update" THEN "Update" ELSE "Modified",
         NEW next, next = EmitSize(batch, kind, why, diff.oid, diff.sz, told)
  PROVE  /\ next \in Batch
         /\ PassedOver(batch, diff, told) => NothingEmitted(batch, next)
         /\ ~PassedOver(batch, diff, told) =>
              /\ Emitted(batch, next, OpOf(diff), WhyOf(diff), told)
              /\ next.removed = batch.removed \cup (IF Removing(diff) THEN {diff.oid} ELSE {})
<1>1. diff.sz \in Qty /\ DiffId(diff) = diff.oid /\ diff.oid \in OrderId
  BY DiffShapes
<1>2. Removing(diff) <=> Empties(diff)
  BY DEF Removing
<1>3. Empties(diff) <=> parse_fixed(diff.sz) = 0
  BY <1>1, Units DEF Empties, parse_fixed
<1>4. PassedOver(batch, diff, told) <=> Removing(diff) /\ diff.oid \in batch.removed
  BY DEF PassedOver
<1>5. CASE Empties(diff)
  <2>1. PICK counted : counted = [batch EXCEPT !.collapsed_complete_fills
                                                = batch.collapsed_complete_fills + 1]  OBVIOUS
  <2>2. counted \in Batch /\ counted.ops = batch.ops /\ counted.removed = batch.removed
    BY <2>1 DEF Batch
  <2>3. next = EmitRemove(counted, diff.oid, "CompleteFillCollapsed", told)
    BY <1>3, <1>5, <2>1 DEF EmitSize
  <2>4. /\ next \in Batch
        /\ diff.oid \in counted.removed => NothingEmitted(counted, next)
        /\ diff.oid \notin counted.removed =>
             /\ Emitted(counted, next, [kind |-> "Remove", id |-> diff.oid],
                        "CompleteFillCollapsed", told)
             /\ next.removed = counted.removed \cup {diff.oid}
    BY <1>1, <2>2, <2>3, RemovalDecoded
  <2>5. OpOf(diff) = [kind |-> "Remove", id |-> diff.oid] /\ WhyOf(diff) = "CompleteFillCollapsed"
    BY <1>5 DEF OpOf, WhyOf
  <2> QED
    BY <1>2, <1>4, <1>5, <2>2, <2>4, <2>5 DEF Emitted, NothingEmitted
<1>6. CASE ~Empties(diff)
  <2>1. next = Emit(batch, reasoned_venue_op([kind |-> kind, id |-> diff.oid,
                                              new_qty |-> diff.sz \div Grain], why, told))
    BY <1>3, <1>6 DEF EmitSize, parse_fixed
  <2>2. OpOf(diff) = [kind |-> kind, id |-> diff.oid, new_qty |-> diff.sz \div Grain]
    BY <1>6 DEF OpOf
  <2>3. WhyOf(diff) = why
    BY <1>6 DEF WhyOf
  <2>4. OpOf(diff) \in BookOp
    BY OpsOfDiffs
  <2>5. /\ next \in Batch /\ Emitted(batch, next, OpOf(diff), why, told)
        /\ next.removed = batch.removed
    BY <2>1, <2>2, <2>4, EmitKeeps
  <2> QED
    BY <1>2, <1>4, <1>6, <2>3, <2>5
<1> QED
  BY <1>5, <1>6

\* Every diff: it is passed over, or its operation is emitted (dwellir.rs:240-410).
LEMMA OneDecoded ==
  ASSUME NEW batch \in Batch, NEW diff \in Diff, NEW told,
         NEW next, next = DecodeDiff(batch, diff, told)
  PROVE  /\ next \in Batch
         /\ PassedOver(batch, diff, told) => NothingEmitted(batch, next)
         /\ ~PassedOver(batch, diff, told) =>
              /\ Emitted(batch, next, OpOf(diff), WhyOf(diff), told)
              /\ next.removed = batch.removed \cup (IF Removing(diff) THEN {diff.oid} ELSE {})
<1>1. CASE diff.kind = "new"
  <2>1. next = EmitNew(batch, diff.order, told)
    BY <1>1 DEF DecodeDiff
  <2>2. ~Removing(diff) /\ (PassedOver(batch, diff, told) <=> diff.order.id \notin told)
    BY <1>1 DEF Removing, Empties, PassedOver
  <2>3. CASE diff.order.id \notin told
    <3>1. next = [batch EXCEPT !.unresolved_new = batch.unresolved_new + 1]
      BY <2>1, <2>3 DEF EmitNew
    <3> QED
      BY <2>2, <2>3, <3>1 DEF Batch, NothingEmitted
  <2>4. CASE diff.order.id \in told
    <3>1. next = Emit(batch, reasoned_venue_op([kind |-> "Add", order |-> parse_order(diff.order)],
                                               "New", told))
      BY <2>1, <2>4 DEF EmitNew
    <3>2. OpOf(diff) = [kind |-> "Add", order |-> parse_order(diff.order)] /\ WhyOf(diff) = "New"
      BY <1>1 DEF OpOf, WhyOf
    <3>3. OpOf(diff) \in BookOp
      BY <1>1, OpsOfDiffs
    <3>4. /\ next \in Batch /\ Emitted(batch, next, OpOf(diff), "New", told)
          /\ next.removed = batch.removed
      BY <3>1, <3>2, <3>3, EmitKeeps
    <3> QED
      BY <2>2, <2>4, <3>2, <3>4
  <2> QED
    BY <2>3, <2>4
<1>2. CASE diff.kind = "remove"
  <2>1. diff.oid \in OrderId
    BY <1>2, DiffShapes
  <2>2. next = EmitRemove(batch, diff.oid, "Remove", told)
    BY <1>2 DEF DecodeDiff
  <2>3. OpOf(diff) = [kind |-> "Remove", id |-> diff.oid] /\ WhyOf(diff) = "Remove"
    BY <1>2 DEF OpOf, WhyOf
  <2>4. Removing(diff) /\ (PassedOver(batch, diff, told) <=> diff.oid \in batch.removed)
    BY <1>2 DEF Removing, PassedOver
  <2> QED
    BY <2>1, <2>2, <2>3, <2>4, RemovalDecoded
<1>3. CASE diff.kind \in {"update", "modified"}
  <2>1. next = EmitSize(batch, IF diff.kind = "update" THEN "UpdateSize" ELSE "AmendSize",
                        IF diff.kind = "update" THEN "Update" ELSE "Modified",
                        diff.oid, diff.sz, told)
    BY <1>3 DEF DecodeDiff
  <2> QED
    BY <1>3, <2>1, SizeDecoded
<1>4. CASE diff.kind = "unknown"
  <2>1. next = batch /\ PassedOver(batch, diff, told)
    BY <1>4 DEF DecodeDiff, PassedOver
  <2> QED
    BY <2>1 DEF NothingEmitted
<1> QED
  BY <1>1, <1>2, <1>3, <1>4, DiffShapes

\* What a block becomes is a batch.
LEMMA BlocksDecode ==
  ASSUME NEW block \in Seq(Diff), NEW told
  PROVE  decode_updates_with_meta(block, told) \in Batch
<1> DEFINE T == {d \in Seq(Diff) : decode_updates_with_meta(d, told) \in Batch}
<1>1. <<>> \in T
  <2>1. EmptyBatch \in Batch
    BY EmptySeq DEF EmptyBatch, Batch
  <2> QED
    BY <2>1, DecodedNothing, EmptySeq
<1>2. ASSUME NEW d \in Seq(Diff), NEW x \in Diff, d \in T PROVE Append(d, x) \in T
  <2>1. decode_updates_with_meta(Append(d, x), told)
          = DecodeDiff(decode_updates_with_meta(d, told), x, told)
    BY DecodedOnAppend
  <2>2. decode_updates_with_meta(Append(d, x), told) \in Batch
    BY <1>2, <2>1, OneDecoded
  <2>3. Append(d, x) \in Seq(Diff)
    OBVIOUS
  <2> QED
    BY <2>2, <2>3
<1>3. Seq(Diff) \subseteq T
  <2> HIDE DEF T
  <2> QED
    BY <1>1, <1>2, ListsByInduction
<1> QED
  BY <1>3

\* A status says nothing of a block that does not name its id.
LEMMA OtherStatuses ==
  ASSUME NEW block \in Seq(Diff), NEW told, NEW id,
         \A i \in DOMAIN block : DiffId(block[i]) # id
  PROVE  decode_updates_with_meta(block, told \cup {id}) = decode_updates_with_meta(block, told)
<1> DEFINE Silent(d) == \A i \in DOMAIN d : DiffId(d[i]) # id
           T == {d \in Seq(Diff) : Silent(d) =>
                   decode_updates_with_meta(d, told \cup {id}) = decode_updates_with_meta(d, told)}
<1>1. <<>> \in T
  BY DecodedNothing, EmptySeq
<1>2. ASSUME NEW d \in Seq(Diff), NEW x \in Diff, d \in T PROVE Append(d, x) \in T
  <2>1. PICK longer : longer = Append(d, x)  OBVIOUS
  <2>2. /\ longer \in Seq(Diff) /\ Len(longer) = Len(d) + 1 /\ Len(d) \in Nat
        /\ \A i \in 1 .. Len(d) : longer[i] = d[i]
        /\ longer[Len(d) + 1] = x /\ DOMAIN d = 1 .. Len(d) /\ DOMAIN longer = 1 .. Len(longer)
    BY <2>1
  <2>3. SUFFICES ASSUME Silent(longer)
                 PROVE  decode_updates_with_meta(longer, told \cup {id})
                          = decode_updates_with_meta(longer, told)
    BY <2>1, <2>2
  <2>4. DiffId(x) # id
    <3>1. Len(d) + 1 \in DOMAIN longer
      BY <2>2
    <3> QED
      BY <2>2, <2>3, <3>1
  <2>5. Silent(d)
    <3> SUFFICES ASSUME NEW i \in DOMAIN d PROVE DiffId(d[i]) # id
      OBVIOUS
    <3>1. i \in DOMAIN longer /\ longer[i] = d[i]
      BY <2>2
    <3> QED
      BY <2>3, <3>1
  <2>6. decode_updates_with_meta(d, told \cup {id}) = decode_updates_with_meta(d, told)
    BY <1>2, <2>5
  <2>7. PICK batch : batch = decode_updates_with_meta(d, told)  OBVIOUS
  <2>8. DecodeDiff(batch, x, told \cup {id}) = DecodeDiff(batch, x, told)
    <3>1. DiffId(x) \in told \cup {id} <=> DiffId(x) \in told
      BY <2>4
    <3>2. \A op, why : IdOf(op) = DiffId(x) =>
            reasoned_venue_op(op, why, told \cup {id}) = reasoned_venue_op(op, why, told)
      BY <3>1 DEF reasoned_venue_op
    <3>3. CASE x.kind = "new"
      <4>1. DiffId(x) = x.order.id /\ parse_order(x.order).id = x.order.id
        BY <3>3, DiffShapes, WireOrders
      <4>2. IdOf([kind |-> "Add", order |-> parse_order(x.order)]) = DiffId(x)
        BY <4>1 DEF IdOf
      <4> QED
        BY <3>1, <3>2, <3>3, <4>1, <4>2 DEF DecodeDiff, EmitNew
    <3>4. CASE x.kind # "new"
      <4>1. DiffId(x) = x.oid
        BY <3>4 DEF DiffId
      <4>2. \A kind, q : IdOf([kind |-> "Remove", id |-> x.oid]) = x.oid
                         /\ (kind # "Add" => IdOf([kind |-> kind, id |-> x.oid, new_qty |-> q]) = x.oid)
        BY DEF IdOf
      <4>3. \A c, why : EmitRemove(c, x.oid, why, told \cup {id}) = EmitRemove(c, x.oid, why, told)
        BY <3>2, <4>1, <4>2 DEF EmitRemove
      <4>4. \A c, kind, why, sz : kind # "Add" =>
              EmitSize(c, kind, why, x.oid, sz, told \cup {id}) = EmitSize(c, kind, why, x.oid, sz, told)
        BY <3>2, <4>1, <4>2, <4>3 DEF EmitSize
      <4> QED
        BY <3>4, <4>3, <4>4, DiffShapes DEF DecodeDiff
    <3> QED
      BY <3>3, <3>4
  <2> QED
    BY <2>1, <2>6, <2>7, <2>8, DecodedOnAppend
<1>3. Seq(Diff) \subseteq T
  <2> HIDE DEF T
  <2> QED
    BY <1>1, <1>2, ListsByInduction
<1> QED
  BY <1>3

-----------------------------------------------------------------------------
(* A book that shows another in the book's units *)

\* r holds the orders of v but for those in T, sizes cut to the unit, and each
\* behind the same ones.
Mirrors(r, v, T) ==
    /\ RestingIds(r) = RestingIds(v) \ T
    /\ \A id \in RestingIds(r) :
         get(r, id) = parse_order(get(v, id)) /\ Ahead(r, id) = Ahead(v, id) \ T

\* Who is ahead rests, in the same queue.
LEMMA AheadRests ==
  ASSUME NEW b, SoundBook(b), NEW id \in RestingIds(b), NEW x \in Ahead(b, id)
  PROVE  x \in RestingIds(b) /\ QueueOf(get(b, x)) = QueueOf(get(b, id)) /\ x # id
<1>1. PICK k : k = HomeOf(b, id)  OBVIOUS
<1>2. PICK i : i = PlaceIn(b[k], id)  OBVIOUS
<1>3. k \in Queue /\ i \in DOMAIN b[k] /\ b[k][i].id = id /\ QueueOf(get(b, id)) = k
  BY <1>1, <1>2, RestsSomewhere
<1>4. Ahead(b, id) = Before(b[k], i)
  BY <1>3, RestsAt
<1>5. b \in Book /\ DOMAIN b[k] = 1 .. Len(b[k]) /\ Len(b[k]) \in Nat
  BY <1>3, QueuesAreSequences DEF SoundBook
<1>6. PICK j \in 1 .. (i - 1) : b[k][j].id = x
  BY <1>4 DEF Before
<1>7. j \in DOMAIN b[k] /\ j # i
  BY <1>3, <1>5, <1>6
<1>8. x \in RestingIds(b) /\ QueueOf(get(b, x)) = k
  BY <1>3, <1>6, <1>7, RestsAt
<1>9. x # id
  BY <1>3, <1>6, <1>7 DEF SoundBook, OneOrderPerId
<1> QED
  BY <1>3, <1>8, <1>9

\* Empty books.
LEMMA MirrorEmpty ==
  ASSUME NEW T
  PROVE  Mirrors(EmptyBook, EmptyBook, T)
BY EmptySound DEF Mirrors

\* Something happens to one order, which is hidden from then on.
LEMMA MirrorHidden ==
  ASSUME NEW r, SoundBook(r), NEW v, SoundBook(v), NEW T, Mirrors(r, v, T),
         NEW x, NEW v2, SoundBook(v2), OthersStay(v, v2, x),
         NEW r2, SoundBook(r2), OthersStay(r, r2, x), x \notin RestingIds(r2),
         NEW T2, T2 = T \cup {x}
  PROVE  Mirrors(r2, v2, T2)
<1>1. ASSUME NEW id, id # x
      PROVE  /\ id \in RestingIds(r2) <=> id \in RestingIds(r)
             /\ id \in RestingIds(v2) <=> id \in RestingIds(v)
  BY <1>1 DEF OthersStay
<1>2. RestingIds(r2) = RestingIds(v2) \ T2
  BY <1>1 DEF Mirrors
<1>3. ASSUME NEW id \in RestingIds(r2)
      PROVE  get(r2, id) = parse_order(get(v2, id)) /\ Ahead(r2, id) = Ahead(v2, id) \ T2
  <2>1. id # x /\ id \in RestingIds(r) /\ id \in RestingIds(v)
    BY <1>1 DEF Mirrors
  <2>2. /\ get(r2, id) = get(r, id) /\ get(v2, id) = get(v, id)
        /\ Ahead(r2, id) \ {x} = Ahead(r, id) \ {x}
        /\ Ahead(v2, id) \ {x} = Ahead(v, id) \ {x}
    BY <2>1 DEF OthersStay
  <2>3. get(r, id) = parse_order(get(v, id)) /\ Ahead(r, id) = Ahead(v, id) \ T
    BY <2>1 DEF Mirrors
  <2>4. x \notin Ahead(r2, id)
    BY AheadRests
  <2> QED
    BY <2>2, <2>3, <2>4
<1> QED
  BY <1>2, <1>3 DEF Mirrors

\* The same order comes to both.
LEMMA MirrorAppend ==
  ASSUME NEW r, SoundBook(r), NEW v, SoundBook(v), NEW T, Mirrors(r, v, T),
         NEW order \in WireOrder, order.qty \div Grain > 0, order.id \notin RestingIds(v),
         order.id \notin T, NEW v2, v2 = AppendOrder(v, order),
         NEW r2, r2 = AppendOrder(r, parse_order(order))
  PROVE  Mirrors(r2, v2, T)
<1>1. PICK cut : cut = parse_order(order)  OBVIOUS
<1>2. /\ order \in Order /\ order.qty > 0 /\ cut \in Order /\ cut.qty > 0 /\ cut.id = order.id
      /\ QueueOf(cut) = QueueOf(order)
  BY <1>1, WireOrders
<1>3. cut.id \notin RestingIds(r)
  BY <1>2 DEF Mirrors
<1>4. PICK q : q = QueueOf(order)  OBVIOUS
<1>5. q \in Queue
  BY <1>2, <1>4 DEF Order, QueueOf, Queue
<1>6. RestingIds(v2) = RestingIds(v) \cup {order.id} /\ RestingIds(r2) = RestingIds(r) \cup {order.id}
  BY <1>1, <1>2, <1>3, AppendSound
<1>7. /\ \A id \in RestingIds(v) : get(v2, id) = get(v, id) /\ Ahead(v2, id) = Ahead(v, id)
      /\ get(v2, order.id) = order /\ Ahead(v2, order.id) = Ids(v[q])
  BY <1>2, <1>4, AppendAhead
<1>8. /\ \A id \in RestingIds(r) : get(r2, id) = get(r, id) /\ Ahead(r2, id) = Ahead(r, id)
      /\ get(r2, order.id) = cut /\ Ahead(r2, order.id) = Ids(r[q])
  BY <1>1, <1>2, <1>3, <1>4, AppendAhead
<1>9. Ids(r[q]) = Ids(v[q]) \ T
  <2> SUFFICES ASSUME NEW id PROVE id \in Ids(r[q]) <=> id \in Ids(v[q]) /\ id \notin T
    OBVIOUS
  <2>1. id \in Ids(r[q]) <=> id \in RestingIds(r) /\ QueueOf(get(r, id)) = q
    BY <1>5, QueueHolds
  <2>2. id \in Ids(v[q]) <=> id \in RestingIds(v) /\ QueueOf(get(v, id)) = q
    BY <1>5, QueueHolds
  <2>3. id \in RestingIds(r) <=> id \in RestingIds(v) /\ id \notin T
    BY DEF Mirrors
  <2>4. ASSUME id \in RestingIds(r) PROVE QueueOf(get(r, id)) = QueueOf(get(v, id))
    <3>1. get(r, id) = parse_order(get(v, id))
      BY <2>4 DEF Mirrors
    <3>2. get(v, id) \in Order
      BY <2>3, <2>4, RestsSomewhere
    <3> QED
      BY <3>1, <3>2 DEF parse_order, Order, QueueOf
  <2> QED
    BY <2>1, <2>2, <2>3, <2>4
<1>10. RestingIds(r2) = RestingIds(v2) \ T
  BY <1>6 DEF Mirrors
<1>11. ASSUME NEW id \in RestingIds(r2)
       PROVE  get(r2, id) = parse_order(get(v2, id)) /\ Ahead(r2, id) = Ahead(v2, id) \ T
  <2>1. CASE id = order.id
    BY <1>1, <1>7, <1>8, <1>9, <2>1
  <2>2. CASE id # order.id
    <3>1. id \in RestingIds(r) /\ id \in RestingIds(v)
      BY <1>6, <2>2 DEF Mirrors
    <3> QED
      BY <1>7, <1>8, <3>1 DEF Mirrors
  <2> QED
    BY <2>1, <2>2
<1> QED
  BY <1>10, <1>11 DEF Mirrors

\* The same order leaves both.
LEMMA MirrorDrop ==
  ASSUME NEW r, SoundBook(r), NEW v, SoundBook(v), NEW T, Mirrors(r, v, T),
         NEW x \in RestingIds(r), NEW v2, v2 = DropOrder(v, x), NEW r2, r2 = DropOrder(r, x)
  PROVE  Mirrors(r2, v2, T)
<1>1. x \in RestingIds(v)
  BY DEF Mirrors
<1>2. RestingIds(v2) = RestingIds(v) \ {x} /\ RestingIds(r2) = RestingIds(r) \ {x}
  BY <1>1, DropSound
<1>3. ASSUME NEW id \in RestingIds(r2)
      PROVE  get(r2, id) = parse_order(get(v2, id)) /\ Ahead(r2, id) = Ahead(v2, id) \ T
  <2>1. id \in RestingIds(r) /\ id \in RestingIds(v) /\ id # x
    BY <1>2 DEF Mirrors
  <2>2. get(r2, id) = get(r, id) /\ Ahead(r2, id) = Ahead(r, id) \ {x}
    BY <2>1, DropAhead
  <2>3. get(v2, id) = get(v, id) /\ Ahead(v2, id) = Ahead(v, id) \ {x}
    BY <1>1, <2>1, DropAhead
  <2> QED
    BY <2>1, <2>2, <2>3 DEF Mirrors
<1>4. RestingIds(r2) = RestingIds(v2) \ T
  BY <1>2 DEF Mirrors
<1> QED
  BY <1>3, <1>4 DEF Mirrors

\* The same order gets a new size in both.
LEMMA MirrorResize ==
  ASSUME NEW r, SoundBook(r), NEW v, SoundBook(v), NEW T, Mirrors(r, v, T),
         NEW x \in RestingIds(r), NEW sz \in Qty, sz > 0, sz \div Grain > 0,
         NEW v2, v2 = Resize(v, x, sz), NEW r2, r2 = Resize(r, x, sz \div Grain)
  PROVE  Mirrors(r2, v2, T)
<1>1. PICK n : n = sz \div Grain  OBVIOUS
<1>2. n \in Qty /\ n > 0
  BY <1>1, Units
<1>3. RestingIds(v2) = RestingIds(v) /\ RestingIds(r2) = RestingIds(r)
  BY <1>1, <1>2, ResizeSound
<1>4. ASSUME NEW id \in RestingIds(r2)
      PROVE  get(r2, id) = parse_order(get(v2, id)) /\ Ahead(r2, id) = Ahead(v2, id) \ T
  <2>1. id \in RestingIds(r) /\ id \in RestingIds(v)
    BY <1>3 DEF Mirrors
  <2>2. Ahead(r2, id) = Ahead(r, id) /\ Ahead(v2, id) = Ahead(v, id)
    BY <1>1, <1>2, <2>1, ResizeAhead
  <2>3. get(v2, id) = IF id = x THEN [get(v, id) EXCEPT !.qty = sz] ELSE get(v, id)
    BY <2>1, ResizeGet
  <2>4. get(r2, id) = IF id = x THEN [get(r, id) EXCEPT !.qty = n] ELSE get(r, id)
    BY <1>1, <1>2, <2>1, ResizeGet
  <2>5. get(r, id) = parse_order(get(v, id)) /\ Ahead(r, id) = Ahead(v, id) \ T
    BY <2>1 DEF Mirrors
  <2>6. get(v, id) \in Order
    BY <2>1, RestsSomewhere
  <2>7. \A o \in Order : [parse_order(o) EXCEPT !.qty = n] = parse_order([o EXCEPT !.qty = sz])
    BY <1>1 DEF parse_order, parse_fixed, Order
  <2> QED
    BY <2>2, <2>3, <2>4, <2>5, <2>6, <2>7
<1>5. RestingIds(r2) = RestingIds(v2) \ T
  BY <1>3 DEF Mirrors
<1> QED
  BY <1>4, <1>5 DEF Mirrors

\* A size changes by less than the book can show.
LEMMA MirrorBelowUnit ==
  ASSUME NEW r, SoundBook(r), NEW v, SoundBook(v), NEW T, Mirrors(r, v, T),
         NEW x \in RestingIds(r), NEW sz \in Qty, sz > 0,
         sz \div Grain = get(v, x).qty \div Grain, NEW v2, v2 = Resize(v, x, sz)
  PROVE  Mirrors(r, v2, T)
<1>1. RestingIds(v2) = RestingIds(v)
  BY ResizeSound
<1>2. ASSUME NEW id \in RestingIds(r)
      PROVE  get(r, id) = parse_order(get(v2, id)) /\ Ahead(r, id) = Ahead(v2, id) \ T
  <2>1. id \in RestingIds(v)
    BY DEF Mirrors
  <2>2. Ahead(v2, id) = Ahead(v, id)
    BY <2>1, ResizeAhead
  <2>3. get(v2, id) = IF id = x THEN [get(v, id) EXCEPT !.qty = sz] ELSE get(v, id)
    BY <2>1, ResizeGet
  <2>4. get(r, id) = parse_order(get(v, id)) /\ Ahead(r, id) = Ahead(v, id) \ T
    BY DEF Mirrors
  <2>5. get(v, id) \in Order
    BY <2>1, RestsSomewhere
  <2>6. \A o \in Order : o.qty \div Grain = sz \div Grain =>
          parse_order(o) = parse_order([o EXCEPT !.qty = sz])
    BY DEF parse_order, parse_fixed, Order
  <2> QED
    BY <2>2, <2>3, <2>4, <2>5, <2>6
<1>3. RestingIds(r) = RestingIds(v2) \ T
  BY <1>1 DEF Mirrors
<1> QED
  BY <1>2, <1>3 DEF Mirrors

-----------------------------------------------------------------------------
(* One diff, at the venue and behind the decoder *)

\* The venue's orders have been used and are as on the wire.
VenueSound(v, u) ==
    /\ SoundBook(v) /\ IsFiniteSet(RestingIds(v)) /\ RestingIds(v) \subseteq u
    /\ \A id \in RestingIds(v) : get(v, id) \in WireOrder

\* What a diff says of the venue: a new order; the end of one; that end once
\* more, after a complete fill; a new size; or nothing that is understood.
TellsNew(diff, v, v2, u) ==
    diff.kind = "new" /\ diff.order.id \notin u /\ v2 = AppendOrder(v, diff.order)
TellsEnd(diff, v, v2) ==
    /\ \/ diff.kind = "remove"
       \/ diff.kind = "update" /\ diff.sz = 0
    /\ diff.oid \in RestingIds(v) /\ v2 = DropOrder(v, diff.oid)
TellsEndAgain(diff, v, v2, removed) ==
    /\ diff.kind = "remove" /\ diff.oid \notin RestingIds(v) /\ diff.oid \in removed
    /\ v2 = v
TellsSize(diff, v, v2) ==
    /\ diff.kind \in {"update", "modified"} /\ diff.sz \in WireSize
    /\ diff.kind = "update" =>
         diff.sz < get(v, diff.oid).qty /\ diff.origSz = get(v, diff.oid).qty
    /\ diff.oid \in RestingIds(v) /\ v2 = Resize(v, diff.oid, diff.sz)
TellsNothing(diff, v, v2) == diff.kind = "unknown" /\ v2 = v
Tells(diff, v, v2, u, removed) ==
    \/ TellsNew(diff, v, v2, u)
    \/ TellsEnd(diff, v, v2)
    \/ TellsEndAgain(diff, v, v2, removed)
    \/ TellsSize(diff, v, v2)
    \/ TellsNothing(diff, v, v2)

\* The sizes of the wire.
LEMMA WireSizes ==
  ASSUME NEW sz \in WireSize
  PROVE  sz \in Qty /\ sz > 0
<1>1. sz \in Qty /\ sz # 0
  BY WireSizeAssumption
<1> QED
  BY <1>1, QtyLimitAssumption DEF Qty

\* The venue stays sound, and only the order of the diff is touched.
LEMMA VenueTells ==
  ASSUME NEW diff \in Diff, NEW v, NEW u, VenueSound(v, u), NEW v2, NEW removed,
         Tells(diff, v, v2, u, removed), NEW u2, u2 = u \cup {DiffId(diff)}
  PROVE  VenueSound(v2, u2) /\ OthersStay(v, v2, DiffId(diff))
<1>1. SoundBook(v) /\ IsFiniteSet(RestingIds(v))
  BY DEF VenueSound
<1>2. CASE diff.kind = "new" /\ diff.order.id \notin u /\ v2 = AppendOrder(v, diff.order)
  <2>1. PICK o : o = diff.order  OBVIOUS
  <2>2. o \in WireOrder /\ DiffId(diff) = o.id
    BY <1>2, <2>1, DiffShapes
  <2>3. o \in Order /\ o.qty > 0 /\ o.id \notin RestingIds(v) /\ v2 = AppendOrder(v, o)
    BY <1>2, <2>1, <2>2, WireOrders DEF VenueSound
  <2>4. SoundBook(v2) /\ RestingIds(v2) = RestingIds(v) \cup {o.id}
    BY <1>1, <2>3, AppendSound
  <2>5. /\ \A id \in RestingIds(v) : get(v2, id) = get(v, id) /\ Ahead(v2, id) = Ahead(v, id)
        /\ get(v2, o.id) = o
    BY <1>1, <2>3, AppendAhead
  <2>6. OthersStay(v, v2, o.id)
    BY <2>4, <2>5 DEF OthersStay
  <2>7. \A id \in RestingIds(v2) : get(v2, id) \in WireOrder
    BY <2>2, <2>4, <2>5 DEF VenueSound
  <2>8. IsFiniteSet(RestingIds(v2))
    BY <1>1, <2>6, StaysFinite
  <2>9. RestingIds(v2) \subseteq u2
    BY <2>2, <2>4 DEF VenueSound
  <2> QED
    BY <2>2, <2>4, <2>6, <2>7, <2>8, <2>9 DEF VenueSound
<1>3. CASE /\ diff.kind # "new" /\ diff.oid \in RestingIds(v) /\ v2 = DropOrder(v, diff.oid)
  <2>1. PICK x : x = diff.oid  OBVIOUS
  <2>2. x \in RestingIds(v) /\ v2 = DropOrder(v, x) /\ DiffId(diff) = x
    BY <1>3, <2>1, DiffShapes
  <2>3. SoundBook(v2) /\ RestingIds(v2) = RestingIds(v) \ {x}
    BY <1>1, <2>2, DropSound
  <2>4. \A id \in RestingIds(v) : id # x =>
          get(v2, id) = get(v, id) /\ Ahead(v2, id) = Ahead(v, id) \ {x}
    BY <1>1, <2>2, DropAhead
  <2>5. OthersStay(v, v2, x)
    BY <2>3, <2>4 DEF OthersStay
  <2>6. \A id \in RestingIds(v2) : get(v2, id) \in WireOrder
    BY <2>3, <2>4 DEF VenueSound
  <2>7. IsFiniteSet(RestingIds(v2))
    BY <1>1, <2>5, StaysFinite
  <2>8. RestingIds(v2) \subseteq u2
    BY <2>3 DEF VenueSound
  <2> QED
    BY <2>2, <2>3, <2>5, <2>6, <2>7, <2>8 DEF VenueSound
<1>4. CASE /\ diff.kind # "new" /\ diff.oid \in RestingIds(v) /\ diff.sz \in WireSize
           /\ v2 = Resize(v, diff.oid, diff.sz)
  <2>1. PICK x : x = diff.oid  OBVIOUS
  <2>2. PICK sz : sz = diff.sz  OBVIOUS
  <2>3. /\ x \in RestingIds(v) /\ v2 = Resize(v, x, sz) /\ DiffId(diff) = x
        /\ sz \in WireSize /\ sz \in Qty /\ sz > 0
    BY <1>4, <2>1, <2>2, DiffShapes, WireSizes
  <2>4. SoundBook(v2) /\ RestingIds(v2) = RestingIds(v)
    BY <1>1, <2>3, ResizeSound
  <2>5. \A id \in RestingIds(v) : Ahead(v2, id) = Ahead(v, id)
    BY <1>1, <2>3, ResizeAhead
  <2>6. \A id \in RestingIds(v) :
          get(v2, id) = IF id = x THEN [get(v, id) EXCEPT !.qty = sz] ELSE get(v, id)
    BY <1>1, <2>3, ResizeGet
  <2>7. OthersStay(v, v2, x)
    BY <2>4, <2>5, <2>6 DEF OthersStay
  <2>8. \A id \in RestingIds(v2) : get(v2, id) \in WireOrder
    <3>1. \A o \in WireOrder : [o EXCEPT !.qty = sz] \in WireOrder
      BY <2>3 DEF WireOrder
    <3> QED
      BY <2>4, <2>6, <3>1 DEF VenueSound
  <2>9. IsFiniteSet(RestingIds(v2)) /\ RestingIds(v2) \subseteq u2
    BY <1>1, <2>4 DEF VenueSound
  <2> QED
    BY <2>3, <2>4, <2>7, <2>8, <2>9 DEF VenueSound
<1>5. CASE v2 = v
  BY <1>5 DEF VenueSound, OthersStay
<1> QED
  BY <1>2, <1>3, <1>4, <1>5
     DEF Tells, TellsNew, TellsEnd, TellsEndAgain, TellsSize, TellsNothing

\* An operation of a message: it is accepted, or its id is noted as refused.
LEMMA OneConsumed ==
  ASSUME NEW done, SoundBook(done.book), NEW op \in BookOp, NEW next, next = Consume(done, op)
  PROVE  /\ SoundBook(next.book) /\ OthersStay(done.book, next.book, IdOf(op))
         /\ next.refused \subseteq done.refused \cup {IdOf(op)}
         /\ apply_op(done.book, op).result = "Ok" =>
              next.refused = done.refused /\ AcceptedAs(done.book, op, next.book)
         /\ apply_op(done.book, op).result # "Ok" => next.book = done.book
<1>1. PICK b : b = done.book  OBVIOUS
<1>2. SoundBook(b)
  BY <1>1
<1>3. next.book = apply_op(b, op).book
  BY <1>1 DEF Consume
<1>4. next.refused = IF apply_op(b, op).result = "Ok" THEN done.refused
                                                       ELSE done.refused \cup {IdOf(op)}
  BY <1>1 DEF Consume
<1>5. SoundBook(next.book) /\ OthersStay(b, next.book, IdOf(op))
  BY <1>2, <1>3, ApplyTouchesOne
<1>6. apply_op(b, op).result = "Ok" => AcceptedAs(b, op, next.book)
  BY <1>3, ApplyAccepted
<1>7. apply_op(b, op).result # "Ok" => next.book = b
  BY <1>3, ApplyAnswer
<1> QED
  BY <1>1, <1>4, <1>5, <1>6, <1>7

\* A diff that hides its order from the book, and one too slight to show.
Hides(diff, told) ==
    \/ diff.kind = "new" /\ diff.order.id \notin told
    \/ \E sz \in Sizes(diff) : 0 < sz /\ sz < Grain
Slight(diff) == diff.kind = "update" /\ diff.origSz \div Grain = diff.sz \div Grain

\* A venue and, behind the decoder, the book that follows it.
Followed(v, u, removed, after, hidden) ==
    /\ VenueSound(v, u) /\ hidden \subseteq u /\ removed \subseteq u
    /\ SoundBook(after.book) /\ Mirrors(after.book, v, hidden)
    /\ removed \cap RestingIds(after.book) = {}

\* The next diff of the block, decoded and applied.
Passes(diff, batch, told, after, next) ==
    next = IF PassedOver(batch, diff, told) THEN after ELSE Consume(after, OpOf(diff))

\* Whatever the diff, its operation touches its order alone.
LEMMA PassesOne ==
  ASSUME NEW diff \in Diff, NEW batch, NEW told, NEW after, SoundBook(after.book),
         NEW next, Passes(diff, batch, told, after, next)
  PROVE  /\ SoundBook(next.book) /\ OthersStay(after.book, next.book, DiffId(diff))
         /\ next.refused \subseteq after.refused \cup {DiffId(diff)}
<1>1. CASE PassedOver(batch, diff, told)
  <2>1. next = after
    BY <1>1 DEF Passes
  <2> QED
    BY <2>1 DEF OthersStay
<1>2. CASE ~PassedOver(batch, diff, told)
  <2>1. PICK op : op = OpOf(diff)  OBVIOUS
  <2>2. next = Consume(after, op)
    BY <1>2, <2>1 DEF Passes
  <2>3. diff.kind # "unknown"
    BY <1>2 DEF PassedOver
  <2>4. op \in BookOp /\ IdOf(op) = DiffId(diff)
    BY <2>1, <2>3, OpsOfDiffs
  <2> QED
    BY <2>2, <2>4, OneConsumed
<1> QED
  BY <1>1, <1>2

\* A removal that reaches the book leaves nothing of the order there.
LEMMA RemovalPasses ==
  ASSUME NEW diff \in Diff, Removing(diff), NEW batch, NEW told, NEW after,
         SoundBook(after.book), NEW next, Passes(diff, batch, told, after, next),
         ~PassedOver(batch, diff, told)
  PROVE  /\ DiffId(diff) \notin RestingIds(next.book)
         /\ DiffId(diff) \in RestingIds(after.book) =>
              next.refused = after.refused /\ next.book = DropOrder(after.book, DiffId(diff))
<1>1. PICK op : op = OpOf(diff)  OBVIOUS
<1>2. PICK y : y = DiffId(diff)  OBVIOUS
<1>3. PICK b : b = after.book  OBVIOUS
<1>4. next = Consume(after, op) /\ diff.kind # "unknown"
  BY <1>1 DEF Passes, PassedOver
<1>5. op \in BookOp /\ IdOf(op) = y /\ op.kind = "Remove" /\ op.id = y
  BY <1>1, <1>2, <1>4, OpsOfDiffs
<1>6. apply_op(b, op).result = "Ok" <=> y \in RestingIds(b)
  BY <1>5, ApplyAnswer DEF IsAdd, Grows
<1>7. CASE y \in RestingIds(b)
  <2>1. next.refused = after.refused /\ AcceptedAs(b, op, next.book)
    BY <1>3, <1>4, <1>5, <1>6, <1>7, OneConsumed
  <2>2. next.book = DropOrder(b, y)
    BY <1>5, <2>1 DEF AcceptedAs, IsAdd, Drops
  <2>3. RestingIds(next.book) = RestingIds(b) \ {y}
    BY <1>3, <1>7, <2>2, DropSound
  <2> QED
    BY <1>2, <1>3, <2>1, <2>2, <2>3
<1>8. CASE y \notin RestingIds(b)
  <2>1. next.book = b
    BY <1>3, <1>4, <1>5, <1>6, <1>8, OneConsumed
  <2> QED
    BY <1>2, <1>3, <1>8, <2>1
<1> QED
  BY <1>7, <1>8

\* The sizes of an update or an amendment that the decoder sees.
LEMMA SeenSizes ==
  ASSUME NEW diff \in Diff, diff.kind \in {"update", "modified"}, NEW told
  PROVE  Hides(diff, told) <=> Empties(diff) /\ diff.sz # 0
<1>1. diff.sz \in Nat
  BY DiffShapes, QtyLimitAssumption DEF Qty
<1>2. Sizes(diff) = {diff.sz}
  BY DEF Sizes
<1> QED
  BY <1>1, <1>2 DEF Hides, Empties

\* The new orders that it sees.
LEMMA SeenOrders ==
  ASSUME NEW diff \in Diff, diff.kind = "new", NEW told
  PROVE  Hides(diff, told) <=> diff.order.id \notin told \/ diff.order.qty < Grain
<1>1. diff.order.qty \in Qty /\ diff.order.qty > 0
  BY DiffShapes, WireOrders
<1>2. Sizes(diff) = {diff.order.qty}
  BY DEF Sizes
<1> QED
  BY <1>1, <1>2 DEF Hides

\* Other diffs hide nothing.
LEMMA OthersHideNothing ==
  ASSUME NEW diff, diff.kind \in {"remove", "unknown"}, NEW told
  PROVE  ~Hides(diff, told) /\ ~Empties(diff) /\ ~Slight(diff)
  BY DEF Hides, Sizes, Empties, Slight

\* An order that is hidden, before the diff or by it, is not in the book.
LEMMA HiddenPasses ==
  ASSUME NEW diff \in Diff, NEW v, NEW v2, NEW u, NEW batch, NEW told, NEW after, NEW hidden,
         Followed(v, u, batch.removed, after, hidden), Tells(diff, v, v2, u, batch.removed),
         NEW next, Passes(diff, batch, told, after, next),
         DiffId(diff) \in hidden \/ Hides(diff, told)
  PROVE  DiffId(diff) \notin RestingIds(next.book)
<1>1. PICK y : y = DiffId(diff)  OBVIOUS
<1>2. PICK b : b = after.book  OBVIOUS
<1>3. SoundBook(b) /\ RestingIds(b) = RestingIds(v) \ hidden /\ RestingIds(v) \subseteq u /\ hidden \subseteq u
  BY <1>2 DEF Followed, Mirrors, VenueSound
<1>4. CASE diff.kind = "new"
  <2>1. y = diff.order.id /\ y \notin u
    BY <1>1, <1>4, DiffShapes
       DEF Tells, TellsNew, TellsEnd, TellsEndAgain, TellsSize, TellsNothing
  <2>2. y \notin RestingIds(b) /\ Hides(diff, told)
    BY <1>1, <1>3, <2>1
  <2>3. CASE PassedOver(batch, diff, told)
    BY <1>1, <1>2, <2>2, <2>3 DEF Passes
  <2>4. CASE ~PassedOver(batch, diff, told)
    <3>1. diff.order.qty < Grain
      BY <1>4, <2>2, <2>4, SeenOrders DEF PassedOver
    <3>2. PICK op : op = OpOf(diff)  OBVIOUS
    <3>3. op \in BookOp /\ op = [kind |-> "Add", order |-> parse_order(diff.order)]
      BY <1>4, <3>2, OpsOfDiffs DEF OpOf
    <3>4. op.order.qty = 0
      <4>1. diff.order \in WireOrder
        BY <1>4, DiffShapes
      <4>2. parse_order(diff.order).qty = diff.order.qty \div Grain /\ diff.order.qty \in Qty
        BY <4>1, WireOrders
      <4>3. diff.order.qty \div Grain = 0
        BY <3>1, <4>2, Units
      <4> QED
        BY <3>3, <4>2, <4>3
    <3>5. apply_op(b, op).result # "Ok"
      BY <3>3, <3>4, ApplyAnswer DEF IsAdd
    <3>6. next = Consume(after, op)
      BY <2>4, <3>2 DEF Passes
    <3>7. next.book = b
      BY <1>2, <1>3, <3>3, <3>5, <3>6, OneConsumed
    <3> QED
      BY <1>1, <2>2, <3>7
  <2> QED
    BY <2>3, <2>4
<1>5. CASE Removing(diff)
  <2>1. DiffId(diff) = diff.oid
    BY <1>5, DiffShapes DEF Removing, Empties
  <2>2. CASE PassedOver(batch, diff, told)
    <3>1. diff.oid \in batch.removed
      BY <1>5, <2>2 DEF PassedOver, Removing, Empties
    <3> QED
      BY <2>1, <2>2, <3>1 DEF Passes, Followed
  <2>3. CASE ~PassedOver(batch, diff, told)
    BY <1>2, <1>3, <1>5, <2>3, RemovalPasses
  <2> QED
    BY <2>2, <2>3
<1>6. CASE diff.kind = "unknown"
  <2>1. next = after /\ ~Hides(diff, told)
    BY <1>6, OthersHideNothing DEF Passes, PassedOver
  <2> QED
    BY <1>1, <1>2, <1>3, <2>1
<1>7. CASE diff.kind \in {"update", "modified"} /\ ~Removing(diff)
  <2>1. ~Hides(diff, told)
    BY <1>7, SeenSizes DEF Removing
  <2>2. y \notin RestingIds(b)
    BY <1>1, <1>3, <2>1
  <2>3. PICK op : op = OpOf(diff)  OBVIOUS
  <2>4. op \in BookOp /\ IdOf(op) = y
    BY <1>1, <1>7, <2>3, OpsOfDiffs
  <2>5. op.kind # "Add" /\ op.id = y
    <3>1. op.kind # "Add"
      BY <1>7, <2>3 DEF OpOf, Removing
    <3> QED
      BY <2>4, <3>1 DEF IdOf
  <2>6. apply_op(b, op).result # "Ok"
    BY <2>2, <2>4, <2>5, ApplyAnswer DEF IsAdd
  <2>7. ~PassedOver(batch, diff, told)
    BY <1>7 DEF PassedOver
  <2>8. next = Consume(after, op)
    BY <2>3, <2>7 DEF Passes
  <2>9. next.book = b
    BY <1>2, <1>3, <2>4, <2>6, <2>8, OneConsumed
  <2> QED
    BY <1>1, <2>2, <2>9
<1> QED
  BY <1>4, <1>5, <1>6, <1>7, DiffShapes DEF Removing

\* Units do not grow when sizes shrink.
LEMMA FewerUnits ==
  ASSUME NEW sz \in Qty, NEW old \in Qty, sz < old, sz \div Grain >= old \div Grain
  PROVE  sz \div Grain = old \div Grain
<1>1. sz \in Nat /\ old \in Nat /\ Grain \in Nat /\ Grain > 0
  BY QtyLimitAssumption, GrainAssumption DEF Qty
<1>2. PICK p : p = sz \div Grain  OBVIOUS
<1>3. PICK q : q = old \div Grain  OBVIOUS
<1>4. p \in Nat /\ Grain * p <= sz /\ sz < Grain * p + Grain
  BY <1>1, <1>2
<1>5. q \in Nat /\ Grain * q <= old /\ old < Grain * q + Grain
  BY <1>1, <1>3
<1>6. p >= q
  BY <1>2, <1>3
<1>7. CASE p > q
  <2>1. PICK d \in Nat : p = q + 1 + d
    <3>1. p - q - 1 \in Nat /\ p = q + 1 + (p - q - 1)
      BY <1>4, <1>5, <1>7
    <3> QED
      BY <3>1
  <2>2. Grain * p = Grain * q + Grain + Grain * d /\ Grain * d >= 0
    BY <1>1, <1>5, <2>1
  <2>3. PICK a : a = Grain * p  OBVIOUS
  <2>4. PICK c : c = Grain * q  OBVIOUS
  <2>5. PICK e : e = Grain * d  OBVIOUS
  <2>6. a \in Nat /\ c \in Nat /\ e \in Nat
    BY <1>1, <1>4, <1>5, <2>1, <2>3, <2>4, <2>5
  <2>7. a = c + Grain + e /\ a <= sz /\ old < c + Grain
    BY <1>4, <1>5, <2>2, <2>3, <2>4, <2>5
  <2> QED
    BY <1>1, <2>6, <2>7
<1> QED
  BY <1>2, <1>3, <1>4, <1>5, <1>6, <1>7

\* A diff of an order that is not hidden, decoded and applied.
Shows(diff, v, u, batch, told, after, hidden, next) ==
    /\ diff \in Diff /\ Followed(v, u, batch.removed, after, hidden)
    /\ Passes(diff, batch, told, after, next)
    /\ DiffId(diff) \notin hidden /\ ~Hides(diff, told)

\* A new order that the decoder sees.
LEMMA NewPasses ==
  ASSUME NEW diff, NEW v, NEW v2, NEW u, NEW batch, NEW told, NEW after, NEW hidden, NEW next,
         Shows(diff, v, u, batch, told, after, hidden, next), TellsNew(diff, v, v2, u)
  PROVE  Mirrors(next.book, v2, hidden) /\ next.refused = after.refused
<1>0. /\ diff \in Diff /\ Followed(v, u, batch.removed, after, hidden)
      /\ Passes(diff, batch, told, after, next)
      /\ DiffId(diff) \notin hidden /\ ~Hides(diff, told)
  BY DEF Shows
<1>00. /\ diff.kind = "new" /\ diff.order.id \notin u /\ v2 = AppendOrder(v, diff.order)
  BY DEF TellsNew
<1> USE <1>0, <1>00
<1>1. PICK o : o = diff.order  OBVIOUS
<1>2. PICK b : b = after.book  OBVIOUS
<1>3. /\ SoundBook(b) /\ SoundBook(v) /\ Mirrors(b, v, hidden)
      /\ RestingIds(v) \subseteq u /\ hidden \subseteq u
  BY <1>2 DEF Followed, VenueSound
<1>4. o \in WireOrder /\ o.id \notin u /\ o.id \in told /\ ~(o.qty < Grain)
  BY <1>1, DiffShapes, SeenOrders
<1>5. /\ o.qty \div Grain > 0 /\ parse_order(o).qty = o.qty \div Grain
      /\ parse_order(o).id = o.id
  BY <1>4, WireOrders, Units
<1>6. PICK op : op = OpOf(diff)  OBVIOUS
<1>7. op \in BookOp /\ op = [kind |-> "Add", order |-> parse_order(o)]
  BY <1>1, <1>6, OpsOfDiffs DEF OpOf
<1>8. o.id \notin RestingIds(v) /\ o.id \notin hidden /\ o.id \notin RestingIds(b)
  BY <1>3, <1>4 DEF Mirrors
<1>9. ~PassedOver(batch, diff, told)
  BY <1>1, <1>4 DEF PassedOver, Removing, Empties
<1>10. next = Consume(after, op)
  BY <1>6, <1>9 DEF Passes
<1>11. apply_op(b, op).result = "Ok"
  <2>1. op.order.qty # 0 /\ op.order.id \notin RestingIds(b) /\ IsAdd(op)
    BY <1>5, <1>7, <1>8 DEF IsAdd
  <2> QED
    BY <1>7, <2>1, ApplyAnswer
<1>12. next.refused = after.refused /\ AcceptedAs(b, op, next.book)
  BY <1>2, <1>3, <1>7, <1>10, <1>11, OneConsumed
<1>13. next.book = AppendOrder(b, parse_order(o))
  BY <1>7, <1>12 DEF AcceptedAs, IsAdd
<1>14. v2 = AppendOrder(v, o)
  BY <1>1
<1>15. Mirrors(next.book, v2, hidden)
  BY <1>3, <1>4, <1>5, <1>8, <1>13, <1>14, MirrorAppend
<1> QED
  BY <1>12, <1>15

\* The end of an order that the book shows.
LEMMA DropPasses ==
  ASSUME NEW diff, NEW v, NEW v2, NEW u, NEW batch, NEW told, NEW after, NEW hidden, NEW next,
         Shows(diff, v, u, batch, told, after, hidden, next), TellsEnd(diff, v, v2)
  PROVE  Mirrors(next.book, v2, hidden) /\ next.refused = after.refused
<1>0. /\ diff \in Diff /\ Followed(v, u, batch.removed, after, hidden)
      /\ Passes(diff, batch, told, after, next)
      /\ DiffId(diff) \notin hidden /\ ~Hides(diff, told)
  BY DEF Shows
<1>00. /\ \/ diff.kind = "remove"
          \/ diff.kind = "update" /\ diff.sz = 0
       /\ diff.oid \in RestingIds(v) /\ v2 = DropOrder(v, diff.oid)
  BY DEF TellsEnd
<1> USE <1>0, <1>00
<1>1. PICK y : y = diff.oid  OBVIOUS
<1>2. PICK b : b = after.book  OBVIOUS
<1>3. /\ SoundBook(b) /\ SoundBook(v) /\ Mirrors(b, v, hidden)
      /\ batch.removed \cap RestingIds(b) = {}
  BY <1>2 DEF Followed, VenueSound
<1>4. Removing(diff)
  BY GrainAssumption DEF Removing, Empties
<1>5. y \in RestingIds(v) /\ v2 = DropOrder(v, y) /\ DiffId(diff) = y
  BY <1>1, DiffShapes
<1>6. y \in RestingIds(b)
  BY <1>3, <1>5 DEF Mirrors
<1>7. ~PassedOver(batch, diff, told)
  BY <1>1, <1>3, <1>6 DEF PassedOver
<1>8. next.refused = after.refused /\ next.book = DropOrder(b, y)
  BY <1>2, <1>3, <1>4, <1>5, <1>6, <1>7, RemovalPasses
<1> QED
  BY <1>3, <1>5, <1>6, <1>8, MirrorDrop

\* A new size of an order that the book shows.
LEMMA SizePasses ==
  ASSUME NEW diff, NEW v, NEW v2, NEW u, NEW batch, NEW told, NEW after, NEW hidden, NEW next,
         Shows(diff, v, u, batch, told, after, hidden, next), TellsSize(diff, v, v2)
  PROVE  /\ Mirrors(next.book, v2, hidden)
         /\ next.refused # after.refused => Slight(diff)
<1>0. /\ diff \in Diff /\ Followed(v, u, batch.removed, after, hidden)
      /\ Passes(diff, batch, told, after, next)
      /\ DiffId(diff) \notin hidden /\ ~Hides(diff, told)
  BY DEF Shows
<1>00. /\ diff.kind \in {"update", "modified"} /\ diff.sz \in WireSize
       /\ diff.kind = "update" =>
            diff.sz < get(v, diff.oid).qty /\ diff.origSz = get(v, diff.oid).qty
       /\ diff.oid \in RestingIds(v) /\ v2 = Resize(v, diff.oid, diff.sz)
  BY DEF TellsSize
<1> USE <1>0, <1>00
<1>1. PICK y : y = diff.oid  OBVIOUS
<1>2. PICK b : b = after.book  OBVIOUS
<1>3. PICK sz : sz = diff.sz  OBVIOUS
<1>4. /\ SoundBook(b) /\ SoundBook(v) /\ Mirrors(b, v, hidden)
      /\ get(v, y) \in WireOrder
  BY <1>1, <1>2 DEF Followed, VenueSound
<1>5. y \in RestingIds(v) /\ v2 = Resize(v, y, sz) /\ DiffId(diff) = y
  BY <1>1, <1>3, DiffShapes
<1>6. y \in RestingIds(b) /\ get(b, y) = parse_order(get(v, y))
  BY <1>4, <1>5 DEF Mirrors
<1>7. sz \in Qty /\ sz > 0
  BY <1>3, WireSizes
<1>8. ~Empties(diff)
  BY <1>3, <1>7, SeenSizes, QtyLimitAssumption DEF Qty
<1>9. PICK n : n = sz \div Grain  OBVIOUS
<1>10. n \in Qty /\ n > 0
  BY <1>3, <1>7, <1>8, <1>9, Units DEF Empties
<1>11. PICK op : op = OpOf(diff)  OBVIOUS
<1>12. /\ op \in BookOp /\ op.id = y /\ op.new_qty = n /\ ~IsAdd(op) /\ ~Drops(op)
       /\ op.kind = IF diff.kind = "update" THEN "UpdateSize" ELSE "AmendSize"
  <2>1. op \in BookOp
    BY <1>11, OpsOfDiffs
  <2>2. op = [kind |-> IF diff.kind = "update" THEN "UpdateSize" ELSE "AmendSize",
              id |-> y, new_qty |-> n]
    BY <1>1, <1>3, <1>8, <1>9, <1>11 DEF OpOf
  <2> QED
    BY <1>10, <2>1, <2>2 DEF IsAdd, Drops
<1>13. ~PassedOver(batch, diff, told)
  BY <1>8 DEF PassedOver, Removing
<1>14. next = Consume(after, op)
  BY <1>11, <1>13 DEF Passes
<1>15. PICK q : q = get(v, y).qty  OBVIOUS
<1>16. q \in Qty /\ get(b, y).qty = q \div Grain
  BY <1>4, <1>6, <1>15, WireOrders
<1>17. PICK units : units = q \div Grain  OBVIOUS
<1>18. units \in Qty
  BY <1>16, <1>17, Units
<1>19. Grows(b, op) <=> diff.kind = "update" /\ n >= units
  BY <1>12, <1>16, <1>17 DEF Grows
<1>20. CASE diff.kind = "update" /\ n >= units
  <2>1. sz < q /\ diff.origSz = q
    BY <1>1, <1>3, <1>15, <1>20
  <2>2. sz \div Grain = q \div Grain
    BY <1>7, <1>9, <1>16, <1>17, <1>20, <2>1, FewerUnits
  <2>3. Slight(diff)
    BY <1>3, <1>20, <2>1, <2>2 DEF Slight
  <2>4. apply_op(b, op).result # "Ok"
    BY <1>12, <1>19, <1>20, ApplyAnswer
  <2>5. next.book = b
    BY <1>2, <1>4, <1>12, <1>14, <2>4, OneConsumed
  <2>6. Mirrors(b, v2, hidden)
    BY <1>4, <1>5, <1>6, <1>7, <1>15, <2>2, MirrorBelowUnit
  <2> QED
    BY <2>3, <2>5, <2>6
<1>21. CASE ~(diff.kind = "update" /\ n >= units)
  <2>1. apply_op(b, op).result = "Ok"
    BY <1>6, <1>12, <1>19, <1>21, ApplyAnswer
  <2>2. next.refused = after.refused /\ AcceptedAs(b, op, next.book)
    BY <1>2, <1>4, <1>12, <1>14, <2>1, OneConsumed
  <2>3. next.book = Resize(b, y, n)
    BY <1>12, <2>2 DEF AcceptedAs
  <2>4. Mirrors(next.book, v2, hidden)
    BY <1>4, <1>5, <1>6, <1>7, <1>9, <1>10, <2>3, MirrorResize
  <2> QED
    BY <2>2, <2>4
<1> QED
  BY <1>20, <1>21

\* What the book sees of a diff, it follows.
LEMMA SeenPasses ==
  ASSUME NEW diff, NEW v, NEW v2, NEW u, NEW batch, NEW told, NEW after, NEW hidden, NEW next,
         Shows(diff, v, u, batch, told, after, hidden, next), Tells(diff, v, v2, u, batch.removed)
  PROVE  /\ Mirrors(next.book, v2, hidden)
         /\ next.refused # after.refused => Slight(diff)
<1>1. Mirrors(after.book, v, hidden) /\ Passes(diff, batch, told, after, next)
  BY DEF Shows, Followed
<1>2. CASE TellsNew(diff, v, v2, u)
  BY <1>2, NewPasses
<1>3. CASE TellsEnd(diff, v, v2)
  BY <1>3, DropPasses
<1>4. CASE TellsEndAgain(diff, v, v2, batch.removed)
  <2>1. next = after
    BY <1>1, <1>4 DEF Passes, PassedOver, Removing, TellsEndAgain
  <2> QED
    BY <1>1, <1>4, <2>1 DEF TellsEndAgain
<1>5. CASE TellsSize(diff, v, v2)
  BY <1>5, SizePasses
<1>6. CASE TellsNothing(diff, v, v2)
  <2>1. next = after
    BY <1>1, <1>6 DEF Passes, PassedOver, TellsNothing
  <2> QED
    BY <1>1, <1>6, <2>1 DEF TellsNothing
<1> QED
  BY <1>2, <1>3, <1>4, <1>5, <1>6 DEF Tells

\* Only a new order comes to a book.
LEMMA NoNewcomer ==
  ASSUME NEW diff \in Diff, diff.kind # "new", NEW batch, NEW told, NEW after,
         SoundBook(after.book), NEW next, Passes(diff, batch, told, after, next)
  PROVE  RestingIds(next.book) \subseteq RestingIds(after.book)
<1>1. CASE PassedOver(batch, diff, told)
  BY <1>1 DEF Passes
<1>2. CASE ~PassedOver(batch, diff, told)
  <2>1. PICK op : op = OpOf(diff)  OBVIOUS
  <2>2. PICK b : b = after.book  OBVIOUS
  <2>3. next = Consume(after, op) /\ diff.kind # "unknown"
    BY <1>2, <2>1 DEF Passes, PassedOver
  <2>4. op \in BookOp /\ ~IsAdd(op)
    BY <2>1, <2>3, OpsOfDiffs DEF OpOf, IsAdd
  <2>5. CASE apply_op(b, op).result # "Ok"
    BY <2>2, <2>3, <2>4, <2>5, OneConsumed
  <2>6. CASE apply_op(b, op).result = "Ok"
    <3>1. AcceptedAs(b, op, next.book)
      BY <2>2, <2>3, <2>4, <2>6, OneConsumed
    <3>2. PICK y : y = op.id  OBVIOUS
    <3>3. CASE y \in RestingIds(b) /\ next.book = DropOrder(b, y)
      BY <2>2, <3>3, DropSound
    <3>4. PICK n : n = op.new_qty  OBVIOUS
    <3>5. CASE n \in Qty /\ n > 0 /\ next.book = Resize(b, y, n)
      BY <2>2, <3>5, ResizeSound
    <3> QED
      BY <2>4, <3>1, <3>2, <3>3, <3>4, <3>5 DEF AcceptedAs
  <2> QED
    BY <2>5, <2>6
<1> QED
  BY <1>1, <1>2

\* The ids of a set if something is so.
IdIf(condition, diff) == IF condition THEN {DiffId(diff)} ELSE {}

\* A diff of the venue's, decoded and applied.
Goes(diff, v, v2, u, batch, told, after, hidden, next) ==
    /\ diff \in Diff /\ batch \in Batch
    /\ Followed(v, u, batch.removed, after, hidden)
    /\ Tells(diff, v, v2, u, batch.removed)
    /\ Passes(diff, batch, told, after, next)

\* The book follows the venue over one more diff, refusing only what is hidden
\* from it or too slight to show.
LEMMA OneFollowed ==
  ASSUME NEW diff, NEW v, NEW v2, NEW u, NEW batch, NEW told, NEW after, NEW hidden, NEW next,
         Goes(diff, v, v2, u, batch, told, after, hidden, next)
  PROVE  /\ Followed(v2, u \cup {DiffId(diff)}, DecodeDiff(batch, diff, told).removed, next,
                     hidden \cup IdIf(Hides(diff, told), diff))
         /\ next.refused \subseteq after.refused
              \cup (hidden \cup IdIf(Hides(diff, told), diff)) \cup IdIf(Slight(diff), diff)
<1>a. PICK u2 : u2 = u \cup {DiffId(diff)}  OBVIOUS
<1>b. PICK hidden2 : hidden2 = hidden \cup IdIf(Hides(diff, told), diff)  OBVIOUS
<1>c. PICK batch2 : batch2 = DecodeDiff(batch, diff, told)  OBVIOUS
<1>d. /\ diff \in Diff /\ batch \in Batch
      /\ Followed(v, u, batch.removed, after, hidden)
      /\ Tells(diff, v, v2, u, batch.removed)
      /\ Passes(diff, batch, told, after, next)
  BY DEF Goes
<1> USE <1>a, <1>b, <1>c, <1>d
<1>1. PICK y : y = DiffId(diff)  OBVIOUS
<1>2. /\ VenueSound(v, u) /\ hidden \subseteq u /\ batch.removed \subseteq u
      /\ SoundBook(after.book) /\ Mirrors(after.book, v, hidden)
      /\ batch.removed \cap RestingIds(after.book) = {}
  BY DEF Followed
<1>3. VenueSound(v2, u2) /\ OthersStay(v, v2, y) /\ u2 = u \cup {y}
  BY <1>1, <1>2, VenueTells
<1>4. /\ SoundBook(next.book) /\ OthersStay(after.book, next.book, y)
      /\ next.refused \subseteq after.refused \cup {y}
  BY <1>1, <1>2, PassesOne
<1>5. \/ hidden2 = hidden
      \/ y \in hidden2 /\ hidden2 = hidden \cup {y}
  BY <1>1 DEF IdIf
<1>6. hidden2 \subseteq u2
  BY <1>2, <1>3, <1>5
<1>7. /\ Mirrors(next.book, v2, hidden2)
      /\ next.refused \subseteq after.refused \cup hidden2 \cup IdIf(Slight(diff), diff)
  <2>1. CASE y \in hidden \/ Hides(diff, told)
    <3>1. y \in hidden2 /\ hidden2 = hidden \cup {y}
      BY <1>1, <2>1 DEF IdIf
    <3>2. y \notin RestingIds(next.book)
      BY <1>1, <2>1, HiddenPasses
    <3>3. SoundBook(v) /\ SoundBook(v2)
      BY <1>2, <1>3 DEF VenueSound
    <3>4. Mirrors(next.book, v2, hidden2)
      BY <1>2, <1>3, <1>4, <3>1, <3>2, <3>3, MirrorHidden
    <3> QED
      BY <1>4, <3>1, <3>4
  <2>2. CASE ~(y \in hidden \/ Hides(diff, told))
    <3>1. hidden2 = hidden
      BY <2>2 DEF IdIf
    <3>2. Shows(diff, v, u, batch, told, after, hidden, next)
      BY <1>1, <2>2 DEF Shows
    <3>3. /\ Mirrors(next.book, v2, hidden)
          /\ next.refused # after.refused => Slight(diff)
      BY <3>2, SeenPasses
    <3> QED
      BY <1>1, <1>4, <3>1, <3>3 DEF IdIf
  <2> QED
    BY <2>1, <2>2
<1>8. \/ batch2.removed = batch.removed
      \/ /\ Removing(diff) /\ ~PassedOver(batch, diff, told)
         /\ batch2.removed = batch.removed \cup {diff.oid} /\ diff.oid = y
  <2>1. PassedOver(batch, diff, told) => batch2.removed = batch.removed
    BY OneDecoded DEF NothingEmitted
  <2>2. ~PassedOver(batch, diff, told) =>
          batch2.removed = batch.removed \cup (IF Removing(diff) THEN {diff.oid} ELSE {})
    BY OneDecoded
  <2>3. Removing(diff) => diff.oid = y
    BY <1>1, DiffShapes DEF Removing, Empties
  <2> QED
    BY <2>1, <2>2, <2>3
<1>9. batch2.removed \subseteq u2
  BY <1>2, <1>3, <1>8
<1>10. batch2.removed \cap RestingIds(next.book) = {}
  <2> SUFFICES ASSUME NEW x \in batch2.removed PROVE x \notin RestingIds(next.book)
    OBVIOUS
  <2>1. CASE x \in batch.removed /\ x # y
    BY <1>2, <1>4, <2>1 DEF OthersStay
  <2>2. CASE x \in batch.removed /\ x = y
    <3>1. diff.kind # "new"
      <4>1. y \in u
        BY <1>2, <2>2
      <4> QED
        BY <1>1, <4>1, DiffShapes
           DEF Tells, TellsNew, TellsEnd, TellsEndAgain, TellsSize, TellsNothing
    <3>2. RestingIds(next.book) \subseteq RestingIds(after.book)
      BY <1>2, <3>1, NoNewcomer
    <3> QED
      BY <1>2, <2>2, <3>2
  <2>3. CASE x \notin batch.removed
    <3>1. Removing(diff) /\ ~PassedOver(batch, diff, told) /\ x = y
      BY <1>8, <2>3
    <3> QED
      BY <1>1, <1>2, <3>1, RemovalPasses
  <2> QED
    BY <2>1, <2>2, <2>3
<1> QED
  BY <1>3, <1>4, <1>6, <1>7, <1>9, <1>10 DEF Followed

\* The operations of a block carry what their message says of their ids.
WellTold(reasoned, u, told, removed, emptied) ==
    /\ IdOf(reasoned.op) \in u
    /\ reasoned.status <=> IdOf(reasoned.op) \in told
    /\ reasoned.op.kind = "Remove" =>
         /\ reasoned.op.id \in removed
         /\ reasoned.diff = "CompleteFillCollapsed" <=> reasoned.op.id \in emptied

\* What was emptied was removed, and what was removed otherwise is gone.
Marked(batch, v, u, told, emptied) ==
    /\ batch \in Batch /\ batch.removed \subseteq u /\ emptied \subseteq batch.removed
    /\ \A x \in batch.removed : x \in emptied \/ x \notin RestingIds(v)
    /\ \A i \in DOMAIN batch.ops : WellTold(batch.ops[i], u, told, batch.removed, emptied)

\* A removal takes the order from the venue, or had taken it.
LEMMA RemovedIsGone ==
  ASSUME NEW diff \in Diff, diff.kind = "remove", NEW v, NEW v2, NEW u, VenueSound(v, u),
         NEW removed, Tells(diff, v, v2, u, removed)
  PROVE  DiffId(diff) \notin RestingIds(v2)
<1>1. PICK y : y = diff.oid  OBVIOUS
<1>2. DiffId(diff) = y /\ SoundBook(v)
  BY <1>1, DiffShapes DEF VenueSound
<1>3. CASE TellsEnd(diff, v, v2)
  <2>1. y \in RestingIds(v) /\ v2 = DropOrder(v, y)
    BY <1>1, <1>3 DEF TellsEnd
  <2> QED
    BY <1>2, <2>1, DropSound
<1>4. CASE TellsEndAgain(diff, v, v2, removed)
  BY <1>1, <1>2, <1>4 DEF TellsEndAgain
<1> QED
  BY <1>3, <1>4 DEF Tells, TellsNew, TellsSize, TellsNothing

\* A size is told of an order that rests, and no order comes with it.
LEMMA OldOrdersTold ==
  ASSUME NEW diff \in Diff, diff.kind # "new", NEW v, NEW v2, NEW u, VenueSound(v, u),
         NEW removed, Tells(diff, v, v2, u, removed)
  PROVE  /\ RestingIds(v2) \subseteq RestingIds(v)
         /\ Empties(diff) => DiffId(diff) \in RestingIds(v)
<1>1. PICK y : y = diff.oid  OBVIOUS
<1>2. DiffId(diff) = y /\ SoundBook(v)
  BY <1>1, DiffShapes DEF VenueSound
<1>3. CASE TellsEnd(diff, v, v2)
  <2>1. y \in RestingIds(v) /\ v2 = DropOrder(v, y)
    BY <1>1, <1>3 DEF TellsEnd
  <2> QED
    BY <1>2, <2>1, DropSound
<1>4. CASE TellsSize(diff, v, v2)
  <2>1. PICK sz : sz = diff.sz  OBVIOUS
  <2>2. y \in RestingIds(v) /\ v2 = Resize(v, y, sz) /\ sz \in Qty /\ sz > 0
    BY <1>1, <1>4, <2>1, WireSizes DEF TellsSize
  <2> QED
    BY <1>2, <2>2, ResizeSound
<1>5. CASE v2 = v /\ ~Empties(diff)
  BY <1>5
<1> QED
  BY <1>3, <1>4, <1>5 DEF Tells, TellsNew, TellsEndAgain, TellsNothing, Empties

\* One more diff of the block: a removal is marked as a complete fill if the
\* diff empties the order, and the earlier marks stay right.
LEMMA OneMarked ==
  ASSUME NEW diff \in Diff, NEW v, NEW v2, NEW u, VenueSound(v, u),
         NEW batch, Tells(diff, v, v2, u, batch.removed), NEW told, NEW emptied,
         Marked(batch, v, u, told, emptied),
         NEW u2, u2 = u \cup {DiffId(diff)},
         NEW emptied2, emptied2 = emptied \cup IdIf(Empties(diff), diff),
         NEW batch2, batch2 = DecodeDiff(batch, diff, told)
  PROVE  Marked(batch2, v2, u2, told, emptied2)
<1>1. PICK y : y = DiffId(diff)  OBVIOUS
<1>2. /\ batch \in Batch /\ batch.removed \subseteq u /\ emptied \subseteq batch.removed
      /\ \A x \in batch.removed : x \in emptied \/ x \notin RestingIds(v)
      /\ \A i \in DOMAIN batch.ops : WellTold(batch.ops[i], u, told, batch.removed, emptied)
  BY DEF Marked
<1>3. u2 = u \cup {y} /\ emptied2 = emptied \cup (IF Empties(diff) THEN {y} ELSE {})
  BY <1>1 DEF IdIf
<1>4. batch2 \in Batch
  BY <1>2, OneDecoded
<1>5. \/ PassedOver(batch, diff, told) /\ NothingEmitted(batch, batch2)
      \/ /\ ~PassedOver(batch, diff, told)
         /\ Emitted(batch, batch2, OpOf(diff), WhyOf(diff), told)
         /\ batch2.removed = batch.removed \cup (IF Removing(diff) THEN {y} ELSE {})
  <2>1. Removing(diff) => diff.oid = y
    BY <1>1, DiffShapes DEF Removing, Empties
  <2> QED
    BY <1>2, <2>1, OneDecoded
<1>6. diff.kind = "new" => y \notin u /\ ~Removing(diff)
  <2>1. diff.kind = "new" => y = diff.order.id
    BY <1>1 DEF DiffId
  <2> QED
    BY <2>1 DEF Tells, TellsNew, TellsEnd, TellsEndAgain, TellsSize, TellsNothing, Removing, Empties
<1>7. batch.removed \subseteq batch2.removed
  BY <1>5 DEF NothingEmitted
<1>8. Empties(diff) => y \in batch2.removed
  <2> SUFFICES ASSUME Empties(diff) PROVE y \in batch2.removed
    OBVIOUS
  <2>1. Removing(diff) /\ diff.oid = y /\ diff.kind \notin {"new", "unknown"}
    BY <1>1, DiffShapes DEF Removing, Empties
  <2>2. PassedOver(batch, diff, told) => y \in batch.removed
    BY <2>1 DEF PassedOver
  <2> QED
    BY <1>5, <1>7, <2>1, <2>2
<1>9. emptied2 \subseteq batch2.removed /\ batch2.removed \subseteq u2
  BY <1>2, <1>3, <1>5, <1>7, <1>8 DEF NothingEmitted
<1>10. ASSUME NEW x \in batch2.removed PROVE x \in emptied2 \/ x \notin RestingIds(v2)
  <2>1. CASE x \in batch.removed
    <3>1. diff.kind # "new" => RestingIds(v2) \subseteq RestingIds(v)
      BY OldOrdersTold
    <3>2. CASE diff.kind = "new"
      <4>1. x # y /\ RestingIds(v2) \subseteq RestingIds(v) \cup {y}
        BY <1>1, <1>2, <1>6, <2>1, <3>2, VenueTells DEF OthersStay
      <4> QED
        BY <1>2, <1>3, <2>1, <4>1
    <3> QED
      BY <1>2, <1>3, <2>1, <3>1, <3>2
  <2>2. CASE x \notin batch.removed
    <3>1. x = y /\ Removing(diff)
      BY <1>5, <2>2 DEF NothingEmitted
    <3>2. CASE Empties(diff)
      BY <1>3, <3>1, <3>2
    <3>3. CASE diff.kind = "remove"
      BY <1>1, <3>1, <3>3, RemovedIsGone
    <3> QED
      BY <3>1, <3>2, <3>3 DEF Removing
  <2> QED
    BY <2>1, <2>2
<1>11. ASSUME NEW i \in DOMAIN batch.ops
       PROVE  WellTold(batch.ops[i], u2, told, batch2.removed, emptied2)
  <2>1. PICK r : r = batch.ops[i]  OBVIOUS
  <2>2. WellTold(r, u, told, batch.removed, emptied)
    BY <1>2, <2>1
  <2>3. r.op.kind = "Remove" => (r.op.id \in emptied2 <=> r.op.id \in emptied)
    <3> SUFFICES ASSUME r.op.kind = "Remove", r.op.id \in emptied2, r.op.id \notin emptied
                 PROVE  FALSE
      BY <1>3
    <3>1. Empties(diff) /\ r.op.id = y
      BY <1>3
    <3>2. r.op.id \notin RestingIds(v)
      BY <1>2, <2>2 DEF WellTold
    <3>3. y \in RestingIds(v)
      BY <1>1, <3>1, OldOrdersTold DEF Empties
    <3> QED
      BY <3>1, <3>2, <3>3
  <2>4. WellTold(r, u2, told, batch2.removed, emptied2)
    BY <1>3, <1>7, <2>2, <2>3 DEF WellTold
  <2> QED
    BY <2>1, <2>4
<1>12. ASSUME NEW i \in DOMAIN batch2.ops
       PROVE  WellTold(batch2.ops[i], u2, told, batch2.removed, emptied2)
  <2>1. CASE PassedOver(batch, diff, told)
    <3>1. batch2.ops = batch.ops
      BY <1>5, <2>1 DEF NothingEmitted
    <3> QED
      BY <1>11, <3>1
  <2>2. CASE ~PassedOver(batch, diff, told)
    <3>1. PICK r : r = reasoned_venue_op(OpOf(diff), WhyOf(diff), told)  OBVIOUS
    <3>2. batch2.ops = Append(batch.ops, r)
      BY <1>5, <2>2, <3>1 DEF Emitted
    <3>3. batch.ops \in Seq(Reasoned)
      BY <1>2 DEF Batch
    <3>4. CASE i \in DOMAIN batch.ops
      <4>1. batch2.ops[i] = batch.ops[i]
        BY <3>2, <3>3, <3>4
      <4> QED
        BY <1>11, <3>4, <4>1
    <3>5. CASE i \notin DOMAIN batch.ops
      <4>1. batch2.ops[i] = r
        BY <3>2, <3>3, <3>5
      <4>2. PICK op : op = OpOf(diff)  OBVIOUS
      <4>3. PICK why : why = WhyOf(diff)  OBVIOUS
      <4>4. /\ IdOf(op) = y /\ (op.kind = "Remove" <=> Removing(diff))
            /\ Removing(diff) => op.id = y /\ (why = "CompleteFillCollapsed" <=> Empties(diff))
        <5>1. diff.kind # "unknown"
          BY <2>2 DEF PassedOver
        <5> QED
          BY <1>1, <4>2, <4>3, <5>1, OpsOfDiffs
      <4>5. r.op = op /\ r.diff = why /\ (r.status <=> IdOf(op) \in told)
        BY <3>1, <4>2, <4>3 DEF reasoned_venue_op
      <4>6. Removing(diff) => y \in batch2.removed /\ y \notin emptied
        <5>1. Removing(diff) => diff.oid = y
          BY <1>1, DiffShapes DEF Removing, Empties
        <5>2. Removing(diff) => y \notin batch.removed
          BY <2>2, <5>1 DEF PassedOver
        <5> QED
          BY <1>2, <1>5, <2>2, <5>2
      <4>7. WellTold(r, u2, told, batch2.removed, emptied2)
        BY <1>3, <4>4, <4>5, <4>6 DEF WellTold
      <4> QED
        BY <4>1, <4>7
    <3> QED
      BY <3>4, <3>5
  <2> QED
    BY <2>1, <2>2
<1> QED
  BY <1>4, <1>9, <1>10, <1>12 DEF Marked

-----------------------------------------------------------------------------
(* A block as it grows *)

\* One more diff of a block.
LEMMA ToldOnAppend ==
  ASSUME NEW S, NEW block \in Seq(S), NEW diff \in S
  PROVE  Told(Append(block, diff)) = Told(block) \cup {diff}
<1>1. PICK longer : longer = Append(block, diff)  OBVIOUS
<1>2. /\ Len(block) \in Nat /\ DOMAIN block = 1 .. Len(block)
      /\ DOMAIN longer = 1 .. (Len(block) + 1) /\ longer[Len(block) + 1] = diff
      /\ \A i \in DOMAIN block : longer[i] = block[i]
  BY <1>1
<1>3. Told(longer) \subseteq Told(block) \cup {diff}
  <2> SUFFICES ASSUME NEW i \in DOMAIN longer PROVE longer[i] \in Told(block) \cup {diff}
    BY DEF Told
  <2>1. i \in DOMAIN block \/ i = Len(block) + 1
    BY <1>2
  <2> QED
    BY <1>2, <2>1 DEF Told
<1>4. Told(block) \cup {diff} \subseteq Told(longer)
  <2>1. ASSUME NEW i \in DOMAIN block PROVE block[i] \in Told(longer)
    <3>1. i \in DOMAIN longer /\ longer[i] = block[i]
      BY <1>2
    <3> QED
      BY <3>1 DEF Told
  <2>2. diff \in Told(longer)
    <3>1. Len(block) + 1 \in DOMAIN longer
      BY <1>2
    <3> QED
      BY <1>2, <3>1 DEF Told
  <2> QED
    BY <2>1, <2>2 DEF Told
<1> QED
  BY <1>1, <1>3, <1>4

\* What it hides, and which of its diffs are slight or empty an order.
SignsOf(block, longer, diff, told) ==
    /\ Unresolved(longer, told) \cup Dust(longer)
         = Unresolved(block, told) \cup Dust(block) \cup IdIf(Hides(diff, told), diff)
    /\ Invisible(longer) = Invisible(block) \cup IdIf(Slight(diff), diff)
    /\ Emptied(longer) = Emptied(block) \cup IdIf(Empties(diff), diff)

\* They follow the diffs one by one.
LEMMA SignsOnAppend ==
  ASSUME NEW S, NEW block \in Seq(S), NEW diff \in S, NEW longer, longer = Append(block, diff),
         NEW told
  PROVE  SignsOf(block, longer, diff, told)
<1>1. PICK some : some = Told(block)  OBVIOUS
<1>2. Told(longer) = some \cup {diff}
  BY <1>1, ToldOnAppend
<1>3. Unresolved(longer, told) = Unresolved(block, told)
        \cup IdIf(diff.kind = "new" /\ diff.order.id \notin told, diff)
  BY <1>1, <1>2 DEF Unresolved, IdIf
<1>4. Dust(longer) = Dust(block) \cup IdIf(\E sz \in Sizes(diff) : 0 < sz /\ sz < Grain, diff)
  BY <1>1, <1>2 DEF Dust, IdIf
<1>5. Invisible(longer) = Invisible(block) \cup IdIf(Slight(diff), diff)
  BY <1>1, <1>2 DEF Invisible, IdIf, Slight
<1>6. Emptied(longer) = Emptied(block) \cup IdIf(Empties(diff), diff)
  BY <1>1, <1>2 DEF Emptied, IdIf, Empties
<1>7. IdIf(Hides(diff, told), diff)
        = IdIf(diff.kind = "new" /\ diff.order.id \notin told, diff)
            \cup IdIf(\E sz \in Sizes(diff) : 0 < sz /\ sz < Grain, diff)
  BY DEF Hides, IdIf
<1> QED
  BY <1>3, <1>4, <1>5, <1>6, <1>7 DEF SignsOf

\* Nothing is said in a block without diffs.
LEMMA NothingTold ==
  ASSUME NEW told
  PROVE  /\ Unresolved(<<>>, told) = {} /\ Dust(<<>>) = {}
         /\ Invisible(<<>>) = {} /\ Emptied(<<>>) = {}
<1>1. Told(<<>>) = {}
  BY DEF Told
<1> QED
  BY <1>1 DEF Unresolved, Dust, Invisible, Emptied

\* The operations of a batch, without their causes.
Plain(batch) == strip_update_batch(batch).ops

\* A batch gives operations, one more if the diff is not passed over.
LEMMA PlainOnAppend ==
  ASSUME NEW batch \in Batch, NEW diff \in Diff, NEW told,
         NEW batch2, batch2 = DecodeDiff(batch, diff, told)
  PROVE  /\ Plain(batch) \in Seq(BookOp)
         /\ PassedOver(batch, diff, told) => Plain(batch2) = Plain(batch)
         /\ ~PassedOver(batch, diff, told) =>
              OpOf(diff) \in BookOp /\ Plain(batch2) = Append(Plain(batch), OpOf(diff))
<1>1. PICK list : list = batch.ops  OBVIOUS
<1>2. list \in Seq(Reasoned)
  BY <1>1 DEF Batch
<1>3. Plain(batch) = [i \in DOMAIN list |-> list[i].op]
  BY <1>1 DEF Plain, strip_update_batch
<1>4. \A i \in DOMAIN list : list[i].op \in BookOp
  <2>1. \A i \in DOMAIN list : list[i] \in Reasoned
    BY <1>2
  <2>2. \A r \in Reasoned : r.op \in BookOp
    BY DEF Reasoned
  <2> QED
    BY <2>1, <2>2
<1>5. Plain(batch) \in Seq(BookOp)
  BY <1>2, <1>3, <1>4
<1>6. ASSUME PassedOver(batch, diff, told) PROVE Plain(batch2) = Plain(batch)
  <2>1. batch2.ops = list
    BY <1>1, <1>6, OneDecoded DEF NothingEmitted
  <2> QED
    BY <1>3, <2>1 DEF Plain, strip_update_batch
<1>7. ASSUME ~PassedOver(batch, diff, told)
      PROVE  OpOf(diff) \in BookOp /\ Plain(batch2) = Append(Plain(batch), OpOf(diff))
  <2>1. PICK r : r = reasoned_venue_op(OpOf(diff), WhyOf(diff), told)  OBVIOUS
  <2>2. batch2.ops = Append(list, r)
    BY <1>1, <1>7, <2>1, OneDecoded DEF Emitted
  <2>3. r.op = OpOf(diff)
    BY <2>1 DEF reasoned_venue_op
  <2>4. OpOf(diff) \in BookOp
    BY <1>7, OpsOfDiffs DEF PassedOver
  <2>5. PICK longer : longer = Append(list, r)  OBVIOUS
  <2>6. Plain(batch2) = [i \in DOMAIN longer |-> longer[i].op]
    BY <2>2, <2>5 DEF Plain, strip_update_batch
  <2>7. PICK op : op = OpOf(diff)  OBVIOUS
  <2>8. PICK ops : ops = Plain(batch)  OBVIOUS
  <2>9. [i \in DOMAIN longer |-> longer[i].op] = Append(ops, op)
    <3>1. /\ Len(list) \in Nat /\ DOMAIN list = 1 .. Len(list)
          /\ DOMAIN longer = 1 .. (Len(list) + 1)
          /\ \A i \in 1 .. Len(list) : longer[i] = list[i]
          /\ longer[Len(list) + 1] = r
      BY <1>2, <2>5
    <3>2. /\ ops \in Seq(BookOp) /\ Len(ops) = Len(list)
          /\ \A i \in 1 .. Len(list) : ops[i] = list[i].op
      BY <1>3, <1>5, <2>8, <3>1
    <3>3. PICK more : more = Append(ops, op)  OBVIOUS
    <3>4. more \in Seq(BookOp)
      BY <2>4, <2>7, <3>2, <3>3
    <3>5. Len(more) = Len(list) + 1 /\ DOMAIN more = 1 .. (Len(list) + 1)
      BY <2>4, <2>7, <3>1, <3>2, <3>3
    <3>6. \A i \in 1 .. (Len(list) + 1) :
            more[i] = IF i = Len(list) + 1 THEN op ELSE ops[i]
      BY <2>4, <2>7, <3>1, <3>2, <3>3
    <3>7. \A i \in 1 .. (Len(list) + 1) :
            longer[i].op = IF i = Len(list) + 1 THEN op ELSE ops[i]
      BY <2>3, <2>7, <3>1, <3>2
    <3>8. more = [i \in 1 .. (Len(list) + 1) |-> more[i]]
      BY <3>4, <3>5
    <3>9. \A i \in 1 .. (Len(list) + 1) : longer[i].op = more[i]
      BY <3>6, <3>7
    <3> QED
      BY <3>1, <3>3, <3>8, <3>9
  <2> QED
    BY <2>4, <2>6, <2>7, <2>8, <2>9
<1> QED
  BY <1>5, <1>6, <1>7

\* What is hidden once the block is applied, and what it is applied to.
Hidden(before, block, told) == before \cup Unresolved(block, told) \cup Dust(block)
Applied(b, block, told) == ConsumeAll(b, Plain(decode_updates_with_meta(block, told)))

\* The venue v has told of a block since the book was b and hid the orders of
\* before: decoded and applied, it would bring the book where the venue is.
BlockFollowed(v, u, block, told, b, before) ==
    /\ block \in Seq(Diff) /\ \A i \in DOMAIN block : DiffId(block[i]) \in u
    /\ Followed(v, u, decode_updates_with_meta(block, told).removed,
                Applied(b, block, told), Hidden(before, block, told))
    /\ Applied(b, block, told).refused
         \subseteq Hidden(before, block, told) \cup Invisible(block)
    /\ Marked(decode_updates_with_meta(block, told), v, u, told, Emptied(block))

\* One more diff.
LEMMA OneMoreDiff ==
  ASSUME NEW v, NEW u, NEW block, NEW told, NEW b, NEW before,
         BlockFollowed(v, u, block, told, b, before),
         NEW diff \in Diff, NEW v2,
         Tells(diff, v, v2, u, decode_updates_with_meta(block, told).removed)
  PROVE  BlockFollowed(v2, u \cup {DiffId(diff)}, Append(block, diff), told, b, before)
<1>1. PICK longer : longer = Append(block, diff)  OBVIOUS
<1>2. PICK u2 : u2 = u \cup {DiffId(diff)}  OBVIOUS
<1>3. PICK batch : batch = decode_updates_with_meta(block, told)  OBVIOUS
<1>4. PICK batch2 : batch2 = decode_updates_with_meta(longer, told)  OBVIOUS
<1>5. PICK after : after = Applied(b, block, told)  OBVIOUS
<1>6. PICK next : next = Applied(b, longer, told)  OBVIOUS
<1>7. PICK hidden : hidden = Hidden(before, block, told)  OBVIOUS
<1>8. PICK hidden2 : hidden2 = Hidden(before, longer, told)  OBVIOUS
<1>9. PICK emptied : emptied = Emptied(block)  OBVIOUS
<1>10. /\ block \in Seq(Diff) /\ \A i \in DOMAIN block : DiffId(block[i]) \in u
       /\ Followed(v, u, batch.removed, after, hidden)
       /\ after.refused \subseteq hidden \cup Invisible(block)
       /\ Marked(batch, v, u, told, emptied)
       /\ Tells(diff, v, v2, u, batch.removed)
  BY <1>3, <1>5, <1>7, <1>9 DEF BlockFollowed
<1>11. batch2 = DecodeDiff(batch, diff, told)
  BY <1>1, <1>3, <1>4, <1>10, DecodedOnAppend
<1>12. batch \in Batch
  BY <1>10 DEF Marked
<1>13. Passes(diff, batch, told, after, next)
  <2>1. after = ConsumeAll(b, Plain(batch)) /\ next = ConsumeAll(b, Plain(batch2))
    BY <1>3, <1>4, <1>5, <1>6 DEF Applied
  <2>2. CASE PassedOver(batch, diff, told)
    <3>1. Plain(batch2) = Plain(batch)
      BY <1>11, <1>12, <2>2, PlainOnAppend
    <3> QED
      BY <2>1, <2>2, <3>1 DEF Passes
  <2>3. CASE ~PassedOver(batch, diff, told)
    <3>1. PICK op : op = OpOf(diff)  OBVIOUS
    <3>2. PICK ops : ops = Plain(batch)  OBVIOUS
    <3>3. ops \in Seq(BookOp) /\ op \in BookOp /\ Plain(batch2) = Append(ops, op)
      BY <1>11, <1>12, <2>3, <3>1, <3>2, PlainOnAppend
    <3>4. ConsumeAll(b, Append(ops, op)) = Consume(ConsumeAll(b, ops), op)
      BY <3>3, ConsumedOnAppend
    <3> QED
      BY <2>1, <2>3, <3>1, <3>2, <3>3, <3>4 DEF Passes
  <2> QED
    BY <2>2, <2>3
<1>14. /\ hidden2 = hidden \cup IdIf(Hides(diff, told), diff)
       /\ Invisible(longer) = Invisible(block) \cup IdIf(Slight(diff), diff)
       /\ Emptied(longer) = emptied \cup IdIf(Empties(diff), diff)
  <2>1. SignsOf(block, longer, diff, told)
    BY <1>1, <1>10, SignsOnAppend
  <2> QED
    BY <1>7, <1>8, <1>9, <2>1 DEF Hidden, SignsOf
<1>15. /\ Followed(v2, u2, batch2.removed, next, hidden2)
       /\ next.refused \subseteq after.refused \cup hidden2 \cup IdIf(Slight(diff), diff)
  <2>1. Goes(diff, v, v2, u, batch, told, after, hidden, next)
    BY <1>10, <1>12, <1>13 DEF Goes
  <2> QED
    BY <1>2, <1>11, <1>14, <2>1, OneFollowed
<1>16. next.refused \subseteq hidden2 \cup Invisible(longer)
  BY <1>10, <1>14, <1>15
<1>17. Marked(batch2, v2, u2, told, Emptied(longer))
  <2>1. VenueSound(v, u)
    BY <1>10 DEF Followed
  <2> QED
    BY <1>2, <1>10, <1>11, <1>14, <2>1, OneMarked
<1>18. longer \in Seq(Diff) /\ \A i \in DOMAIN longer : DiffId(longer[i]) \in u2
  <2>1. longer \in Seq(Diff)
    BY <1>1, <1>10
  <2>2. \A i \in DOMAIN longer : longer[i] = diff \/ \E j \in DOMAIN block : longer[i] = block[j]
    BY <1>1, <1>10
  <2> QED
    BY <1>2, <1>10, <2>1, <2>2
<1> QED
  BY <1>1, <1>2, <1>4, <1>6, <1>8, <1>15, <1>16, <1>17, <1>18 DEF BlockFollowed

\* A status for an id that the block does not have yet.
LEMMA OneMoreStatus ==
  ASSUME NEW v, NEW u, NEW block, NEW told, NEW b, NEW before,
         BlockFollowed(v, u, block, told, b, before), NEW id, id \notin u
  PROVE  BlockFollowed(v, u, block, told \cup {id}, b, before)
<1>1. PICK told2 : told2 = told \cup {id}  OBVIOUS
<1>2. block \in Seq(Diff) /\ \A i \in DOMAIN block : DiffId(block[i]) \in u
  BY DEF BlockFollowed
<1>3. \A i \in DOMAIN block : DiffId(block[i]) # id
  BY <1>2
<1>4. decode_updates_with_meta(block, told2) = decode_updates_with_meta(block, told)
  BY <1>1, <1>2, <1>3, OtherStatuses
<1>5. Unresolved(block, told2) = Unresolved(block, told)
  <2>1. \A diff \in Told(block) : diff.kind = "new" => diff.order.id # id
    BY <1>3 DEF Told, DiffId
  <2> QED
    BY <1>1, <2>1 DEF Unresolved
<1>6. /\ Applied(b, block, told2) = Applied(b, block, told)
      /\ Hidden(before, block, told2) = Hidden(before, block, told)
  BY <1>4, <1>5 DEF Applied, Hidden
<1>7. PICK batch : batch = decode_updates_with_meta(block, told)  OBVIOUS
<1>8. Marked(batch, v, u, told2, Emptied(block))
  <2>1. Marked(batch, v, u, told, Emptied(block))
    BY <1>7 DEF BlockFollowed
  <2>2. ASSUME NEW i \in DOMAIN batch.ops
        PROVE  WellTold(batch.ops[i], u, told2, batch.removed, Emptied(block))
    <3>1. WellTold(batch.ops[i], u, told, batch.removed, Emptied(block))
      BY <2>1 DEF Marked
    <3> QED
      BY <1>1, <3>1 DEF WellTold
  <2> QED
    BY <2>1, <2>2 DEF Marked
<1> QED
  BY <1>1, <1>2, <1>4, <1>6, <1>7, <1>8 DEF BlockFollowed

\* A block without diffs, when the book shows the venue.
LEMMA NoDiffs ==
  ASSUME NEW v, NEW u, NEW told, NEW b, NEW before, VenueSound(v, u), SoundBook(b),
         Mirrors(b, v, before), before \subseteq u
  PROVE  BlockFollowed(v, u, <<>>, told, b, before)
<1>1. PICK block : block = <<>>  OBVIOUS
<1>2. PICK batch : batch = decode_updates_with_meta(block, told)  OBVIOUS
<1>3. batch = EmptyBatch
  BY <1>1, <1>2, DecodedNothing
<1>4. Plain(batch) = <<>>
  BY <1>3 DEF Plain, strip_update_batch, EmptyBatch
<1>5. Applied(b, block, told) = Untouched(b)
  BY <1>2, <1>4, ConsumedNothing DEF Applied
<1>6. Hidden(before, block, told) = before /\ Invisible(block) = {} /\ Emptied(block) = {}
  BY <1>1, NothingTold DEF Hidden
<1>7. batch \in Batch /\ batch.removed = {} /\ batch.ops = <<>>
  BY <1>3, EmptySeq DEF EmptyBatch, Batch
<1>8. Marked(batch, v, u, told, {})
  <2>1. DOMAIN batch.ops = {}
    BY <1>7
  <2> QED
    BY <1>7, <2>1 DEF Marked
<1>9. Followed(v, u, batch.removed, Untouched(b), before)
  BY <1>7 DEF Followed, Untouched
<1>10. Untouched(b).refused = {}
  BY DEF Untouched
<1>11. block \in Seq(Diff) /\ DOMAIN block = {}
  BY <1>1
<1> QED
  BY <1>1, <1>2, <1>5, <1>6, <1>8, <1>9, <1>10, <1>11 DEF BlockFollowed

\* And the other way round.
LEMMA NoDiffsLeft ==
  ASSUME NEW v, NEW u, NEW told, NEW b, NEW before,
         BlockFollowed(v, u, <<>>, told, b, before)
  PROVE  VenueSound(v, u) /\ SoundBook(b) /\ Mirrors(b, v, before) /\ before \subseteq u
<1>1. PICK block : block = <<>>  OBVIOUS
<1>2. PICK batch : batch = decode_updates_with_meta(block, told)  OBVIOUS
<1>3. batch = EmptyBatch
  BY <1>1, <1>2, DecodedNothing
<1>4. Plain(batch) = <<>>
  BY <1>3 DEF Plain, strip_update_batch, EmptyBatch
<1>5. Applied(b, block, told) = Untouched(b)
  BY <1>2, <1>4, ConsumedNothing DEF Applied
<1>6. Hidden(before, block, told) = before
  BY <1>1, NothingTold DEF Hidden
<1>7. Followed(v, u, batch.removed, Untouched(b), before)
  BY <1>1, <1>2, <1>5, <1>6 DEF BlockFollowed
<1> QED
  BY <1>7 DEF Followed, Untouched

\* A message is applied: the book is where the venue is.
LEMMA BlockApplied ==
  ASSUME NEW v, NEW u, NEW block, NEW told, NEW b, NEW before,
         BlockFollowed(v, u, block, told, b, before)
  PROVE  BlockFollowed(v, u, <<>>, {}, Applied(b, block, told).book,
                       Hidden(before, block, told))
<1>1. /\ VenueSound(v, u) /\ Hidden(before, block, told) \subseteq u
      /\ SoundBook(Applied(b, block, told).book)
      /\ Mirrors(Applied(b, block, told).book, v, Hidden(before, block, told))
  BY DEF BlockFollowed, Followed
<1> QED
  BY <1>1, NoDiffs

-----------------------------------------------------------------------------
(* Snapshots *)

\* A list of orders that is added whole has none without a quantity.
LEMMA WholeListsHaveSizes ==
  ASSUME NEW orders \in Seq(Order), AddAll(EmptyBook, orders).result = "Ok"
  PROVE  \A i \in DOMAIN orders : orders[i].qty # 0
<1> DEFINE Sized(s) == \A i \in DOMAIN s : s[i].qty # 0
           T == {s \in Seq(Order) : AddAll(EmptyBook, s).result = "Ok" => Sized(s)}
<1>1. <<>> \in T
  BY EmptySeq
<1>2. ASSUME NEW s \in Seq(Order), NEW x \in Order, s \in T PROVE Append(s, x) \in T
  <2>1. PICK longer : longer = Append(s, x)  OBVIOUS
  <2>2. /\ longer \in Seq(Order) /\ Len(s) \in Nat /\ DOMAIN s = 1 .. Len(s)
        /\ DOMAIN longer = 1 .. (Len(s) + 1) /\ longer[Len(s) + 1] = x
        /\ \A i \in DOMAIN s : longer[i] = s[i]
    BY <2>1
  <2>3. PICK done : done = AddAll(EmptyBook, s)  OBVIOUS
  <2>4. AddAll(EmptyBook, longer) = AddNext(done, x)
    BY <2>1, <2>3, AddedOnAppend
  <2>5. ASSUME AddNext(done, x).result = "Ok" PROVE done.result = "Ok" /\ x.qty # 0
    BY <2>5 DEF AddNext, add, Fail, Done
  <2>6. ASSUME AddAll(EmptyBook, longer).result = "Ok" PROVE Sized(longer)
    <3>1. Sized(s) /\ x.qty # 0
      BY <1>2, <2>3, <2>4, <2>5, <2>6
    <3> SUFFICES ASSUME NEW i \in DOMAIN longer PROVE longer[i].qty # 0
      OBVIOUS
    <3>2. i \in DOMAIN s \/ i = Len(s) + 1
      BY <2>2
    <3> QED
      BY <2>2, <3>1, <3>2
  <2> QED
    BY <2>1, <2>2, <2>6
<1>3. Seq(Order) \subseteq T
  <2> HIDE DEF T
  <2> QED
    BY <1>1, <1>2, ListsByInduction
<1> QED
  BY <1>3

\* A snapshot that is accepted makes the book what the venue's is
\* (dwellir.rs:143-164, book.rs:493-512).
LEMMA SnapshotShowsAll ==
  ASSUME NEW v, NEW u, VenueSound(v, u), NEW b,
         NEW step, step = apply_snapshot(b, decode_snapshot(book_order(v))), step.result = "Ok"
  PROVE  SoundBook(step.book) /\ Mirrors(step.book, v, {})
<1>1. SoundBook(v) /\ IsFiniteSet(RestingIds(v)) /\ \A id \in RestingIds(v) : get(v, id) \in WireOrder
  BY DEF VenueSound
<1>2. PICK list : list = book_order(v)  OBVIOUS
<1>3. PICK cut : cut = decode_snapshot(list)  OBVIOUS
<1>4. Listing(list, v, Queue)
  BY <1>1, <1>2, BookIsListed
<1>5. /\ list \in Seq(Order) /\ DOMAIN list = 1 .. Len(list) /\ Len(list) \in Nat
      /\ \A n \in DOMAIN list : list[n].id \in RestingIds(v) /\ list[n] = get(v, list[n].id)
      /\ \A m, n \in DOMAIN list : m < n => list[m].id # list[n].id
  BY <1>4 DEF Listing
<1>6. \A n \in DOMAIN list : list[n] \in WireOrder
  BY <1>1, <1>5
<1>7. cut = [n \in 1 .. Len(list) |-> parse_order(list[n])]
  BY <1>3, <1>5 DEF decode_snapshot
<1>8. \A n \in DOMAIN list :
        /\ parse_order(list[n]) \in Order /\ parse_order(list[n]).id = list[n].id
        /\ QueueOf(parse_order(list[n])) = QueueOf(list[n])
  BY <1>6, WireOrders
<1>9. /\ cut \in Seq(Order) /\ Len(cut) = Len(list) /\ DOMAIN cut = DOMAIN list
      /\ \A n \in DOMAIN list :
           cut[n] = parse_order(list[n]) /\ cut[n].id = list[n].id /\ QueueOf(cut[n]) = QueueOf(list[n])
  BY <1>5, <1>7, <1>8
<1>10. step = AddAll(EmptyBook, cut)
  <2>1. cut \o <<>> = cut
    BY <1>9
  <2> QED
    BY <1>2, <1>3, <2>1 DEF apply_snapshot, apply_snapshot_with_policy, Replaced
<1>11. \A n \in DOMAIN cut : cut[n].qty > 0
  <2>1. \A n \in DOMAIN cut : cut[n].qty # 0 /\ cut[n] \in Order
    BY <1>9, <1>10, WholeListsHaveSizes
  <2>2. \A o \in Order : o.qty # 0 => o.qty > 0
    BY QtyLimitAssumption DEF Order, Qty
  <2> QED
    BY <2>1, <2>2
<1>12. NewOrders(EmptyBook, cut)
  BY <1>5, <1>9, <1>11, EmptySound DEF NewOrders
<1>13. AddedSoFar(EmptyBook, cut, Len(cut), step)
  BY <1>10, <1>12, AllAdded, EmptySound
<1>14. /\ SoundBook(step.book)
       /\ RestingIds(step.book) = {cut[m].id : m \in 1 .. Len(cut)}
       /\ \A m \in 1 .. Len(cut) :
            /\ get(step.book, cut[m].id) = cut[m]
            /\ Ahead(step.book, cut[m].id)
                 = Ids(EmptyBook[QueueOf(cut[m])]) \cup ListedAt(cut, m - 1, QueueOf(cut[m]))
  BY <1>13, EmptySound DEF AddedSoFar
<1>15. RestingIds(step.book) = RestingIds(v)
  <2>1. \A id \in RestingIds(v) : \E n \in DOMAIN list : list[n].id = id
    <3>1. \A id \in RestingIds(v) : QueueOf(get(v, id)) \in Queue
      BY <1>1, RestsSomewhere
    <3> QED
      BY <1>4, <3>1 DEF Listing
  <2> QED
    BY <1>5, <1>9, <1>14, <2>1
<1>16. ASSUME NEW id \in RestingIds(step.book)
       PROVE  /\ get(step.book, id) = parse_order(get(v, id))
              /\ Ahead(step.book, id) = Ahead(v, id) \ {}
  <2>1. PICK m \in 1 .. Len(cut) : cut[m].id = id
    BY <1>14
  <2>2. m \in DOMAIN list /\ list[m].id = id /\ cut[m] = parse_order(list[m])
    BY <1>5, <1>9, <2>1
  <2>3. get(step.book, id) = parse_order(get(v, id))
    BY <1>5, <1>14, <2>1, <2>2
  <2>4. PICK q : q = QueueOf(list[m])  OBVIOUS
  <2>5. q \in Queue /\ QueueOf(cut[m]) = q
    <3>1. QueueOf(list[m]) \in Queue
      BY <1>4, <2>2 DEF Listing
    <3> QED
      BY <1>9, <2>2, <2>4, <3>1
  <2>6. Ids(EmptyBook[q]) = {}
    BY <2>5 DEF EmptyBook, Ids
  <2>7. ListedAt(cut, m - 1, q) = ListedAt(list, m - 1, q)
    <3>1. \A j \in 1 .. (m - 1) : j \in DOMAIN list
      BY <1>5, <2>2
    <3>2. \A j \in 1 .. (m - 1) : cut[j].id = list[j].id /\ QueueOf(cut[j]) = QueueOf(list[j])
      BY <1>9, <3>1
    <3> QED
      BY <3>2 DEF ListedAt
  <2>8. Ahead(v, id) = ListedAt(list, m - 1, q)
    BY <1>1, <1>4, <2>2, <2>4, AheadInList
  <2>9. Ahead(step.book, id) = ListedAt(cut, m - 1, q)
    BY <1>14, <2>1, <2>5, <2>6
  <2> QED
    BY <2>3, <2>7, <2>8, <2>9
<1> QED
  BY <1>14, <1>15, <1>16 DEF Mirrors

-----------------------------------------------------------------------------
(* Queue by queue *)

\* The orders of a list that are of a kind are all kept, in their places.
KeptInPlace(kept, orders, kind) ==
    /\ \A n \in DOMAIN orders : orders[n] \in kind => \E i \in DOMAIN kept : kept[i] = orders[n]
    /\ \A i, j \in DOMAIN kept : i < j =>
         \E m, n \in DOMAIN orders : m < n /\ orders[m] = kept[i] /\ orders[n] = kept[j]

\* One more order, kept or not.
LEMMA OneMoreInPlace ==
  ASSUME NEW orders \in Seq(Order), NEW kind, NEW kept, Kept(kept, orders, kind),
         KeptInPlace(kept, orders, kind), NEW x \in Order
  PROVE  KeptInPlace(KeepNext(kept, x, kind), Append(orders, x), kind)
<1>1. PICK longer : longer = Append(orders, x)  OBVIOUS
<1>2. PICK more : more = KeepNext(kept, x, kind)  OBVIOUS
<1>3. /\ Len(orders) \in Nat /\ DOMAIN orders = 1 .. Len(orders)
      /\ DOMAIN longer = 1 .. (Len(orders) + 1) /\ longer[Len(orders) + 1] = x
      /\ \A n \in DOMAIN orders : longer[n] = orders[n]
  BY <1>1
<1>4. kept \in Seq(Order) /\ Len(kept) \in Nat /\ DOMAIN kept = 1 .. Len(kept)
  BY DEF Kept
<1>5. \A n \in DOMAIN orders : n \in DOMAIN longer /\ n < Len(orders) + 1
  BY <1>3
<1>6. Len(orders) + 1 \in DOMAIN longer
  BY <1>3
<1>7. CASE x \notin kind
  <2>1. more = kept
    BY <1>2, <1>7 DEF KeepNext
  <2>2. ASSUME NEW n \in DOMAIN longer, longer[n] \in kind
        PROVE  \E i \in DOMAIN more : more[i] = longer[n]
    <3>1. n \in DOMAIN orders
      BY <1>3, <1>7, <2>2
    <3> QED
      BY <1>3, <2>1, <2>2, <3>1 DEF KeptInPlace
  <2>3. ASSUME NEW i \in DOMAIN more, NEW j \in DOMAIN more, i < j
        PROVE  \E m, n \in DOMAIN longer : m < n /\ longer[m] = more[i] /\ longer[n] = more[j]
    <3>1. \E m, n \in DOMAIN orders : m < n /\ orders[m] = kept[i] /\ orders[n] = kept[j]
      BY <2>1, <2>3 DEF KeptInPlace
    <3> QED
      BY <1>3, <1>5, <2>1, <3>1
  <2> QED
    BY <1>1, <1>2, <2>2, <2>3 DEF KeptInPlace
<1>8. CASE x \in kind
  <2>1. more = Append(kept, x)
    BY <1>2, <1>8 DEF KeepNext
  <2>2. /\ DOMAIN more = 1 .. (Len(kept) + 1) /\ more[Len(kept) + 1] = x
        /\ \A i \in DOMAIN kept : more[i] = kept[i] /\ i \in DOMAIN more
        /\ Len(kept) + 1 \in DOMAIN more
    BY <1>4, <2>1
  <2>3. ASSUME NEW n \in DOMAIN longer, longer[n] \in kind
        PROVE  \E i \in DOMAIN more : more[i] = longer[n]
    <3>1. CASE n \in DOMAIN orders
      <4>1. PICK i \in DOMAIN kept : kept[i] = orders[n]
        BY <1>3, <2>3, <3>1 DEF KeptInPlace
      <4> QED
        BY <1>3, <2>2, <3>1, <4>1
    <3>2. CASE n \notin DOMAIN orders
      <4>1. n = Len(orders) + 1
        BY <1>3, <3>2
      <4> QED
        BY <1>3, <2>2, <4>1
    <3> QED
      BY <3>1, <3>2
  <2>4. ASSUME NEW i \in DOMAIN more, NEW j \in DOMAIN more, i < j
        PROVE  \E m, n \in DOMAIN longer : m < n /\ longer[m] = more[i] /\ longer[n] = more[j]
    <3>1. i \in DOMAIN kept
      BY <1>4, <2>2, <2>4
    <3>2. CASE j \in DOMAIN kept
      <4>1. \E m, n \in DOMAIN orders : m < n /\ orders[m] = kept[i] /\ orders[n] = kept[j]
        BY <2>4, <3>1, <3>2 DEF KeptInPlace
      <4>2. more[i] = kept[i] /\ more[j] = kept[j]
        BY <2>2, <3>1, <3>2
      <4> QED
        BY <1>3, <1>5, <4>1, <4>2
    <3>3. CASE j \notin DOMAIN kept
      <4>1. j = Len(kept) + 1
        BY <1>4, <2>2, <3>3
      <4>2. PICK m \in DOMAIN orders : orders[m] = kept[i]
        BY <3>1 DEF Kept
      <4>3. more[i] = kept[i] /\ more[j] = x
        BY <2>2, <3>1, <4>1
      <4> QED
        BY <1>3, <1>5, <1>6, <4>2, <4>3
    <3> QED
      BY <3>2, <3>3
  <2> QED
    BY <1>1, <1>2, <2>3, <2>4 DEF KeptInPlace
<1> QED
  BY <1>7, <1>8

\* Those keeps all that it should, in their places.
LEMMA ThoseInPlace ==
  ASSUME NEW orders \in Seq(Order), NEW kind
  PROVE  KeptInPlace(Those(orders, kind), orders, kind)
<1> DEFINE T == {s \in Seq(Order) : KeptInPlace(Those(s, kind), s, kind)}
<1>1. <<>> \in T
  <2>1. PICK none : none = <<>>  OBVIOUS
  <2>2. none \in Seq(Order) /\ DOMAIN none = {} /\ Those(none, kind) = none
    BY <2>1, KeptNothing
  <2>3. KeptInPlace(none, none, kind)
    BY <2>2 DEF KeptInPlace
  <2> QED
    BY <2>1, <2>2, <2>3
<1>2. ASSUME NEW s \in Seq(Order), NEW x \in Order, s \in T PROVE Append(s, x) \in T
  <2>1. Those(Append(s, x), kind) = KeepNext(Those(s, kind), x, kind)
    BY KeptOnAppend
  <2>2. PICK kept : kept = Those(s, kind)  OBVIOUS
  <2>3. Kept(kept, s, kind) /\ KeptInPlace(kept, s, kind)
    BY <1>2, <2>2, ThoseAreKept
  <2>4. KeptInPlace(KeepNext(kept, x, kind), Append(s, x), kind)
    BY <2>3, OneMoreInPlace
  <2>5. Append(s, x) \in Seq(Order)
    OBVIOUS
  <2> QED
    BY <2>1, <2>2, <2>4, <2>5
<1>3. Seq(Order) \subseteq T
  <2> HIDE DEF T
  <2> QED
    BY <1>1, <1>2, ListsByInduction
<1> QED
  BY <1>3

\* A book that mirrors the venue has in each queue what the venue has there and
\* does not hide, cut to the unit.
QueueMirrored(b, v, T, k) == b[k] = InUnits(Those(v[k], {o \in WireOrder : o.id \notin T}))
LEMMA QueueMirrors ==
  ASSUME NEW v, NEW u, VenueSound(v, u), NEW r, SoundBook(r), NEW T, Mirrors(r, v, T),
         NEW k \in Queue
  PROVE  QueueMirrored(r, v, T, k)
<1>1. SoundBook(v) /\ v \in Book /\ \A id \in RestingIds(v) : get(v, id) \in WireOrder
  BY DEF VenueSound, SoundBook
<1>2. PICK kind : kind = {o \in WireOrder : o.id \notin T}  OBVIOUS
<1>3. PICK list : list = v[k]  OBVIOUS
<1>4. PICK x : x = r[k]  OBVIOUS
<1>5. /\ list \in Seq(Order) /\ DOMAIN list = 1 .. Len(list) /\ Len(list) \in Nat
      /\ x \in Seq(Order) /\ DOMAIN x = 1 .. Len(x) /\ Len(x) \in Nat
  BY <1>1, <1>3, <1>4, QueuesAreSequences DEF SoundBook
<1>6. \A i \in DOMAIN list :
        /\ list[i].id \in RestingIds(v) /\ get(v, list[i].id) = list[i]
        /\ Ahead(v, list[i].id) = Before(list, i) /\ list[i] \in WireOrder
  BY <1>1, <1>3, RestsAt
<1>7. \A m \in DOMAIN x :
        /\ x[m].id \in RestingIds(r) /\ get(r, x[m].id) = x[m]
        /\ QueueOf(x[m]) = k /\ Ahead(r, x[m].id) = Before(x, m)
  BY <1>4, RestsAt
<1>8. OnceEach(list) /\ OnceEach(x)
  <2>1. ASSUME NEW b, SoundBook(b), NEW i \in DOMAIN b[k], NEW j \in DOMAIN b[k], i < j
        PROVE  b[k][i].id # b[k][j].id
    <3>1. b \in Book /\ OneOrderPerId(b)
      BY <2>1 DEF SoundBook
    <3>2. i # j
      <4>1. DOMAIN b[k] = 1 .. Len(b[k]) /\ Len(b[k]) \in Nat
        BY <3>1, QueuesAreSequences
      <4> QED
        BY <2>1, <4>1
    <3> QED
      BY <3>1, <3>2 DEF OneOrderPerId
  <2> QED
    BY <1>1, <1>3, <1>4, <2>1 DEF OnceEach
<1>9. PICK kept : kept = Those(list, kind)  OBVIOUS
<1>10. /\ kept \in Seq(Order) /\ OnceEach(kept)
       /\ \A i \in DOMAIN kept : kept[i] \in kind /\ \E n \in DOMAIN list : list[n] = kept[i]
  BY <1>5, <1>8, <1>9, ThoseAreKept DEF Kept
<1>11. KeptInPlace(kept, list, kind)
  BY <1>5, <1>9, ThoseInPlace
<1>12. PICK y : y = InUnits(kept)  OBVIOUS
<1>13. \A i \in DOMAIN kept : kept[i] \in WireOrder /\ kept[i].id \notin T
  BY <1>2, <1>10
<1>14. y = [i \in DOMAIN kept |-> parse_order(kept[i])]
  BY <1>12 DEF InUnits, parse_order, parse_fixed
<1>15. /\ y \in Seq(Order) /\ DOMAIN y = DOMAIN kept
       /\ \A i \in DOMAIN y : y[i] = parse_order(kept[i]) /\ y[i].id = kept[i].id
  <2>1. \A i \in DOMAIN kept : parse_order(kept[i]) \in Order /\ parse_order(kept[i]).id = kept[i].id
    BY <1>13, WireOrders
  <2>2. DOMAIN kept = 1 .. Len(kept) /\ Len(kept) \in Nat
    BY <1>10
  <2> QED
    BY <1>14, <2>1, <2>2
<1>16. OnceEach(y)
  BY <1>10, <1>15 DEF OnceEach
<1>17. ASSUME NEW m \in DOMAIN x PROVE \E n \in DOMAIN y : y[n] = x[m]
  <2>1. PICK id : id = x[m].id  OBVIOUS
  <2>2. id \in RestingIds(r) /\ get(r, id) = x[m] /\ QueueOf(get(r, id)) = k
    BY <1>7, <2>1
  <2>3. id \in RestingIds(v) /\ id \notin T /\ get(r, id) = parse_order(get(v, id))
    BY <2>2 DEF Mirrors
  <2>4. QueueOf(get(v, id)) = k
    BY <1>1, <2>2, <2>3, WireOrders
  <2>5. id \in Ids(v[k])
    BY <1>1, <2>3, <2>4, QueueHolds
  <2>6. PICK i \in DOMAIN list : list[i].id = id
    BY <1>3, <2>5 DEF Ids
  <2>7. list[i] = get(v, id) /\ list[i] \in kind
    BY <1>2, <1>6, <2>3, <2>6
  <2>8. PICK n \in DOMAIN kept : kept[n] = list[i]
    BY <1>11, <2>6, <2>7 DEF KeptInPlace
  <2> QED
    BY <1>15, <2>2, <2>3, <2>7, <2>8
<1>18. ASSUME NEW n \in DOMAIN y PROVE \E m \in DOMAIN x : x[m] = y[n]
  <2>1. PICK i \in DOMAIN list : list[i] = kept[n]
    BY <1>10, <1>15
  <2>2. PICK id : id = list[i].id  OBVIOUS
  <2>3. /\ id \in RestingIds(v) /\ get(v, id) = list[i] /\ list[i] \in WireOrder /\ id \notin T
        /\ QueueOf(list[i]) = k
    BY <1>1, <1>3, <1>6, <1>13, <1>15, <2>1, <2>2, RestsAt
  <2>4. id \in RestingIds(r) /\ get(r, id) = parse_order(list[i])
    BY <2>3 DEF Mirrors
  <2>5. QueueOf(get(r, id)) = k
    BY <2>3, <2>4, WireOrders
  <2>6. id \in Ids(r[k])
    BY <2>4, <2>5, QueueHolds
  <2>7. PICK m \in DOMAIN x : x[m].id = id
    BY <1>4, <2>6 DEF Ids
  <2>8. x[m] = parse_order(list[i])
    BY <1>7, <2>4, <2>7
  <2> QED
    BY <1>15, <2>1, <2>7, <2>8
<1>19. ASSUME NEW m \in DOMAIN x, NEW n \in DOMAIN x, NEW i \in DOMAIN y, NEW j \in DOMAIN y,
              m < n, i < j, x[m] = y[j], x[n] = y[i]
       PROVE  FALSE
  <2>1. PICK a : a = x[m].id  OBVIOUS
  <2>2. PICK c : c = x[n].id  OBVIOUS
  <2>3. kept[j].id = a /\ kept[i].id = c
    BY <1>15, <1>19, <2>1, <2>2
  <2>4. a \in Ahead(r, c) /\ c \in RestingIds(r) /\ a \in RestingIds(r)
    <3>1. m \in 1 .. (n - 1)
      BY <1>5, <1>19
    <3> QED
      BY <1>7, <2>1, <2>2, <3>1 DEF Before
  <2>5. a \in Ahead(v, c) /\ a \in RestingIds(v) /\ c \in RestingIds(v)
    BY <2>4 DEF Mirrors
  <2>6. \E p, q \in DOMAIN list : p < q /\ list[p] = kept[i] /\ list[q] = kept[j]
    BY <1>11, <1>15, <1>19 DEF KeptInPlace
  <2>7. PICK p \in DOMAIN list : \E q \in DOMAIN list : p < q /\ list[p] = kept[i] /\ list[q] = kept[j]
    BY <2>6
  <2>8. PICK q \in DOMAIN list : p < q /\ list[p] = kept[i] /\ list[q] = kept[j]
    BY <2>7
  <2>9. c \in Ahead(v, a)
    <3>1. p \in 1 .. (q - 1)
      BY <1>5, <2>8
    <3>2. list[p].id = c /\ list[q].id = a
      BY <2>3, <2>8
    <3> QED
      BY <1>6, <3>1, <3>2 DEF Before
  <2> QED
    BY <1>1, <2>5, <2>9, AheadOneWay
<1>20. x = y
  BY <1>5, <1>8, <1>15, <1>16, <1>17, <1>18, <1>19, OneOrderOnly
<1>21. x = InUnits(Those(list, kind))
  BY <1>9, <1>12, <1>20
<1> QED
  BY <1>2, <1>3, <1>4, <1>21, Zenon DEF QueueMirrored

-----------------------------------------------------------------------------
(* The loop *)

\* As long as it runs, the block that the venue is building would bring the
\* book, decoded and applied, where the venue is.
FeedInv ==
    /\ refused \subseteq unseen
    /\ running => BlockFollowed(venue, used, diffs, statuses, replica, unseen)
    /\ ~running => diffs = <<>>

\* An empty book behind an empty venue.
LEMMA FeedInvInit == Init => FeedInv
<1> SUFFICES ASSUME Init PROVE FeedInv
  OBVIOUS
<1>1. /\ venue = EmptyBook /\ used = {} /\ diffs = <<>> /\ statuses = {}
      /\ replica = EmptyBook /\ unseen = {} /\ refused = {} /\ running
  BY DEF Init, VenueInit
<1>2. VenueSound(EmptyBook, {})
  BY EmptySound, FS_EmptySet DEF VenueSound
<1>3. BlockFollowed(EmptyBook, {}, <<>>, {}, EmptyBook, {})
  BY <1>2, EmptySound, MirrorEmpty, NoDiffs
<1> QED
  BY <1>1, <1>3 DEF FeedInv

\* The diffs behind the block.
LEMMA AppendBehind ==
  ASSUME NEW S, NEW block \in Seq(S), NEW x \in S, NEW y \in S
  PROVE  /\ block \o <<x>> = Append(block, x)
         /\ block \o <<x, y>> = Append(Append(block, x), y)
  OBVIOUS

\* A diff of an order that rests.
LEMMA OldOrderTold ==
  ASSUME NEW v, NEW u, NEW block, NEW told, NEW b, NEW before,
         BlockFollowed(v, u, block, told, b, before),
         NEW diff \in Diff, DiffId(diff) \in RestingIds(v), NEW v2,
         TellsEnd(diff, v, v2) \/ TellsSize(diff, v, v2) \/ TellsNothing(diff, v, v2)
  PROVE  BlockFollowed(v2, u, block \o <<diff>>, told, b, before)
<1>1. block \in Seq(Diff) /\ RestingIds(v) \subseteq u
  BY DEF BlockFollowed, Followed, VenueSound
<1>2. u \cup {DiffId(diff)} = u
  BY <1>1
<1>3. Tells(diff, v, v2, u, decode_updates_with_meta(block, told).removed)
  BY DEF Tells
<1>4. BlockFollowed(v2, u \cup {DiffId(diff)}, Append(block, diff), told, b, before)
  BY <1>3, OneMoreDiff
<1> QED
  BY <1>1, <1>2, <1>4, AppendBehind

\* A complete fill: an update to zero, and a removal that the decoder drops
\* (dwellir.rs:643-648).
LEMMA WholeFillTold ==
  ASSUME NEW v, NEW u, NEW block, NEW told, NEW b, NEW before,
         BlockFollowed(v, u, block, told, b, before), NEW id \in RestingIds(v), id \in OrderId,
         NEW old \in Qty
  PROVE  BlockFollowed(DropOrder(v, id), u,
           block \o <<[kind |-> "update", oid |-> id, origSz |-> old, sz |-> 0],
                      [kind |-> "remove", oid |-> id]>>, told, b, before)
<1>1. PICK v2 : v2 = DropOrder(v, id)  OBVIOUS
<1>2. PICK fill : fill = [kind |-> "update", oid |-> id, origSz |-> old, sz |-> 0]  OBVIOUS
<1>3. PICK gone : gone = [kind |-> "remove", oid |-> id]  OBVIOUS
<1>4. fill \in Diff /\ gone \in Diff /\ DiffId(fill) = id /\ DiffId(gone) = id
  <2>1. 0 \in Qty
    BY QtyLimitAssumption DEF Qty
  <2>2. fill \in Diff /\ DiffId(fill) = id
    BY <1>2, <2>1 DEF Diff, DiffId
  <2>3. gone \in Diff /\ DiffId(gone) = id
    BY <1>3 DEF Diff, DiffId
  <2> QED
    BY <2>2, <2>3
<1>5. /\ block \in Seq(Diff) /\ SoundBook(v) /\ RestingIds(v) \subseteq u
  BY DEF BlockFollowed, Followed, VenueSound
<1>6. TellsEnd(fill, v, v2)
  BY <1>1, <1>2 DEF TellsEnd
<1>7. PICK longer : longer = block \o <<fill>>  OBVIOUS
<1>8. BlockFollowed(v2, u, longer, told, b, before)
  BY <1>4, <1>6, <1>7, OldOrderTold
<1>9. longer = Append(block, fill) /\ longer \in Seq(Diff)
  BY <1>4, <1>5, <1>7, AppendBehind
<1>10. id \in decode_updates_with_meta(longer, told).removed
  <2>1. SignsOf(block, longer, fill, told)
    BY <1>4, <1>5, <1>9, SignsOnAppend
  <2>2. Empties(fill)
    BY <1>2, GrainAssumption DEF Empties
  <2>3. id \in Emptied(longer)
    BY <1>4, <2>1, <2>2 DEF SignsOf, IdIf
  <2>4. Emptied(longer) \subseteq decode_updates_with_meta(longer, told).removed
    BY <1>8 DEF BlockFollowed, Marked
  <2> QED
    BY <2>3, <2>4
<1>11. TellsEndAgain(gone, v2, v2, decode_updates_with_meta(longer, told).removed)
  <2>1. id \notin RestingIds(v2)
    BY <1>1, <1>5, DropSound
  <2> QED
    BY <1>3, <1>10, <2>1 DEF TellsEndAgain
<1>12. Tells(gone, v2, v2, u, decode_updates_with_meta(longer, told).removed)
  BY <1>11 DEF Tells
<1>13. BlockFollowed(v2, u \cup {id}, Append(longer, gone), told, b, before)
  BY <1>4, <1>8, <1>12, OneMoreDiff
<1>14. u \cup {id} = u
  BY <1>5
<1>15. Append(longer, gone) = block \o <<fill, gone>>
  BY <1>4, <1>5, <1>9, AppendBehind
<1> QED
  BY <1>1, <1>2, <1>3, <1>13, <1>14, <1>15

\* A new order of the venue, with a status or without.
LEMMA NewOrderTold ==
  ASSUME NEW v, NEW u, NEW block, NEW told, NEW b, NEW before,
         BlockFollowed(v, u, block, told, b, before), NEW order \in WireOrder, order.id \notin u,
         NEW told2, told2 \in {told, told \cup {order.id}}
  PROVE  BlockFollowed(AppendOrder(v, order), u \cup {order.id},
           block \o <<[kind |-> "new", order |-> order]>>, told2, b, before)
<1>1. PICK diff : diff = [kind |-> "new", order |-> order]  OBVIOUS
<1>2. diff \in Diff /\ DiffId(diff) = order.id
  BY <1>1 DEF Diff, DiffId
<1>3. BlockFollowed(v, u, block, told2, b, before)
  BY OneMoreStatus
<1>4. PICK v2 : v2 = AppendOrder(v, order)  OBVIOUS
<1>5. Tells(diff, v, v2, u, decode_updates_with_meta(block, told2).removed)
  BY <1>1, <1>4 DEF Tells, TellsNew
<1>6. BlockFollowed(v2, u \cup {DiffId(diff)}, Append(block, diff), told2, b, before)
  BY <1>2, <1>3, <1>5, OneMoreDiff
<1>7. block \in Seq(Diff)
  BY DEF BlockFollowed
<1> QED
  BY <1>1, <1>2, <1>4, <1>6, <1>7, AppendBehind

\* The venue's steps grow the block as it tells.
LEMMA VenueTellsOn ==
  ASSUME NEW b, NEW before, BlockFollowed(venue, used, diffs, statuses, b, before), VenueNext
  PROVE  BlockFollowed(venue', used', diffs', statuses', b, before)
<1>1. BlockFollowed(venue, used, diffs, statuses, b, before)
  OBVIOUS
<1>4. VenueSound(venue, used) /\ diffs \in Seq(Diff)
  BY <1>1 DEF BlockFollowed, Followed
<1>5. \A id \in RestingIds(venue) : get(venue, id).qty \in Qty /\ id \in used
  BY <1>4, WireOrders DEF VenueSound
<1>6. ASSUME NEW order \in WireOrder, Opens(order)
      PROVE  BlockFollowed(venue', used', diffs', statuses', b, before)
  BY <1>1, <1>6, NewOrderTold DEF Opens, Reports
<1>7. ASSUME NEW id \in OrderId, Cancels(id)
      PROVE  BlockFollowed(venue', used', diffs', statuses', b, before)
  <2>1. PICK diff : diff = [kind |-> "remove", oid |-> id]  OBVIOUS
  <2>2. /\ id \in RestingIds(venue) /\ venue' = DropOrder(venue, id)
        /\ diffs' = diffs \o <<diff>> /\ used' = used /\ statuses' = statuses
    BY <1>7, <2>1 DEF Cancels, Reports
  <2>3. diff \in Diff /\ DiffId(diff) = id
    BY <2>1 DEF Diff, DiffId
  <2>4. TellsEnd(diff, venue, venue')
    BY <2>1, <2>2 DEF TellsEnd
  <2> QED
    BY <1>1, <2>2, <2>3, <2>4, OldOrderTold
<1>8. ASSUME NEW id \in OrderId, NEW sz \in WireSize, FillsPartly(id, sz)
      PROVE  BlockFollowed(venue', used', diffs', statuses', b, before)
  <2>1. PICK diff : diff = Update(id, sz)  OBVIOUS
  <2>2. /\ id \in RestingIds(venue) /\ sz < get(venue, id).qty
        /\ venue' = Resize(venue, id, sz)
        /\ diffs' = diffs \o <<diff>> /\ used' = used /\ statuses' = statuses
    BY <1>8, <2>1 DEF FillsPartly, Reports
  <2>3. diff = [kind |-> "update", oid |-> id, origSz |-> get(venue, id).qty, sz |-> sz]
    BY <2>1 DEF Update
  <2>4. diff \in Diff /\ DiffId(diff) = id
    BY <1>5, <2>2, <2>3, WireSizes DEF Diff, DiffId
  <2>5. TellsSize(diff, venue, venue')
    BY <2>2, <2>3 DEF TellsSize
  <2> QED
    BY <1>1, <2>2, <2>4, <2>5, OldOrderTold
<1>9. ASSUME NEW id \in OrderId, FillsWhole(id)
      PROVE  BlockFollowed(venue', used', diffs', statuses', b, before)
  <2>1. PICK old : old = get(venue, id).qty  OBVIOUS
  <2>2. /\ id \in RestingIds(venue) /\ venue' = DropOrder(venue, id)
        /\ used' = used /\ statuses' = statuses
        /\ diffs' = diffs \o <<[kind |-> "update", oid |-> id, origSz |-> old, sz |-> 0],
                               [kind |-> "remove", oid |-> id]>>
    BY <1>9, <2>1 DEF FillsWhole, Reports, Update
  <2>3. old \in Qty
    BY <1>5, <2>1, <2>2
  <2> QED
    BY <1>1, <2>2, <2>3, WholeFillTold
<1>10. ASSUME NEW id \in OrderId, NEW sz \in WireSize, Modifies(id, sz)
       PROVE  BlockFollowed(venue', used', diffs', statuses', b, before)
  <2>1. PICK diff : diff = [kind |-> "modified", oid |-> id, sz |-> sz]  OBVIOUS
  <2>2. /\ id \in RestingIds(venue) /\ venue' = Resize(venue, id, sz)
        /\ diffs' = diffs \o <<diff>> /\ used' = used /\ statuses' = statuses
    BY <1>10, <2>1 DEF Modifies, Reports
  <2>3. diff \in Diff /\ DiffId(diff) = id
    BY <2>1, WireSizes DEF Diff, DiffId
  <2>4. TellsSize(diff, venue, venue')
    BY <2>1, <2>2 DEF TellsSize
  <2> QED
    BY <1>1, <2>2, <2>3, <2>4, OldOrderTold
<1>11. ASSUME NEW id \in OrderId, SendsUnknown(id)
       PROVE  BlockFollowed(venue', used', diffs', statuses', b, before)
  <2>1. PICK diff : diff = [kind |-> "unknown", oid |-> id]  OBVIOUS
  <2>2. /\ id \in RestingIds(venue) /\ venue' = venue
        /\ diffs' = diffs \o <<diff>> /\ used' = used /\ statuses' = statuses
    BY <1>11, <2>1 DEF SendsUnknown, Reports
  <2>3. diff \in Diff /\ DiffId(diff) = id
    BY <2>1 DEF Diff, DiffId
  <2>4. TellsNothing(diff, venue, venue')
    BY <2>1, <2>2 DEF TellsNothing
  <2> QED
    BY <1>1, <2>2, <2>3, <2>4, OldOrderTold
<1> QED
  BY <1>6, <1>7, <1>8, <1>9, <1>10, <1>11 DEF VenueNext

\* What the book does not show stays hidden.
LEMMA VenueKeepsInv ==
  ASSUME FeedInv, running, VenueNext, UNCHANGED consumerVars
  PROVE  FeedInv'
<1>1. /\ BlockFollowed(venue, used, diffs, statuses, replica, unseen)
      /\ refused \subseteq unseen
  BY DEF FeedInv
<1>2. replica' = replica /\ unseen' = unseen /\ refused' = refused /\ (running' <=> running)
  BY DEF consumerVars
<1>3. BlockFollowed(venue', used', diffs', statuses', replica, unseen)
  BY <1>1, VenueTellsOn
<1> QED
  BY <1>1, <1>2, <1>3 DEF FeedInv

\* A message is applied whole: nothing of the block is left.
LEMMA UpdatesKeepInv ==
  ASSUME FeedInv, Updates
  PROVE  FeedInv'
<1>1. running /\ (running' <=> running) /\ venue' = venue /\ used' = used
  BY DEF Updates
<1>2. BlockFollowed(venue, used, diffs, statuses, replica, unseen)
  BY <1>1 DEF FeedInv
<1>3. PICK after : after = Applied(replica, diffs, statuses)  OBVIOUS
<1>4. /\ replica' = after.book /\ refused' = after.refused \ Invisible(diffs)
      /\ unseen' = Hidden(unseen, diffs, statuses)
      /\ diffs' = <<>> /\ statuses' = {}
  BY <1>3 DEF Updates, Applied, Hidden, Plain
<1>5. BlockFollowed(venue, used, <<>>, {}, after.book, Hidden(unseen, diffs, statuses))
  BY <1>2, <1>3, BlockApplied
<1>6. after.refused \subseteq Hidden(unseen, diffs, statuses) \cup Invisible(diffs)
  BY <1>2, <1>3 DEF BlockFollowed
<1> QED
  BY <1>1, <1>4, <1>5, <1>6 DEF FeedInv

\* A snapshot that is accepted shows all of the venue; one that is not ends the loop.
LEMMA SnapshotKeepsInv ==
  ASSUME FeedInv, Snapshot
  PROVE  FeedInv'
<1>1. PICK step : step = apply_snapshot(replica, decode_snapshot(book_order(venue)))  OBVIOUS
<1>2. /\ running /\ diffs = <<>> /\ replica' = step.book /\ (running' <=> step.result = "Ok")
      /\ unseen' = {} /\ refused' = {}
      /\ venue' = venue /\ used' = used /\ diffs' = <<>> /\ statuses' = statuses
  BY <1>1 DEF Snapshot
<1>3. BlockFollowed(venue, used, <<>>, statuses, replica, unseen)
  BY <1>2 DEF FeedInv
<1>4. VenueSound(venue, used)
  BY <1>3, NoDiffsLeft
<1>5. ASSUME step.result = "Ok"
      PROVE  BlockFollowed(venue, used, <<>>, statuses, step.book, {})
  <2>1. SoundBook(step.book) /\ Mirrors(step.book, venue, {})
    BY <1>1, <1>4, <1>5, SnapshotShowsAll
  <2> QED
    BY <1>4, <2>1, NoDiffs
<1> QED
  BY <1>2, <1>5 DEF FeedInv

\* Every step keeps it.
LEMMA FeedInvNext == FeedInv /\ [Next]_vars => FeedInv'
<1> SUFFICES ASSUME FeedInv, [Next]_vars PROVE FeedInv'
  OBVIOUS
<1>1. CASE running /\ VenueNext /\ UNCHANGED consumerVars
  BY <1>1, VenueKeepsInv
<1>2. CASE Updates
  BY <1>2, UpdatesKeepInv
<1>3. CASE Snapshot
  BY <1>3, SnapshotKeepsInv
<1>4. CASE UNCHANGED vars
  BY <1>4 DEF vars, FeedInv
<1> QED
  BY <1>1, <1>2, <1>3, <1>4 DEF Next

\* The invariant says what the runs check.
LEMMA FeedInvSound ==
  FeedInv => ReplicaIsTheVenue /\ OnlyTheUnseenAreRefused /\ CausesTellFillsFromCancels
<1> SUFFICES ASSUME FeedInv
             PROVE  ReplicaIsTheVenue /\ OnlyTheUnseenAreRefused /\ CausesTellFillsFromCancels
  OBVIOUS
<1>1. ReplicaIsTheVenue
  <2>1. CASE running /\ diffs = <<>>
    <3>1. BlockFollowed(venue, used, <<>>, statuses, replica, unseen)
      BY <2>1 DEF FeedInv
    <3>2. VenueSound(venue, used) /\ SoundBook(replica) /\ Mirrors(replica, venue, unseen)
      BY <3>1, NoDiffsLeft
    <3>3. \A k \in Queue : QueueMirrored(replica, venue, unseen, k)
      BY <3>2, QueueMirrors
    <3> QED
      BY <2>1, <3>3, Zenon DEF QueueMirrored, ReplicaIsTheVenue
  <2>2. CASE ~(running /\ diffs = <<>>)
    BY <2>2 DEF ReplicaIsTheVenue
  <2> QED
    BY <2>1, <2>2
<1>2. OnlyTheUnseenAreRefused
  BY DEF FeedInv, OnlyTheUnseenAreRefused
<1>3. CausesTellFillsFromCancels
  <2>1. PICK batch : batch = decode_updates_with_meta(diffs, statuses)  OBVIOUS
  <2>2. CASE running
    <3>1. \A i \in DOMAIN batch.ops :
            WellTold(batch.ops[i], used, statuses, batch.removed, Emptied(diffs))
      BY <2>1, <2>2 DEF FeedInv, BlockFollowed, Marked
    <3> QED
      BY <2>1, <3>1 DEF CausesTellFillsFromCancels, WellTold
  <2>3. CASE ~running
    <3>1. batch = EmptyBatch
      BY <2>1, <2>3, DecodedNothing DEF FeedInv
    <3>2. DOMAIN batch.ops = {}
      BY <3>1 DEF EmptyBatch
    <3> QED
      BY <2>1, <3>2 DEF CausesTellFillsFromCancels
  <2> QED
    BY <2>2, <2>3
<1> QED
  BY <1>1, <1>2, <1>3

(* Whatever the venue does, however its messages are cut and however much of *)
(* them cannot be decoded, the book behind the feed is the venue's book in   *)
(* the book's units, order by order and place by place, but for the orders   *)
(* that the feed does not describe (dwellir.rs:240-410, 484-514).            *)
THEOREM ReplicaFollowsTheVenue == Spec => []ReplicaIsTheVenue
<1>1. Spec => []FeedInv
  BY FeedInvInit, FeedInvNext, PTL DEF Spec
<1>2. FeedInv => ReplicaIsTheVenue
  BY FeedInvSound
<1> QED
  BY <1>1, <1>2, PTL

(* No operation that the decoder derives is refused, but for those orders    *)
(* and for fills below the unit (dwellir.rs:261-264, book.rs:375-402).       *)
THEOREM NothingSeenIsRefused == Spec => []OnlyTheUnseenAreRefused
<1>1. Spec => []FeedInv
  BY FeedInvInit, FeedInvNext, PTL DEF Spec
<1>2. FeedInv => OnlyTheUnseenAreRefused
  BY FeedInvSound
<1> QED
  BY <1>1, <1>2, PTL

(* The causes tell complete fills from cancellations in blocks of any        *)
(* length, however the diffs of several ids alternate (dwellir.rs:280-401).  *)
THEOREM CausesAreRight == Spec => []CausesTellFillsFromCancels
<1>1. Spec => []FeedInv
  BY FeedInvInit, FeedInvNext, PTL DEF Spec
<1>2. FeedInv => CausesTellFillsFromCancels
  BY FeedInvSound
<1> QED
  BY <1>1, <1>2, PTL

-----------------------------------------------------------------------------
(* The debug logger: its errors *)

\* A message with operations left to apply has not used up the errors either.
ErrorsInv ==
    /\ errors \in Nat /\ todo \in Nat
    /\ phase \in {"Reading", "Applying", "Stopped", "Dead"}
    /\ errors <= ErrorLimit
    /\ phase = "Reading" => errors < ErrorLimit
    /\ phase = "Applying" /\ todo > 0 => errors < ErrorLimit

(* The loop starts with no error and a limit of at least one                 *)
(* (dwellir_debug_log_sp500.rs:29, 73).                                      *)
LEMMA ErrorsInvInit == LoggerInit => ErrorsInv
  BY ErrorLimitAssumption DEF LoggerInit, ErrorsInv

(* Every error is counted where the limit is looked at before the next one   *)
(* can happen (dwellir_debug_log_sp500.rs:82-300).                           *)
LEMMA ErrorsInvNext == ErrorsInv /\ [LoggerNext]_loggerVars => ErrorsInv'
<1> SUFFICES ASSUME ErrorsInv, [LoggerNext]_loggerVars PROVE ErrorsInv'
  OBVIOUS
<1> USE ErrorLimitAssumption, MaxListAssumption DEF ErrorsInv, At
<1>1. CASE ReadFails
  BY <1>1 DEF ReadFails
<1>2. CASE Closes
  BY <1>2 DEF Closes
<1>3. CASE ReadsGarbage
  BY <1>3 DEF ReadsGarbage, Continue
<1>4. ASSUME NEW orders, ReadsSnapshot(orders) PROVE ErrorsInv'
  <2>1. /\ errors' \in {errors, errors + 1} /\ todo' = todo
        /\ phase = "Reading" /\ Continue(errors')
    BY <1>4 DEF ReadsSnapshot
  <2> QED
    BY <2>1 DEF Continue
<1>5. ASSUME NEW ops \in 0 .. MaxList, ReadsUpdate(ops) PROVE ErrorsInv'
  BY <1>5 DEF ReadsUpdate
<1>6. ASSUME NEW op \in BookOp, Applies(op) PROVE ErrorsInv'
  <2>1. /\ phase = "Applying" /\ todo > 0 /\ phase' = phase
        /\ \/ errors' = errors /\ todo' = todo - 1
           \/ /\ errors' = errors + 1
              /\ todo' = IF errors + 1 >= ErrorLimit THEN 0 ELSE todo - 1
    BY <1>6 DEF Applies
  <2> QED
    BY <2>1
<1>7. CASE EndsUpdate
  BY <1>7 DEF EndsUpdate, Continue
<1>8. CASE Writes
  BY <1>8 DEF Writes
<1>9. CASE Dies
  BY <1>9 DEF Dies
<1>10. CASE UNCHANGED loggerVars
  BY <1>10 DEF loggerVars
<1> QED
  BY <1>1, <1>2, <1>3, <1>4, <1>5, <1>6, <1>7, <1>8, <1>9, <1>10 DEF LoggerNext, Works

(* "It stops after 10 accumulated errors" (README.md:217-218), whatever the  *)
(* limit, the messages and the length of their lists.                        *)
THEOREM ErrorsAreLimited == LoggerSpec => []ErrorsStayWithinTheLimit
<1>1. ErrorsInv => ErrorsStayWithinTheLimit
  BY DEF ErrorsInv, ErrorsStayWithinTheLimit
<1> QED
  BY <1>1, ErrorsInvInit, ErrorsInvNext, PTL DEF LoggerSpec

-----------------------------------------------------------------------------
(* The debug logger: its log *)

(* The log's reader starts from the empty book, as the program does.         *)
LEMMA LogInit == LoggerInit => LogShowsTheBook
  BY DEF LoggerInit, LogShowsTheBook, Caught, Knows

(* Every step that changes the book has a record in hand that says how       *)
(* (dwellir_debug_log_sp500.rs:148-297).                                     *)
LEMMA LogNext == LogShowsTheBook /\ [LoggerNext]_loggerVars => LogShowsTheBook'
<1> SUFFICES ASSUME LogShowsTheBook, [LoggerNext]_loggerVars PROVE LogShowsTheBook'
  OBVIOUS
<1> USE DEF LogShowsTheBook, Caught, At
<1>1. CASE ReadFails
  BY <1>1 DEF ReadFails
<1>2. CASE Closes
  BY <1>2 DEF Closes
<1>3. CASE ReadsGarbage
  BY <1>3 DEF ReadsGarbage
<1>4. ASSUME NEW orders, ReadsSnapshot(orders) PROVE LogShowsTheBook'
  <2>1. CASE apply_snapshot(book, orders).result = "Ok"
    BY <1>4, <2>1 DEF ReadsSnapshot, Follow, Knows
  <2>2. CASE apply_snapshot(book, orders).result # "Ok"
    BY <1>4, <2>2 DEF ReadsSnapshot, Follow, Unknown
  <2> QED
    BY <2>1, <2>2
<1>5. ASSUME NEW ops \in 0 .. MaxList, ReadsUpdate(ops) PROVE LogShowsTheBook'
  BY <1>5 DEF ReadsUpdate
<1>6. ASSUME NEW op \in BookOp, Applies(op) PROVE LogShowsTheBook'
  <2>1. CASE apply_op(book, op).result = "Ok"
    BY <1>6, <2>1 DEF Applies, Follow, Knows
  <2>2. CASE apply_op(book, op).result # "Ok"
    <3> DEFINE record == [event |-> "op_apply_error", book |-> apply_op(book, op).book]
    <3>1. unwritten' = <<record>> /\ book' = record.book /\ record.event = "op_apply_error"
      BY <1>6, <2>2 DEF Applies
    <3>2. Follow(reader', record) = Knows(record.book)
      BY <3>1 DEF Follow
    <3> QED
      BY <3>1, <3>2 DEF Knows
  <2> QED
    BY <2>1, <2>2
<1>7. CASE EndsUpdate
  BY <1>7 DEF EndsUpdate, Follow, Knows
<1>8. CASE Writes
  BY <1>8 DEF Writes
<1>9. CASE Dies
  BY <1>9 DEF Dies
<1>10. CASE UNCHANGED loggerVars
  BY <1>10 DEF loggerVars
<1> QED
  BY <1>1, <1>2, <1>3, <1>4, <1>5, <1>6, <1>7, <1>8, <1>9, <1>10 DEF LoggerNext, Works

(* The log "stays useful even if the process is interrupted"                 *)
(* (dwellir_debug_log_sp500.rs:12-13): at every instant what it shows is the *)
(* program's book, up to the record in hand.                                 *)
THEOREM LogIsUseful == LoggerSpec => []LogShowsTheBook
  BY LogInit, LogNext, PTL DEF LoggerSpec


\* The capture after the first n lines of a file.
LoadedLinesUpTo(n, run, lines) ==
    /\ run = [i \in 0 .. n |-> run[i]]
    /\ run[0] = EmptyCapture
    /\ \A i \in 1 .. n : run[i] = AddLine(run[i - 1], lines[i])

\* The definition of load_capture_with_meta, unfolded.
LEMMA LoadedLinesRuns ==
  ASSUME NEW S, NEW lines \in Seq(S)
  PROVE  \E run : /\ LoadedLinesUpTo(Len(lines), run, lines)
                  /\ load_capture_with_meta(lines) = run[Len(lines)]
<1> DEFINE N == Len(lines)
           T == {n \in Nat : \E f : LoadedLinesUpTo(n, f, lines)}
<1>0. N \in Nat  OBVIOUS
<1>1. 0 \in T
  <2>1. PICK f : f = [i \in 0 .. 0 |-> EmptyCapture]  OBVIOUS
  <2>2. f = [i \in 0 .. 0 |-> f[i]] /\ f[0] = EmptyCapture  BY <2>1
  <2>3. LoadedLinesUpTo(0, f, lines)  BY <2>2 DEF LoadedLinesUpTo
  <2> QED  BY <2>3
<1>2. ASSUME NEW n \in Nat, n \in T PROVE n + 1 \in T
  <2>1. PICK f : LoadedLinesUpTo(n, f, lines)  BY <1>2
  <2>2. PICK m : m = AddLine(f[n], lines[n + 1])  OBVIOUS
  <2>3. PICK g : g = [i \in 0 .. (n + 1) |-> IF i = n + 1 THEN m ELSE f[i]]  OBVIOUS
  <2>4. \A i \in 0 .. n : g[i] = f[i]
    <3> SUFFICES ASSUME NEW i \in 0 .. n PROVE g[i] = f[i]  OBVIOUS
    <3>1. i \in 0 .. (n + 1) /\ i # n + 1  OBVIOUS
    <3> QED  BY <2>3, <3>1
  <2>5. g[n + 1] = m  BY <2>3
  <2>6. ASSUME NEW i \in 1 .. (n + 1) PROVE g[i] = AddLine(g[i - 1], lines[i])
    <3>1. CASE i = n + 1
      <4>1. i - 1 = n /\ g[i - 1] = f[n]  BY <2>4, <3>1
      <4> QED  BY <2>2, <2>5, <3>1, <4>1
    <3>2. CASE i # n + 1
      <4>1. i \in 1 .. n /\ i \in 0 .. n /\ i - 1 \in 0 .. n  BY <3>2
      <4>2. g[i] = f[i] /\ g[i - 1] = f[i - 1]  BY <2>4, <4>1
      <4> QED  BY <2>1, <4>1, <4>2 DEF LoadedLinesUpTo
    <3> QED  BY <3>1, <3>2
  <2>7. g = [i \in 0 .. (n + 1) |-> g[i]]  BY <2>3
  <2>8. g[0] = EmptyCapture  BY <2>1, <2>4 DEF LoadedLinesUpTo
  <2>9. LoadedLinesUpTo(n + 1, g, lines)  BY <2>6, <2>7, <2>8 DEF LoadedLinesUpTo
  <2> QED  BY <2>9
<1>3. N \in T
  <2> HIDE DEF T
  <2>1. Nat \subseteq T  BY <1>1, <1>2, NumbersByInduction
  <2> QED  BY <1>0, <2>1
<1>4. PICK f : LoadedLinesUpTo(N, f, lines)  BY <1>3
<1> HIDE DEF T
<1> DEFINE Recurs(h) ==
             h = [n \in 0 .. Len(lines) |-> IF n = 0 THEN EmptyCapture ELSE AddLine(h[n - 1], lines[n])]
           upto == CHOOSE h : Recurs(h)
<1>5. load_capture_with_meta(lines) = upto[Len(lines)]  BY DEF load_capture_with_meta
<1>6. Recurs(f)
  <2>1. ASSUME NEW n \in 0 .. N
        PROVE  f[n] = IF n = 0 THEN EmptyCapture ELSE AddLine(f[n - 1], lines[n])
    <3>1. CASE n = 0  BY <1>4, <3>1 DEF LoadedLinesUpTo
    <3>2. CASE n # 0
      <4>1. n \in 1 .. N  BY <1>0, <3>2
      <4> QED  BY <1>4, <3>2, <4>1 DEF LoadedLinesUpTo
    <3> QED  BY <3>1, <3>2
  <2>2. f = [i \in 0 .. N |-> f[i]]  BY <1>4 DEF LoadedLinesUpTo
  <2> QED  BY <2>1, <2>2
<1>7. Recurs(upto)
  <2> HIDE DEF Recurs
  <2> QED  BY <1>6
<1>8. PICK h : h = upto  OBVIOUS
<1> HIDE DEF upto
<1>9. Recurs(h)
  <2> HIDE DEF Recurs
  <2> QED  BY <1>7, <1>8
<1>10. \A n \in 0 .. N : h[n] = IF n = 0 THEN EmptyCapture ELSE AddLine(h[n - 1], lines[n])
  BY <1>9
<1>11. h = [i \in 0 .. N |-> h[i]]  BY <1>9
<1> HIDE DEF Recurs, N
<1>12. h[0] = EmptyCapture
  <2>1. 0 \in 0 .. N  BY <1>0
  <2> QED  BY <1>10, <2>1, Zenon
<1>13. ASSUME NEW i \in 1 .. N PROVE h[i] = AddLine(h[i - 1], lines[i])
  <2>1. i \in 0 .. N /\ i # 0  BY <1>0
  <2> QED  BY <1>10, <2>1
<1>14. LoadedLinesUpTo(N, h, lines)  BY <1>11, <1>12, <1>13 DEF LoadedLinesUpTo
<1> QED  BY <1>5, <1>8, <1>14 DEF N

\* One more line of the file.
LEMMA LoadedLinesOnAppend ==
  ASSUME NEW S, NEW lines \in Seq(S), NEW last \in S
  PROVE  load_capture_with_meta(Append(lines, last)) = AddLine(load_capture_with_meta(lines), last)
<1>1. PICK longer : longer = Append(lines, last)  OBVIOUS
<1>2. /\ longer \in Seq(S) /\ Len(lines) \in Nat /\ Len(longer) = Len(lines) + 1
      /\ \A i \in 1 .. Len(lines) : longer[i] = lines[i]
      /\ longer[Len(lines) + 1] = last
  BY <1>1
<1>3. PICK N : N = Len(lines)  OBVIOUS
<1>4. PICK f : LoadedLinesUpTo(N, f, lines) /\ load_capture_with_meta(lines) = f[N]  BY <1>3, LoadedLinesRuns
<1>5. PICK g : LoadedLinesUpTo(N + 1, g, longer) /\ load_capture_with_meta(longer) = g[N + 1]
  <2>1. \E g : LoadedLinesUpTo(Len(longer), g, longer) /\ load_capture_with_meta(longer) = g[Len(longer)]
    BY <1>2, LoadedLinesRuns
  <2> QED  BY <1>2, <1>3, <2>1
<1>6. N \in Nat  BY <1>2, <1>3
<1> DEFINE T == {n \in Nat : n <= N => g[n] = f[n]}
<1>7. 0 \in T  BY <1>4, <1>5 DEF LoadedLinesUpTo
<1>8. ASSUME NEW n \in Nat, n \in T PROVE n + 1 \in T
  <2> SUFFICES ASSUME n + 1 <= N PROVE g[n + 1] = f[n + 1]  OBVIOUS
  <2>1. n <= N /\ n + 1 \in 1 .. N /\ n + 1 \in 1 .. (N + 1) /\ (n + 1) - 1 = n  BY <1>6
  <2>2. g[n] = f[n]  BY <1>8, <2>1
  <2>3. longer[n + 1] = lines[n + 1]  BY <1>2, <1>3, <2>1
  <2>4. f[n + 1] = AddLine(f[(n + 1) - 1], lines[n + 1])  BY <1>4, <2>1 DEF LoadedLinesUpTo
  <2>5. g[n + 1] = AddLine(g[(n + 1) - 1], longer[n + 1])  BY <1>5, <2>1 DEF LoadedLinesUpTo
  <2> QED  BY <2>1, <2>2, <2>3, <2>4, <2>5
<1>9. g[N] = f[N]
  <2> HIDE DEF T
  <2>1. Nat \subseteq T  BY <1>7, <1>8, NumbersByInduction
  <2>2. N \in T /\ N <= N  BY <1>6, <2>1
  <2> QED  BY <2>2 DEF T
<1>10. N + 1 \in 1 .. (N + 1) /\ (N + 1) - 1 = N  BY <1>6
<1>11. g[N + 1] = AddLine(g[(N + 1) - 1], longer[N + 1])  BY <1>5, <1>10 DEF LoadedLinesUpTo
<1> QED  BY <1>1, <1>2, <1>3, <1>4, <1>5, <1>9, <1>10, <1>11

\* A file without lines.
LEMMA LoadedLinesNothing ==
  load_capture_with_meta(<<>>) = EmptyCapture
<1>1. PICK none : none = <<>>  OBVIOUS
<1>2. none \in Seq({}) /\ Len(none) = 0  BY <1>1
<1>3. PICK f : LoadedLinesUpTo(0, f, none) /\ load_capture_with_meta(none) = f[0]
  <2>1. \E f : LoadedLinesUpTo(Len(none), f, none) /\ load_capture_with_meta(none) = f[Len(none)]
    BY <1>2, LoadedLinesRuns
  <2> QED  BY <1>2, <2>1
<1> QED  BY <1>1, <1>3 DEF LoadedLinesUpTo


\* The diffs of the first n lines.
CountedUpTo(n, run, lines, kinds) ==
    /\ run = [i \in 0 .. n |-> run[i]]
    /\ run[0] = 0
    /\ \A i \in 1 .. n : run[i] = run[i - 1] + InLine(lines[i], kinds)

\* The definition of DiffsIn, unfolded.
LEMMA CountedRuns ==
  ASSUME NEW S, NEW lines \in Seq(S), NEW kinds
  PROVE  \E run : /\ CountedUpTo(Len(lines), run, lines, kinds)
                  /\ DiffsIn(lines, kinds) = run[Len(lines)]
<1> DEFINE N == Len(lines)
           T == {n \in Nat : \E f : CountedUpTo(n, f, lines, kinds)}
<1>0. N \in Nat  OBVIOUS
<1>1. 0 \in T
  <2>1. PICK f : f = [i \in 0 .. 0 |-> 0]  OBVIOUS
  <2>2. f = [i \in 0 .. 0 |-> f[i]] /\ f[0] = 0  BY <2>1
  <2>3. CountedUpTo(0, f, lines, kinds)  BY <2>2 DEF CountedUpTo
  <2> QED  BY <2>3
<1>2. ASSUME NEW n \in Nat, n \in T PROVE n + 1 \in T
  <2>1. PICK f : CountedUpTo(n, f, lines, kinds)  BY <1>2
  <2>2. PICK m : m = f[n] + InLine(lines[n + 1], kinds)  OBVIOUS
  <2>3. PICK g : g = [i \in 0 .. (n + 1) |-> IF i = n + 1 THEN m ELSE f[i]]  OBVIOUS
  <2>4. \A i \in 0 .. n : g[i] = f[i]
    <3> SUFFICES ASSUME NEW i \in 0 .. n PROVE g[i] = f[i]  OBVIOUS
    <3>1. i \in 0 .. (n + 1) /\ i # n + 1  OBVIOUS
    <3> QED  BY <2>3, <3>1
  <2>5. g[n + 1] = m  BY <2>3
  <2>6. ASSUME NEW i \in 1 .. (n + 1) PROVE g[i] = g[i - 1] + InLine(lines[i], kinds)
    <3>1. CASE i = n + 1
      <4>1. i - 1 = n /\ g[i - 1] = f[n]  BY <2>4, <3>1
      <4> QED  BY <2>2, <2>5, <3>1, <4>1
    <3>2. CASE i # n + 1
      <4>1. i \in 1 .. n /\ i \in 0 .. n /\ i - 1 \in 0 .. n  BY <3>2
      <4>2. g[i] = f[i] /\ g[i - 1] = f[i - 1]  BY <2>4, <4>1
      <4> QED  BY <2>1, <4>1, <4>2 DEF CountedUpTo
    <3> QED  BY <3>1, <3>2
  <2>7. g = [i \in 0 .. (n + 1) |-> g[i]]  BY <2>3
  <2>8. g[0] = 0  BY <2>1, <2>4 DEF CountedUpTo
  <2>9. CountedUpTo(n + 1, g, lines, kinds)  BY <2>6, <2>7, <2>8 DEF CountedUpTo
  <2> QED  BY <2>9
<1>3. N \in T
  <2> HIDE DEF T
  <2>1. Nat \subseteq T  BY <1>1, <1>2, NumbersByInduction
  <2> QED  BY <1>0, <2>1
<1>4. PICK f : CountedUpTo(N, f, lines, kinds)  BY <1>3
<1> HIDE DEF T
<1> DEFINE Recurs(h) ==
             h = [n \in 0 .. Len(lines) |-> IF n = 0 THEN 0 ELSE h[n - 1] + InLine(lines[n], kinds)]
           upto == CHOOSE h : Recurs(h)
<1>5. DiffsIn(lines, kinds) = upto[Len(lines)]  BY DEF DiffsIn
<1>6. Recurs(f)
  <2>1. ASSUME NEW n \in 0 .. N
        PROVE  f[n] = IF n = 0 THEN 0 ELSE f[n - 1] + InLine(lines[n], kinds)
    <3>1. CASE n = 0  BY <1>4, <3>1 DEF CountedUpTo
    <3>2. CASE n # 0
      <4>1. n \in 1 .. N  BY <1>0, <3>2
      <4> QED  BY <1>4, <3>2, <4>1 DEF CountedUpTo
    <3> QED  BY <3>1, <3>2
  <2>2. f = [i \in 0 .. N |-> f[i]]  BY <1>4 DEF CountedUpTo
  <2> QED  BY <2>1, <2>2
<1>7. Recurs(upto)
  <2> HIDE DEF Recurs
  <2> QED  BY <1>6
<1>8. PICK h : h = upto  OBVIOUS
<1> HIDE DEF upto
<1>9. Recurs(h)
  <2> HIDE DEF Recurs
  <2> QED  BY <1>7, <1>8
<1>10. \A n \in 0 .. N : h[n] = IF n = 0 THEN 0 ELSE h[n - 1] + InLine(lines[n], kinds)
  BY <1>9
<1>11. h = [i \in 0 .. N |-> h[i]]  BY <1>9
<1> HIDE DEF Recurs, N
<1>12. h[0] = 0
  <2>1. 0 \in 0 .. N  BY <1>0
  <2> QED  BY <1>10, <2>1, Zenon
<1>13. ASSUME NEW i \in 1 .. N PROVE h[i] = h[i - 1] + InLine(lines[i], kinds)
  <2>1. i \in 0 .. N /\ i # 0  BY <1>0
  <2> QED  BY <1>10, <2>1
<1>14. CountedUpTo(N, h, lines, kinds)  BY <1>11, <1>12, <1>13 DEF CountedUpTo
<1> QED  BY <1>5, <1>8, <1>14 DEF N

\* One more line.
LEMMA CountedOnAppend ==
  ASSUME NEW S, NEW lines \in Seq(S), NEW last \in S, NEW kinds
  PROVE  DiffsIn(Append(lines, last), kinds) = DiffsIn(lines, kinds) + InLine(last, kinds)
<1>1. PICK longer : longer = Append(lines, last)  OBVIOUS
<1>2. /\ longer \in Seq(S) /\ Len(lines) \in Nat /\ Len(longer) = Len(lines) + 1
      /\ \A i \in 1 .. Len(lines) : longer[i] = lines[i]
      /\ longer[Len(lines) + 1] = last
  BY <1>1
<1>3. PICK N : N = Len(lines)  OBVIOUS
<1>4. PICK f : CountedUpTo(N, f, lines, kinds) /\ DiffsIn(lines, kinds) = f[N]  BY <1>3, CountedRuns
<1>5. PICK g : CountedUpTo(N + 1, g, longer, kinds) /\ DiffsIn(longer, kinds) = g[N + 1]
  <2>1. \E g : CountedUpTo(Len(longer), g, longer, kinds) /\ DiffsIn(longer, kinds) = g[Len(longer)]
    BY <1>2, CountedRuns
  <2> QED  BY <1>2, <1>3, <2>1
<1>6. N \in Nat  BY <1>2, <1>3
<1> DEFINE T == {n \in Nat : n <= N => g[n] = f[n]}
<1>7. 0 \in T  BY <1>4, <1>5 DEF CountedUpTo
<1>8. ASSUME NEW n \in Nat, n \in T PROVE n + 1 \in T
  <2> SUFFICES ASSUME n + 1 <= N PROVE g[n + 1] = f[n + 1]  OBVIOUS
  <2>1. n <= N /\ n + 1 \in 1 .. N /\ n + 1 \in 1 .. (N + 1) /\ (n + 1) - 1 = n  BY <1>6
  <2>2. g[n] = f[n]  BY <1>8, <2>1
  <2>3. longer[n + 1] = lines[n + 1]  BY <1>2, <1>3, <2>1
  <2>4. f[n + 1] = f[(n + 1) - 1] + InLine(lines[n + 1], kinds)  BY <1>4, <2>1 DEF CountedUpTo
  <2>5. g[n + 1] = g[(n + 1) - 1] + InLine(longer[n + 1], kinds)  BY <1>5, <2>1 DEF CountedUpTo
  <2> QED  BY <2>1, <2>2, <2>3, <2>4, <2>5
<1>9. g[N] = f[N]
  <2> HIDE DEF T
  <2>1. Nat \subseteq T  BY <1>7, <1>8, NumbersByInduction
  <2>2. N \in T /\ N <= N  BY <1>6, <2>1
  <2> QED  BY <2>2 DEF T
<1>10. N + 1 \in 1 .. (N + 1) /\ (N + 1) - 1 = N  BY <1>6
<1>11. g[N + 1] = g[(N + 1) - 1] + InLine(longer[N + 1], kinds)  BY <1>5, <1>10 DEF CountedUpTo
<1> QED  BY <1>1, <1>2, <1>3, <1>4, <1>5, <1>9, <1>10, <1>11

\* No lines, no diffs.
LEMMA CountedNothing ==
  ASSUME NEW kinds
  PROVE  DiffsIn(<<>>, kinds) = 0
<1>1. PICK none : none = <<>>  OBVIOUS
<1>2. none \in Seq({}) /\ Len(none) = 0  BY <1>1
<1>3. PICK f : CountedUpTo(0, f, none, kinds) /\ DiffsIn(none, kinds) = f[0]
  <2>1. \E f : CountedUpTo(Len(none), f, none, kinds) /\ DiffsIn(none, kinds) = f[Len(none)]
    BY <1>2, CountedRuns
  <2> QED  BY <1>2, <2>1
<1> QED  BY <1>1, <1>3 DEF CountedUpTo


\* The replay after the first n operations of a message.
PlayedUpTo(n, run, ops, start, policy) ==
    /\ run = [i \in 0 .. n |-> run[i]]
    /\ run[0] = start
    /\ \A i \in 1 .. n : run[i] = ReplayOp(run[i - 1], ops[i], policy)

\* The definition of ReplayOps, unfolded.
LEMMA PlayedRuns ==
  ASSUME NEW S, NEW ops \in Seq(S), NEW start, NEW policy
  PROVE  \E run : /\ PlayedUpTo(Len(ops), run, ops, start, policy)
                  /\ ReplayOps(start, ops, policy) = run[Len(ops)]
<1> DEFINE N == Len(ops)
           T == {n \in Nat : \E f : PlayedUpTo(n, f, ops, start, policy)}
<1>0. N \in Nat  OBVIOUS
<1>1. 0 \in T
  <2>1. PICK f : f = [i \in 0 .. 0 |-> start]  OBVIOUS
  <2>2. f = [i \in 0 .. 0 |-> f[i]] /\ f[0] = start  BY <2>1
  <2>3. PlayedUpTo(0, f, ops, start, policy)  BY <2>2 DEF PlayedUpTo
  <2> QED  BY <2>3
<1>2. ASSUME NEW n \in Nat, n \in T PROVE n + 1 \in T
  <2>1. PICK f : PlayedUpTo(n, f, ops, start, policy)  BY <1>2
  <2>2. PICK m : m = ReplayOp(f[n], ops[n + 1], policy)  OBVIOUS
  <2>3. PICK g : g = [i \in 0 .. (n + 1) |-> IF i = n + 1 THEN m ELSE f[i]]  OBVIOUS
  <2>4. \A i \in 0 .. n : g[i] = f[i]
    <3> SUFFICES ASSUME NEW i \in 0 .. n PROVE g[i] = f[i]  OBVIOUS
    <3>1. i \in 0 .. (n + 1) /\ i # n + 1  OBVIOUS
    <3> QED  BY <2>3, <3>1
  <2>5. g[n + 1] = m  BY <2>3
  <2>6. ASSUME NEW i \in 1 .. (n + 1) PROVE g[i] = ReplayOp(g[i - 1], ops[i], policy)
    <3>1. CASE i = n + 1
      <4>1. i - 1 = n /\ g[i - 1] = f[n]  BY <2>4, <3>1
      <4> QED  BY <2>2, <2>5, <3>1, <4>1
    <3>2. CASE i # n + 1
      <4>1. i \in 1 .. n /\ i \in 0 .. n /\ i - 1 \in 0 .. n  BY <3>2
      <4>2. g[i] = f[i] /\ g[i - 1] = f[i - 1]  BY <2>4, <4>1
      <4> QED  BY <2>1, <4>1, <4>2 DEF PlayedUpTo
    <3> QED  BY <3>1, <3>2
  <2>7. g = [i \in 0 .. (n + 1) |-> g[i]]  BY <2>3
  <2>8. g[0] = start  BY <2>1, <2>4 DEF PlayedUpTo
  <2>9. PlayedUpTo(n + 1, g, ops, start, policy)  BY <2>6, <2>7, <2>8 DEF PlayedUpTo
  <2> QED  BY <2>9
<1>3. N \in T
  <2> HIDE DEF T
  <2>1. Nat \subseteq T  BY <1>1, <1>2, NumbersByInduction
  <2> QED  BY <1>0, <2>1
<1>4. PICK f : PlayedUpTo(N, f, ops, start, policy)  BY <1>3
<1> HIDE DEF T
<1> DEFINE Recurs(h) ==
             h = [n \in 0 .. Len(ops) |-> IF n = 0 THEN start ELSE ReplayOp(h[n - 1], ops[n], policy)]
           upto == CHOOSE h : Recurs(h)
<1>5. ReplayOps(start, ops, policy) = upto[Len(ops)]  BY DEF ReplayOps
<1>6. Recurs(f)
  <2>1. ASSUME NEW n \in 0 .. N
        PROVE  f[n] = IF n = 0 THEN start ELSE ReplayOp(f[n - 1], ops[n], policy)
    <3>1. CASE n = 0  BY <1>4, <3>1 DEF PlayedUpTo
    <3>2. CASE n # 0
      <4>1. n \in 1 .. N  BY <1>0, <3>2
      <4> QED  BY <1>4, <3>2, <4>1 DEF PlayedUpTo
    <3> QED  BY <3>1, <3>2
  <2>2. f = [i \in 0 .. N |-> f[i]]  BY <1>4 DEF PlayedUpTo
  <2> QED  BY <2>1, <2>2
<1>7. Recurs(upto)
  <2> HIDE DEF Recurs
  <2> QED  BY <1>6
<1>8. PICK h : h = upto  OBVIOUS
<1> HIDE DEF upto
<1>9. Recurs(h)
  <2> HIDE DEF Recurs
  <2> QED  BY <1>7, <1>8
<1>10. \A n \in 0 .. N : h[n] = IF n = 0 THEN start ELSE ReplayOp(h[n - 1], ops[n], policy)
  BY <1>9
<1>11. h = [i \in 0 .. N |-> h[i]]  BY <1>9
<1> HIDE DEF Recurs, N
<1>12. h[0] = start
  <2>1. 0 \in 0 .. N  BY <1>0
  <2> QED  BY <1>10, <2>1, Zenon
<1>13. ASSUME NEW i \in 1 .. N PROVE h[i] = ReplayOp(h[i - 1], ops[i], policy)
  <2>1. i \in 0 .. N /\ i # 0  BY <1>0
  <2> QED  BY <1>10, <2>1
<1>14. PlayedUpTo(N, h, ops, start, policy)  BY <1>11, <1>12, <1>13 DEF PlayedUpTo
<1> QED  BY <1>5, <1>8, <1>14 DEF N

\* One more operation.
LEMMA PlayedOnAppend ==
  ASSUME NEW S, NEW ops \in Seq(S), NEW last \in S, NEW start, NEW policy
  PROVE  ReplayOps(start, Append(ops, last), policy) = ReplayOp(ReplayOps(start, ops, policy), last, policy)
<1>1. PICK longer : longer = Append(ops, last)  OBVIOUS
<1>2. /\ longer \in Seq(S) /\ Len(ops) \in Nat /\ Len(longer) = Len(ops) + 1
      /\ \A i \in 1 .. Len(ops) : longer[i] = ops[i]
      /\ longer[Len(ops) + 1] = last
  BY <1>1
<1>3. PICK N : N = Len(ops)  OBVIOUS
<1>4. PICK f : PlayedUpTo(N, f, ops, start, policy) /\ ReplayOps(start, ops, policy) = f[N]  BY <1>3, PlayedRuns
<1>5. PICK g : PlayedUpTo(N + 1, g, longer, start, policy) /\ ReplayOps(start, longer, policy) = g[N + 1]
  <2>1. \E g : PlayedUpTo(Len(longer), g, longer, start, policy) /\ ReplayOps(start, longer, policy) = g[Len(longer)]
    BY <1>2, PlayedRuns
  <2> QED  BY <1>2, <1>3, <2>1
<1>6. N \in Nat  BY <1>2, <1>3
<1> DEFINE T == {n \in Nat : n <= N => g[n] = f[n]}
<1>7. 0 \in T  BY <1>4, <1>5 DEF PlayedUpTo
<1>8. ASSUME NEW n \in Nat, n \in T PROVE n + 1 \in T
  <2> SUFFICES ASSUME n + 1 <= N PROVE g[n + 1] = f[n + 1]  OBVIOUS
  <2>1. n <= N /\ n + 1 \in 1 .. N /\ n + 1 \in 1 .. (N + 1) /\ (n + 1) - 1 = n  BY <1>6
  <2>2. g[n] = f[n]  BY <1>8, <2>1
  <2>3. longer[n + 1] = ops[n + 1]  BY <1>2, <1>3, <2>1
  <2>4. f[n + 1] = ReplayOp(f[(n + 1) - 1], ops[n + 1], policy)  BY <1>4, <2>1 DEF PlayedUpTo
  <2>5. g[n + 1] = ReplayOp(g[(n + 1) - 1], longer[n + 1], policy)  BY <1>5, <2>1 DEF PlayedUpTo
  <2> QED  BY <2>1, <2>2, <2>3, <2>4, <2>5
<1>9. g[N] = f[N]
  <2> HIDE DEF T
  <2>1. Nat \subseteq T  BY <1>7, <1>8, NumbersByInduction
  <2>2. N \in T /\ N <= N  BY <1>6, <2>1
  <2> QED  BY <2>2 DEF T
<1>10. N + 1 \in 1 .. (N + 1) /\ (N + 1) - 1 = N  BY <1>6
<1>11. g[N + 1] = ReplayOp(g[(N + 1) - 1], longer[N + 1], policy)  BY <1>5, <1>10 DEF PlayedUpTo
<1> QED  BY <1>1, <1>2, <1>3, <1>4, <1>5, <1>9, <1>10, <1>11

\* A message without operations.
LEMMA PlayedNothing ==
  ASSUME NEW start, NEW policy
  PROVE  ReplayOps(start, <<>>, policy) = start
<1>1. PICK none : none = <<>>  OBVIOUS
<1>2. none \in Seq({}) /\ Len(none) = 0  BY <1>1
<1>3. PICK f : PlayedUpTo(0, f, none, start, policy) /\ ReplayOps(start, none, policy) = f[0]
  <2>1. \E f : PlayedUpTo(Len(none), f, none, start, policy) /\ ReplayOps(start, none, policy) = f[Len(none)]
    BY <1>2, PlayedRuns
  <2> QED  BY <1>2, <2>1
<1> QED  BY <1>1, <1>3 DEF PlayedUpTo


\* The replay after the first n messages.
ReplayedUpTo(n, run, updates, start, policy) ==
    /\ run = [i \in 0 .. n |-> run[i]]
    /\ run[0] = start
    /\ \A i \in 1 .. n : run[i] = ReplayOps(run[i - 1], updates[i], policy)

\* The definition of ReplayUpdates, unfolded.
LEMMA ReplayedRuns ==
  ASSUME NEW S, NEW updates \in Seq(S), NEW start, NEW policy
  PROVE  \E run : /\ ReplayedUpTo(Len(updates), run, updates, start, policy)
                  /\ ReplayUpdates(start, updates, policy) = run[Len(updates)]
<1> DEFINE N == Len(updates)
           T == {n \in Nat : \E f : ReplayedUpTo(n, f, updates, start, policy)}
<1>0. N \in Nat  OBVIOUS
<1>1. 0 \in T
  <2>1. PICK f : f = [i \in 0 .. 0 |-> start]  OBVIOUS
  <2>2. f = [i \in 0 .. 0 |-> f[i]] /\ f[0] = start  BY <2>1
  <2>3. ReplayedUpTo(0, f, updates, start, policy)  BY <2>2 DEF ReplayedUpTo
  <2> QED  BY <2>3
<1>2. ASSUME NEW n \in Nat, n \in T PROVE n + 1 \in T
  <2>1. PICK f : ReplayedUpTo(n, f, updates, start, policy)  BY <1>2
  <2>2. PICK m : m = ReplayOps(f[n], updates[n + 1], policy)  OBVIOUS
  <2>3. PICK g : g = [i \in 0 .. (n + 1) |-> IF i = n + 1 THEN m ELSE f[i]]  OBVIOUS
  <2>4. \A i \in 0 .. n : g[i] = f[i]
    <3> SUFFICES ASSUME NEW i \in 0 .. n PROVE g[i] = f[i]  OBVIOUS
    <3>1. i \in 0 .. (n + 1) /\ i # n + 1  OBVIOUS
    <3> QED  BY <2>3, <3>1
  <2>5. g[n + 1] = m  BY <2>3
  <2>6. ASSUME NEW i \in 1 .. (n + 1) PROVE g[i] = ReplayOps(g[i - 1], updates[i], policy)
    <3>1. CASE i = n + 1
      <4>1. i - 1 = n /\ g[i - 1] = f[n]  BY <2>4, <3>1
      <4> QED  BY <2>2, <2>5, <3>1, <4>1
    <3>2. CASE i # n + 1
      <4>1. i \in 1 .. n /\ i \in 0 .. n /\ i - 1 \in 0 .. n  BY <3>2
      <4>2. g[i] = f[i] /\ g[i - 1] = f[i - 1]  BY <2>4, <4>1
      <4> QED  BY <2>1, <4>1, <4>2 DEF ReplayedUpTo
    <3> QED  BY <3>1, <3>2
  <2>7. g = [i \in 0 .. (n + 1) |-> g[i]]  BY <2>3
  <2>8. g[0] = start  BY <2>1, <2>4 DEF ReplayedUpTo
  <2>9. ReplayedUpTo(n + 1, g, updates, start, policy)  BY <2>6, <2>7, <2>8 DEF ReplayedUpTo
  <2> QED  BY <2>9
<1>3. N \in T
  <2> HIDE DEF T
  <2>1. Nat \subseteq T  BY <1>1, <1>2, NumbersByInduction
  <2> QED  BY <1>0, <2>1
<1>4. PICK f : ReplayedUpTo(N, f, updates, start, policy)  BY <1>3
<1> HIDE DEF T
<1> DEFINE Recurs(h) ==
             h = [n \in 0 .. Len(updates) |-> IF n = 0 THEN start ELSE ReplayOps(h[n - 1], updates[n], policy)]
           upto == CHOOSE h : Recurs(h)
<1>5. ReplayUpdates(start, updates, policy) = upto[Len(updates)]  BY DEF ReplayUpdates
<1>6. Recurs(f)
  <2>1. ASSUME NEW n \in 0 .. N
        PROVE  f[n] = IF n = 0 THEN start ELSE ReplayOps(f[n - 1], updates[n], policy)
    <3>1. CASE n = 0  BY <1>4, <3>1 DEF ReplayedUpTo
    <3>2. CASE n # 0
      <4>1. n \in 1 .. N  BY <1>0, <3>2
      <4> QED  BY <1>4, <3>2, <4>1 DEF ReplayedUpTo
    <3> QED  BY <3>1, <3>2
  <2>2. f = [i \in 0 .. N |-> f[i]]  BY <1>4 DEF ReplayedUpTo
  <2> QED  BY <2>1, <2>2
<1>7. Recurs(upto)
  <2> HIDE DEF Recurs
  <2> QED  BY <1>6
<1>8. PICK h : h = upto  OBVIOUS
<1> HIDE DEF upto
<1>9. Recurs(h)
  <2> HIDE DEF Recurs
  <2> QED  BY <1>7, <1>8
<1>10. \A n \in 0 .. N : h[n] = IF n = 0 THEN start ELSE ReplayOps(h[n - 1], updates[n], policy)
  BY <1>9
<1>11. h = [i \in 0 .. N |-> h[i]]  BY <1>9
<1> HIDE DEF Recurs, N
<1>12. h[0] = start
  <2>1. 0 \in 0 .. N  BY <1>0
  <2> QED  BY <1>10, <2>1, Zenon
<1>13. ASSUME NEW i \in 1 .. N PROVE h[i] = ReplayOps(h[i - 1], updates[i], policy)
  <2>1. i \in 0 .. N /\ i # 0  BY <1>0
  <2> QED  BY <1>10, <2>1
<1>14. ReplayedUpTo(N, h, updates, start, policy)  BY <1>11, <1>12, <1>13 DEF ReplayedUpTo
<1> QED  BY <1>5, <1>8, <1>14 DEF N

\* One more message.
LEMMA ReplayedOnAppend ==
  ASSUME NEW S, NEW updates \in Seq(S), NEW last \in S, NEW start, NEW policy
  PROVE  ReplayUpdates(start, Append(updates, last), policy) = ReplayOps(ReplayUpdates(start, updates, policy), last, policy)
<1>1. PICK longer : longer = Append(updates, last)  OBVIOUS
<1>2. /\ longer \in Seq(S) /\ Len(updates) \in Nat /\ Len(longer) = Len(updates) + 1
      /\ \A i \in 1 .. Len(updates) : longer[i] = updates[i]
      /\ longer[Len(updates) + 1] = last
  BY <1>1
<1>3. PICK N : N = Len(updates)  OBVIOUS
<1>4. PICK f : ReplayedUpTo(N, f, updates, start, policy) /\ ReplayUpdates(start, updates, policy) = f[N]  BY <1>3, ReplayedRuns
<1>5. PICK g : ReplayedUpTo(N + 1, g, longer, start, policy) /\ ReplayUpdates(start, longer, policy) = g[N + 1]
  <2>1. \E g : ReplayedUpTo(Len(longer), g, longer, start, policy) /\ ReplayUpdates(start, longer, policy) = g[Len(longer)]
    BY <1>2, ReplayedRuns
  <2> QED  BY <1>2, <1>3, <2>1
<1>6. N \in Nat  BY <1>2, <1>3
<1> DEFINE T == {n \in Nat : n <= N => g[n] = f[n]}
<1>7. 0 \in T  BY <1>4, <1>5 DEF ReplayedUpTo
<1>8. ASSUME NEW n \in Nat, n \in T PROVE n + 1 \in T
  <2> SUFFICES ASSUME n + 1 <= N PROVE g[n + 1] = f[n + 1]  OBVIOUS
  <2>1. n <= N /\ n + 1 \in 1 .. N /\ n + 1 \in 1 .. (N + 1) /\ (n + 1) - 1 = n  BY <1>6
  <2>2. g[n] = f[n]  BY <1>8, <2>1
  <2>3. longer[n + 1] = updates[n + 1]  BY <1>2, <1>3, <2>1
  <2>4. f[n + 1] = ReplayOps(f[(n + 1) - 1], updates[n + 1], policy)  BY <1>4, <2>1 DEF ReplayedUpTo
  <2>5. g[n + 1] = ReplayOps(g[(n + 1) - 1], longer[n + 1], policy)  BY <1>5, <2>1 DEF ReplayedUpTo
  <2> QED  BY <2>1, <2>2, <2>3, <2>4, <2>5
<1>9. g[N] = f[N]
  <2> HIDE DEF T
  <2>1. Nat \subseteq T  BY <1>7, <1>8, NumbersByInduction
  <2>2. N \in T /\ N <= N  BY <1>6, <2>1
  <2> QED  BY <2>2 DEF T
<1>10. N + 1 \in 1 .. (N + 1) /\ (N + 1) - 1 = N  BY <1>6
<1>11. g[N + 1] = ReplayOps(g[(N + 1) - 1], longer[N + 1], policy)  BY <1>5, <1>10 DEF ReplayedUpTo
<1> QED  BY <1>1, <1>2, <1>3, <1>4, <1>5, <1>9, <1>10, <1>11

\* A capture without updates.
LEMMA ReplayedNothing ==
  ASSUME NEW start, NEW policy
  PROVE  ReplayUpdates(start, <<>>, policy) = start
<1>1. PICK none : none = <<>>  OBVIOUS
<1>2. none \in Seq({}) /\ Len(none) = 0  BY <1>1
<1>3. PICK f : ReplayedUpTo(0, f, none, start, policy) /\ ReplayUpdates(start, none, policy) = f[0]
  <2>1. \E f : ReplayedUpTo(Len(none), f, none, start, policy) /\ ReplayUpdates(start, none, policy) = f[Len(none)]
    BY <1>2, ReplayedRuns
  <2> QED  BY <1>2, <2>1
<1> QED  BY <1>1, <1>3 DEF ReplayedUpTo

-----------------------------------------------------------------------------
(* What a message is counted as *)

\* Where a list has members of a set.
PlacesOf(list, kind) == {i \in DOMAIN list : list[i] \in kind}

CountIn(list, kind) == Cardinality(PlacesOf(list, kind))

\* A list with one more member.
Extended(list, last, longer) ==
    \E n \in Nat : /\ DOMAIN list = 1 .. n /\ DOMAIN longer = 1 .. (n + 1) /\ longer[n + 1] = last
                   /\ \A i \in 1 .. n : longer[i] = list[i]
LEMMA AppendExtends ==
  ASSUME NEW S, NEW list \in Seq(S), NEW last \in S
  PROVE  Extended(list, last, Append(list, last))
BY DEF Extended

\* One more member, one more place.
LEMMA OneMorePlace ==
  ASSUME NEW list, NEW last, NEW longer, Extended(list, last, longer), NEW kind
  PROVE  /\ CountIn(list, kind) \in Nat
         /\ last \in kind => CountIn(longer, kind) = CountIn(list, kind) + 1
         /\ last \notin kind => CountIn(longer, kind) = CountIn(list, kind)
<1>2. PICK n \in Nat : /\ DOMAIN list = 1 .. n /\ DOMAIN longer = 1 .. (n + 1) /\ longer[n + 1] = last
                       /\ \A i \in 1 .. n : longer[i] = list[i]
  BY DEF Extended
<1>3. PICK P : P = PlacesOf(list, kind)  OBVIOUS
<1>4. P \subseteq 1 .. n  BY <1>2, <1>3 DEF PlacesOf
<1>5. IsFiniteSet(1 .. n)  BY <1>2, FS_Interval
<1>6. IsFiniteSet(P)  BY <1>4, <1>5, FS_Subset
<1>7. Cardinality(P) \in Nat  BY <1>6, FS_CardinalityType
<1>8. \A i \in 1 .. (n + 1) : i \in 1 .. n \/ i = n + 1  BY <1>2
<1>9. n + 1 \notin P  BY <1>2, <1>4
<1>10. ASSUME last \in kind PROVE Cardinality(PlacesOf(longer, kind)) = Cardinality(P) + 1
  <2>1. PlacesOf(longer, kind) = P \cup {n + 1}  BY <1>2, <1>3, <1>8, <1>10 DEF PlacesOf
  <2> QED  BY <1>6, <1>9, <2>1, FS_AddElement
<1>11. ASSUME last \notin kind PROVE PlacesOf(longer, kind) = P
  BY <1>2, <1>3, <1>8, <1>11 DEF PlacesOf
<1> QED  BY <1>3, <1>7, <1>10, <1>11 DEF CountIn

\* The counts of a list of nothing.
LEMMA NoPlaces ==
  ASSUME NEW kind
  PROVE  CountIn(<<>>, kind) = 0
<1>1. PlacesOf(<<>>, kind) = {}  BY DEF PlacesOf
<1> QED  BY <1>1, FS_EmptySet DEF CountIn

\* The operations of a kind, and the diffs.
OfKind(kind) == {reasoned \in Reasoned : reasoned.op.kind = kind}
DiffsOfKinds(kinds) == {diff \in Diff : diff.kind \in kinds}
KindsIn(block, kinds) == CountIn(block, DiffsOfKinds(kinds))
NewIn(block) == KindsIn(block, {"new"})
SizesIn(block) == KindsIn(block, {"update", "modified"})
RemovesIn(block) == KindsIn(block, {"remove"})

\* The counts of the model, as places.
LEMMA CountsArePlaces ==
  ASSUME NEW batch \in Batch, NEW kind
  PROVE  CountOf(batch, kind) = CountIn(batch.ops, OfKind(kind))
<1>1. batch.ops \in Seq(Reasoned)  BY DEF Batch
<1>2. \A i \in DOMAIN batch.ops : batch.ops[i] \in Reasoned  BY <1>1
<1>3. PICK P : P = {i \in DOMAIN batch.ops : batch.ops[i].op.kind = kind}  OBVIOUS
<1>4. P = PlacesOf(batch.ops, OfKind(kind))  BY <1>2, <1>3 DEF PlacesOf, OfKind
<1>5. CountOf(batch, kind) = Cardinality(P)  BY <1>3 DEF CountOf
<1> QED  BY <1>4, <1>5 DEF CountIn
LEMMA LinesArePlaces ==
  ASSUME NEW line, line.kind = "Updates", line.diffs \in Seq(Diff), NEW kinds
  PROVE  InLine(line, kinds) = KindsIn(line.diffs, kinds)
<1>1. \A i \in DOMAIN line.diffs : line.diffs[i] \in Diff  OBVIOUS
<1>2. PICK P : P = {i \in DOMAIN line.diffs : line.diffs[i].kind \in kinds}  OBVIOUS
<1>3. P = PlacesOf(line.diffs, DiffsOfKinds(kinds))  BY <1>1, <1>2 DEF PlacesOf, DiffsOfKinds
<1>4. InLine(line, kinds) = Cardinality(P)  BY <1>2 DEF InLine
<1> QED  BY <1>3, <1>4 DEF KindsIn, CountIn

\* A reasoned operation.
LEMMA ReasonedOps ==
  ASSUME NEW op \in BookOp,
         NEW why \in {"New", "Remove", "Update", "Modified", "CompleteFillCollapsed"}, NEW told
  PROVE  reasoned_venue_op(op, why, told) \in Reasoned /\ reasoned_venue_op(op, why, told).op = op
BY DEF reasoned_venue_op, Reasoned

\* What the counts of a batch come to, whatever else is in it.
Counted4(batch, next, kind) ==
    \A k \in {"Add", "Remove", "UpdateSize", "AmendSize"} :
        CountOf(next, k) = CountOf(batch, k) + IF k = kind THEN 1 ELSE 0

\* One more operation is one more of its kind.
LEMMA EmitCounts ==
  ASSUME NEW batch \in Batch, NEW op \in BookOp,
         NEW why \in {"New", "Remove", "Update", "Modified", "CompleteFillCollapsed"}, NEW told,
         NEW next \in Batch, Emitted(batch, next, op, why, told)
  PROVE  Counted4(batch, next, op.kind) /\ Len(next.ops) = Len(batch.ops) + 1
<1>1. PICK r : r = reasoned_venue_op(op, why, told)  OBVIOUS
<1>2. r \in Reasoned /\ r.op = op  BY <1>1, ReasonedOps
<1>3. PICK ops : ops = batch.ops  OBVIOUS
<1>4. ops \in Seq(Reasoned) /\ next.ops = Append(ops, r)  BY <1>1, <1>3 DEF Emitted, Batch
<1>7. Extended(ops, r, next.ops)  BY <1>2, <1>4, AppendExtends
<1>5. ASSUME NEW k \in {"Add", "Remove", "UpdateSize", "AmendSize"}
      PROVE  CountOf(next, k) = CountOf(batch, k) + IF k = op.kind THEN 1 ELSE 0
  <2>1. CountOf(batch, k) = CountIn(ops, OfKind(k))  BY <1>3, CountsArePlaces
  <2>2. CountOf(next, k) = CountIn(next.ops, OfKind(k))  BY CountsArePlaces
  <2>3. r \in OfKind(k) <=> k = op.kind  BY <1>2 DEF OfKind
  <2>4. CountIn(ops, OfKind(k)) \in Nat  BY <1>7, OneMorePlace
  <2>5. CASE k = op.kind
    <3>0. r \in OfKind(k)  BY <2>3, <2>5
    <3>1. CountIn(next.ops, OfKind(k)) = CountIn(ops, OfKind(k)) + 1
      BY <1>7, <3>0, OneMorePlace
    <3> QED  BY <2>1, <2>2, <2>5, <3>1
  <2>6. CASE k # op.kind
    <3>0. r \notin OfKind(k)  BY <2>3, <2>6
    <3>1. CountIn(next.ops, OfKind(k)) = CountIn(ops, OfKind(k))
      BY <1>7, <3>0, OneMorePlace
    <3> QED  BY <2>1, <2>2, <2>4, <2>6, <3>1
  <2> QED  BY <2>5, <2>6
<1>6. Len(next.ops) = Len(ops) + 1  BY <1>2, <1>4
<1> QED  BY <1>3, <1>5, <1>6 DEF Counted4

\* The decoder's books balance: every diff is an operation or is counted.
\* Adds, removals, updates and amendments; skipped, collapsed and dropped; the
\* operations in all; new orders, removals and sizes.
Sums(a, r, u, m, skipped, full, twice, len, new, gone, sizes) ==
    /\ a + skipped = new
    /\ u + m + full = sizes
    /\ r + twice = gone + full
    /\ len = a + r + u + m
Sheet(block, batch) ==
    Sums(CountOf(batch, "Add"), CountOf(batch, "Remove"), CountOf(batch, "UpdateSize"),
         CountOf(batch, "AmendSize"), batch.unresolved_new, batch.collapsed_complete_fills,
         batch.dropped_duplicate_removes, Len(batch.ops), NewIn(block), RemovesIn(block), SizesIn(block))
CountsAreNumbers(batch) ==
    \A k \in {"Add", "Remove", "UpdateSize", "AmendSize"} : CountOf(batch, k) \in Nat
Balances(block, batch) == batch \in Batch /\ CountsAreNumbers(batch) /\ Sheet(block, batch)

\* One more diff is one more of its kind.
LEMMA KindsOnAppend ==
  ASSUME NEW block, NEW diff \in Diff, NEW longer, Extended(block, diff, longer), NEW kinds
  PROVE  /\ KindsIn(block, kinds) \in Nat
         /\ KindsIn(longer, kinds) = KindsIn(block, kinds) + IF diff.kind \in kinds THEN 1 ELSE 0
<1>1. PICK K : K = DiffsOfKinds(kinds)  OBVIOUS
<1>2. diff \in K <=> diff.kind \in kinds  BY <1>1 DEF DiffsOfKinds
<1>4. CountIn(block, K) \in Nat  BY OneMorePlace
<1>5. diff \in K => CountIn(longer, K) = CountIn(block, K) + 1  BY OneMorePlace
<1>6. diff \notin K => CountIn(longer, K) = CountIn(block, K)  BY OneMorePlace
<1> QED  BY <1>1, <1>2, <1>4, <1>5, <1>6 DEF KindsIn
LEMMA OneMoreOfAKind ==
  ASSUME NEW block \in Seq(Diff), NEW diff \in Diff, NEW longer, longer = Append(block, diff)
  PROVE  /\ NewIn(block) \in Nat /\ RemovesIn(block) \in Nat /\ SizesIn(block) \in Nat
         /\ NewIn(longer) = NewIn(block) + IF diff.kind = "new" THEN 1 ELSE 0
         /\ RemovesIn(longer) = RemovesIn(block) + IF diff.kind = "remove" THEN 1 ELSE 0
         /\ SizesIn(longer) = SizesIn(block) + IF diff.kind \in {"update", "modified"} THEN 1 ELSE 0
<1>0. Extended(block, diff, longer)  BY AppendExtends
<1>1. PICK K : K = {"new"}  OBVIOUS
<1>2. PICK R : R = {"remove"}  OBVIOUS
<1>3. PICK U : U = {"update", "modified"}  OBVIOUS
<1>4. KindsIn(block, K) \in Nat /\ KindsIn(longer, K) = KindsIn(block, K) + IF diff.kind \in K THEN 1 ELSE 0
  BY <1>0, KindsOnAppend
<1>5. KindsIn(block, R) \in Nat /\ KindsIn(longer, R) = KindsIn(block, R) + IF diff.kind \in R THEN 1 ELSE 0
  BY <1>0, KindsOnAppend
<1>6. KindsIn(block, U) \in Nat /\ KindsIn(longer, U) = KindsIn(block, U) + IF diff.kind \in U THEN 1 ELSE 0
  BY <1>0, KindsOnAppend
<1>7. NewIn(block) = KindsIn(block, K) /\ NewIn(longer) = KindsIn(longer, K)  BY <1>1 DEF NewIn
<1>8. RemovesIn(block) = KindsIn(block, R) /\ RemovesIn(longer) = KindsIn(longer, R)  BY <1>2 DEF RemovesIn
<1>9. SizesIn(block) = KindsIn(block, U) /\ SizesIn(longer) = KindsIn(longer, U)  BY <1>3 DEF SizesIn
<1> QED  BY <1>1, <1>2, <1>3, <1>4, <1>5, <1>6, <1>7, <1>8, <1>9

\* What the decoder counts besides its operations.
Tallied(batch, diff, told, next) ==
    /\ next.unresolved_new = batch.unresolved_new
         + IF diff.kind = "new" /\ diff.order.id \notin told THEN 1 ELSE 0
    /\ next.collapsed_complete_fills = batch.collapsed_complete_fills
         + IF Empties(diff) THEN 1 ELSE 0
    /\ next.dropped_duplicate_removes = batch.dropped_duplicate_removes
         + IF Removing(diff) /\ diff.oid \in batch.removed THEN 1 ELSE 0

\* The counters after a removal.
LEMMA RemovalTallied ==
  ASSUME NEW batch \in Batch, NEW oid \in OrderId, NEW told, NEW why,
         NEW next, next = EmitRemove(batch, oid, why, told)
  PROVE  /\ next.unresolved_new = batch.unresolved_new
         /\ next.collapsed_complete_fills = batch.collapsed_complete_fills
         /\ next.dropped_duplicate_removes = batch.dropped_duplicate_removes
              + IF oid \in batch.removed THEN 1 ELSE 0
<1>1. CASE oid \in batch.removed
  <2>1. next = [batch EXCEPT !.dropped_duplicate_removes = batch.dropped_duplicate_removes + 1]
    BY <1>1 DEF EmitRemove
  <2> QED  BY <1>1, <2>1 DEF Batch
<1>2. CASE oid \notin batch.removed
  <2>1. PICK r : r = reasoned_venue_op([kind |-> "Remove", id |-> oid], why, told)  OBVIOUS
  <2>2. PICK marked : marked = [batch EXCEPT !.removed = batch.removed \cup {oid}]  OBVIOUS
  <2>3. next = [marked EXCEPT !.ops = Append(marked.ops, r)]
    BY <1>2, <2>1, <2>2 DEF EmitRemove, Emit
  <2> QED  BY <1>2, <2>2, <2>3 DEF Batch
<1> QED  BY <1>1, <1>2

\* The counters after a size.
LEMMA SizeTallied ==
  ASSUME NEW batch \in Batch, NEW diff \in Diff, diff.kind \in {"update", "modified"}, NEW told,
         NEW kind, NEW why, NEW next, next = EmitSize(batch, kind, why, diff.oid, diff.sz, told)
  PROVE  Tallied(batch, diff, told, next)
<1>1. diff.sz \in Qty /\ diff.oid \in OrderId  BY DiffShapes
<1>2. Empties(diff) <=> parse_fixed(diff.sz) = 0  BY <1>1, Units DEF Empties, parse_fixed
<1>3. Removing(diff) <=> Empties(diff)  BY DEF Removing
<1>4. CASE Empties(diff)
  <2>1. PICK counted : counted = [batch EXCEPT !.collapsed_complete_fills
                                                = batch.collapsed_complete_fills + 1]  OBVIOUS
  <2>2. /\ counted \in Batch /\ counted.removed = batch.removed
        /\ counted.collapsed_complete_fills = batch.collapsed_complete_fills + 1
        /\ counted.unresolved_new = batch.unresolved_new
        /\ counted.dropped_duplicate_removes = batch.dropped_duplicate_removes
    BY <2>1 DEF Batch
  <2>3. next = EmitRemove(counted, diff.oid, "CompleteFillCollapsed", told)
    BY <1>2, <1>4, <2>1 DEF EmitSize
  <2>4. /\ next.unresolved_new = counted.unresolved_new
        /\ next.collapsed_complete_fills = counted.collapsed_complete_fills
        /\ next.dropped_duplicate_removes = counted.dropped_duplicate_removes
             + IF diff.oid \in counted.removed THEN 1 ELSE 0
    BY <1>1, <2>2, <2>3, RemovalTallied
  <2> QED  BY <1>3, <1>4, <2>2, <2>4 DEF Tallied, Batch
<1>5. CASE ~Empties(diff)
  <2>1. PICK r : r = reasoned_venue_op([kind |-> kind, id |-> diff.oid,
                                        new_qty |-> parse_fixed(diff.sz)], why, told)  OBVIOUS
  <2>2. next = [batch EXCEPT !.ops = Append(batch.ops, r)]  BY <1>2, <1>5, <2>1 DEF EmitSize, Emit
  <2> QED  BY <1>3, <1>5, <2>2 DEF Tallied, Batch
<1> QED  BY <1>4, <1>5

\* The counters after a diff (dwellir.rs:240-410).
LEMMA DiffTallied ==
  ASSUME NEW batch \in Batch, NEW diff \in Diff, NEW told,
         NEW next, next = DecodeDiff(batch, diff, told)
  PROVE  Tallied(batch, diff, told, next)
<1>1. CASE diff.kind = "new"
  <2>1. next = EmitNew(batch, diff.order, told)  BY <1>1 DEF DecodeDiff
  <2>2. ~Removing(diff) /\ ~Empties(diff)  BY <1>1 DEF Removing, Empties
  <2>3. CASE diff.order.id \notin told
    <3>1. next = [batch EXCEPT !.unresolved_new = batch.unresolved_new + 1]
      BY <2>1, <2>3 DEF EmitNew
    <3> QED  BY <1>1, <2>2, <2>3, <3>1 DEF Batch, Tallied
  <2>4. CASE diff.order.id \in told
    <3>1. PICK r : r = reasoned_venue_op([kind |-> "Add", order |-> parse_order(diff.order)],
                                         "New", told)  OBVIOUS
    <3>2. next = [batch EXCEPT !.ops = Append(batch.ops, r)]  BY <2>1, <2>4, <3>1 DEF EmitNew, Emit
    <3> QED  BY <1>1, <2>2, <2>4, <3>2 DEF Batch, Tallied
  <2> QED  BY <2>3, <2>4
<1>2. CASE diff.kind = "remove"
  <2>1. diff.oid \in OrderId  BY <1>2, DiffShapes
  <2>2. next = EmitRemove(batch, diff.oid, "Remove", told)  BY <1>2 DEF DecodeDiff
  <2>3. Removing(diff) /\ ~Empties(diff)  BY <1>2 DEF Removing, Empties
  <2>4. /\ next.unresolved_new = batch.unresolved_new
        /\ next.collapsed_complete_fills = batch.collapsed_complete_fills
        /\ next.dropped_duplicate_removes = batch.dropped_duplicate_removes
             + IF diff.oid \in batch.removed THEN 1 ELSE 0
    BY <2>1, <2>2, RemovalTallied
  <2> QED  BY <1>2, <2>3, <2>4 DEF Tallied, Batch
<1>3. CASE diff.kind \in {"update", "modified"}
  <2>1. next = EmitSize(batch, IF diff.kind = "update" THEN "UpdateSize" ELSE "AmendSize",
                        IF diff.kind = "update" THEN "Update" ELSE "Modified",
                        diff.oid, diff.sz, told)
    BY <1>3 DEF DecodeDiff
  <2> QED  BY <1>3, <2>1, SizeTallied
<1>4. CASE diff.kind = "unknown"
  <2>1. next = batch /\ ~Removing(diff) /\ ~Empties(diff)  BY <1>4 DEF DecodeDiff, Removing, Empties
  <2> QED  BY <1>4, <2>1 DEF Tallied, Batch
<1> QED  BY <1>1, <1>2, <1>3, <1>4, DiffShapes

\* A batch with the same operations has the same counts.
LEMMA SameCounts ==
  ASSUME NEW batch, NEW next, NothingEmitted(batch, next), NEW k
  PROVE  CountOf(next, k) = CountOf(batch, k) /\ Len(next.ops) = Len(batch.ops)
BY DEF NothingEmitted, CountOf

\* The books balance after every diff.
LEMMA OneBalanced ==
  ASSUME NEW block \in Seq(Diff), NEW batch, Balances(block, batch), NEW diff \in Diff, NEW told,
         NEW longer, longer = Append(block, diff), NEW next, next = DecodeDiff(batch, diff, told)
  PROVE  Balances(longer, next)
<1>1. batch \in Batch /\ CountsAreNumbers(batch) /\ Sheet(block, batch)  BY DEF Balances
<1>2. /\ next \in Batch
      /\ PassedOver(batch, diff, told) => NothingEmitted(batch, next)
      /\ ~PassedOver(batch, diff, told) => Emitted(batch, next, OpOf(diff), WhyOf(diff), told)
  BY <1>1, OneDecoded
<1>3. diff.kind \in {"new", "remove", "unknown", "update", "modified"}  BY DiffShapes
<1>4. Empties(diff) => diff.kind \in {"update", "modified"}  BY DEF Empties
<1>5. Removing(diff) <=> diff.kind = "remove" \/ Empties(diff)  BY DEF Removing
<1>6. PICK a, r, u, m : /\ a = CountOf(batch, "Add") /\ r = CountOf(batch, "Remove")
                        /\ u = CountOf(batch, "UpdateSize") /\ m = CountOf(batch, "AmendSize")
  OBVIOUS
<1>7. PICK w, f, t, l : /\ w = batch.unresolved_new /\ f = batch.collapsed_complete_fills
                        /\ t = batch.dropped_duplicate_removes /\ l = Len(batch.ops)
  OBVIOUS
<1>8. PICK n, g, s : n = NewIn(block) /\ g = RemovesIn(block) /\ s = SizesIn(block)  OBVIOUS
<1>9. /\ a \in Nat /\ r \in Nat /\ u \in Nat /\ m \in Nat /\ w \in Nat /\ f \in Nat
      /\ t \in Nat /\ l \in Nat /\ n \in Nat /\ g \in Nat /\ s \in Nat
  <2>1. a \in Nat /\ r \in Nat /\ u \in Nat /\ m \in Nat  BY <1>1, <1>6 DEF CountsAreNumbers
  <2>2. w \in Nat /\ f \in Nat /\ t \in Nat /\ l \in Nat  BY <1>1, <1>7 DEF Batch
  <2>3. n \in Nat /\ g \in Nat /\ s \in Nat  BY <1>8, OneMoreOfAKind
  <2> QED  BY <2>1, <2>2, <2>3
<1>10. Sums(a, r, u, m, w, f, t, l, n, g, s)  BY <1>1, <1>6, <1>7, <1>8 DEF Sheet
<1>11. /\ NewIn(longer) = n + IF diff.kind = "new" THEN 1 ELSE 0
       /\ RemovesIn(longer) = g + IF diff.kind = "remove" THEN 1 ELSE 0
       /\ SizesIn(longer) = s + IF diff.kind \in {"update", "modified"} THEN 1 ELSE 0
  BY <1>8, OneMoreOfAKind
<1>12. /\ next.unresolved_new = w + IF diff.kind = "new" /\ diff.order.id \notin told THEN 1 ELSE 0
       /\ next.collapsed_complete_fills = f + IF Empties(diff) THEN 1 ELSE 0
       /\ next.dropped_duplicate_removes = t + IF Removing(diff) /\ diff.oid \in batch.removed THEN 1 ELSE 0
  BY <1>1, <1>7, DiffTallied DEF Tallied
<1> DEFINE Came(da, dr, du, dm, dl) ==
             /\ CountOf(next, "Add") = a + da /\ CountOf(next, "Remove") = r + dr
             /\ CountOf(next, "UpdateSize") = u + du /\ CountOf(next, "AmendSize") = m + dm
             /\ Len(next.ops) = l + dl
           Noted(dw, df, dt) ==
             /\ next.unresolved_new = w + dw /\ next.collapsed_complete_fills = f + df
             /\ next.dropped_duplicate_removes = t + dt
           Heard(dn, dg, ds) ==
             NewIn(longer) = n + dn /\ RemovesIn(longer) = g + dg /\ SizesIn(longer) = s + ds
<1>13. ASSUME NEW da \in Nat, NEW dr \in Nat, NEW du \in Nat, NEW dm \in Nat, NEW dl \in Nat,
              NEW dw \in Nat, NEW df \in Nat, NEW dt \in Nat, NEW dn \in Nat, NEW dg \in Nat, NEW ds \in Nat,
              Came(da, dr, du, dm, dl), Noted(dw, df, dt), Heard(dn, dg, ds),
              da + dw = dn, du + dm + df = ds, dr + dt = dg + df, dl = da + dr + du + dm
       PROVE  Balances(longer, next)
  <2>1. Sums(a + da, r + dr, u + du, m + dm, w + dw, f + df, t + dt, l + dl, n + dn, g + dg, s + ds)
    BY <1>9, <1>10, <1>13 DEF Sums
  <2>2. Sheet(longer, next)  BY <1>13, <2>1 DEF Sheet
  <2>3. /\ CountOf(next, "Add") \in Nat /\ CountOf(next, "Remove") \in Nat
        /\ CountOf(next, "UpdateSize") \in Nat /\ CountOf(next, "AmendSize") \in Nat
    BY <1>9, <1>13
  <2> QED  BY <1>2, <2>2, <2>3 DEF Balances, CountsAreNumbers
<1>14. CASE PassedOver(batch, diff, told)
  <2>1. \/ diff.kind = "unknown"
        \/ diff.kind = "new" /\ diff.order.id \notin told
        \/ Removing(diff) /\ diff.oid \in batch.removed
    BY <1>14 DEF PassedOver
  <2>2. NothingEmitted(batch, next)  BY <1>2, <1>14
  <2>3. \A k : CountOf(next, k) = CountOf(batch, k)  BY <2>2, SameCounts
  <2>4. Len(next.ops) = Len(batch.ops)  BY <2>2, SameCounts
  <2>9. Came(0, 0, 0, 0, 0)  BY <1>6, <1>7, <1>9, <2>3, <2>4
  <2>5. CASE diff.kind = "unknown"
    <3>1. Came(0, 0, 0, 0, 0)  BY <2>9
    <3>2. Noted(0, 0, 0)  BY <1>4, <1>5, <1>9, <1>12, <2>1, <2>5
    <3>3. Heard(0, 0, 0)  BY <1>4, <1>9, <1>11, <2>5
    <3> HIDE DEF Came, Noted, Heard
    <3> QED  BY <1>13, <3>1, <3>2, <3>3
  <2>6. CASE diff.kind = "new" /\ diff.order.id \notin told
    <3>1. Came(0, 0, 0, 0, 0)  BY <2>9
    <3>2. Noted(1, 0, 0)  BY <1>4, <1>5, <1>9, <1>12, <2>1, <2>6
    <3>3. Heard(1, 0, 0)  BY <1>4, <1>9, <1>11, <2>6
    <3> HIDE DEF Came, Noted, Heard
    <3> QED  BY <1>13, <3>1, <3>2, <3>3
  <2>7. CASE diff.kind = "remove" /\ diff.oid \in batch.removed
    <3>1. Came(0, 0, 0, 0, 0)  BY <2>9
    <3>2. Noted(0, 0, 1)  BY <1>4, <1>5, <1>9, <1>12, <2>1, <2>7
    <3>3. Heard(0, 1, 0)  BY <1>4, <1>9, <1>11, <2>7
    <3> HIDE DEF Came, Noted, Heard
    <3> QED  BY <1>13, <3>1, <3>2, <3>3
  <2>8. CASE Empties(diff) /\ diff.oid \in batch.removed
    <3>1. Came(0, 0, 0, 0, 0)  BY <2>9
    <3>2. Noted(0, 1, 1)  BY <1>4, <1>5, <1>9, <1>12, <2>1, <2>8
    <3>3. Heard(0, 0, 1)  BY <1>4, <1>9, <1>11, <2>8
    <3> HIDE DEF Came, Noted, Heard
    <3> QED  BY <1>13, <3>1, <3>2, <3>3
  <2> QED  BY <1>5, <2>1, <2>5, <2>6, <2>7, <2>8
<1>15. CASE ~PassedOver(batch, diff, told)
  <2>1. diff.kind # "unknown" /\ ~(diff.kind = "new" /\ diff.order.id \notin told)
        /\ ~(Removing(diff) /\ diff.oid \in batch.removed)
    BY <1>15 DEF PassedOver
  <2>2. OpOf(diff) \in BookOp
        /\ WhyOf(diff) \in {"New", "Remove", "Update", "Modified", "CompleteFillCollapsed"}
    BY <2>1, OpsOfDiffs
  <2>3. Counted4(batch, next, OpOf(diff).kind) /\ Len(next.ops) = Len(batch.ops) + 1
    BY <1>1, <1>2, <1>15, <2>2, EmitCounts
  <2>9. /\ OpOf(diff).kind = "Add" => Came(1, 0, 0, 0, 1)
        /\ OpOf(diff).kind = "Remove" => Came(0, 1, 0, 0, 1)
        /\ OpOf(diff).kind = "UpdateSize" => Came(0, 0, 1, 0, 1)
        /\ OpOf(diff).kind = "AmendSize" => Came(0, 0, 0, 1, 1)
    BY <1>6, <1>7, <1>9, <2>3 DEF Counted4
  <2>4. CASE diff.kind = "new"
    <3>1. Came(1, 0, 0, 0, 1)  BY <1>4, <2>9, <2>4 DEF OpOf
    <3>2. Noted(0, 0, 0)  BY <1>4, <1>5, <1>9, <1>12, <2>1, <2>4
    <3>3. Heard(1, 0, 0)  BY <1>4, <1>9, <1>11, <2>4
    <3> HIDE DEF Came, Noted, Heard
    <3> QED  BY <1>13, <3>1, <3>2, <3>3
  <2>5. CASE diff.kind = "remove"
    <3>1. Came(0, 1, 0, 0, 1)  BY <1>4, <2>9, <2>5 DEF OpOf
    <3>2. Noted(0, 0, 0)  BY <1>4, <1>5, <1>9, <1>12, <2>1, <2>5
    <3>3. Heard(0, 1, 0)  BY <1>4, <1>9, <1>11, <2>5
    <3> HIDE DEF Came, Noted, Heard
    <3> QED  BY <1>13, <3>1, <3>2, <3>3
  <2>6. CASE Empties(diff)
    <3>1. Came(0, 1, 0, 0, 1)  BY <1>4, <2>9, <2>6 DEF OpOf
    <3>2. Noted(0, 1, 0)  BY <1>4, <1>5, <1>9, <1>12, <2>1, <2>6
    <3>3. Heard(0, 0, 1)  BY <1>4, <1>9, <1>11, <2>6
    <3> HIDE DEF Came, Noted, Heard
    <3> QED  BY <1>13, <3>1, <3>2, <3>3
  <2>7. CASE diff.kind = "update" /\ ~Empties(diff)
    <3>1. Came(0, 0, 1, 0, 1)  BY <1>4, <2>9, <2>7 DEF OpOf
    <3>2. Noted(0, 0, 0)  BY <1>4, <1>5, <1>9, <1>12, <2>1, <2>7
    <3>3. Heard(0, 0, 1)  BY <1>4, <1>9, <1>11, <2>7
    <3> HIDE DEF Came, Noted, Heard
    <3> QED  BY <1>13, <3>1, <3>2, <3>3
  <2>8. CASE diff.kind = "modified" /\ ~Empties(diff)
    <3>1. Came(0, 0, 0, 1, 1)  BY <1>4, <2>9, <2>8 DEF OpOf
    <3>2. Noted(0, 0, 0)  BY <1>4, <1>5, <1>9, <1>12, <2>1, <2>8
    <3>3. Heard(0, 0, 1)  BY <1>4, <1>9, <1>11, <2>8
    <3> HIDE DEF Came, Noted, Heard
    <3> QED  BY <1>13, <3>1, <3>2, <3>3
  <2> QED  BY <1>3, <1>4, <2>1, <2>4, <2>5, <2>6, <2>7, <2>8
<1> QED  BY <1>14, <1>15

\* They balance for every block of the venue's.
LEMMA BlocksBalance ==
  ASSUME NEW block \in Seq(Diff), NEW told
  PROVE  Balances(block, decode_updates_with_meta(block, told))
<1> DEFINE T == {d \in Seq(Diff) : Balances(d, decode_updates_with_meta(d, told))}
<1>1. <<>> \in T
  <2>1. PICK none : none = <<>>  OBVIOUS
  <2>2. PICK batch : batch = EmptyBatch  OBVIOUS
  <2>3. batch \in Batch /\ batch.ops = none  BY <2>1, <2>2, EmptySeq DEF EmptyBatch, Batch
  <2>4. \A k : CountOf(batch, k) = 0  BY <2>1, <2>3, CountsArePlaces, NoPlaces
  <2>5. \A kinds : KindsIn(none, kinds) = 0  BY <2>1, NoPlaces DEF KindsIn
  <2>6. NewIn(none) = 0 /\ RemovesIn(none) = 0 /\ SizesIn(none) = 0
    BY <2>5 DEF NewIn, RemovesIn, SizesIn
  <2>7. batch.unresolved_new = 0 /\ batch.collapsed_complete_fills = 0
        /\ batch.dropped_duplicate_removes = 0 /\ Len(batch.ops) = 0
    BY <2>2 DEF EmptyBatch
  <2>8. Sums(0, 0, 0, 0, 0, 0, 0, 0, 0, 0, 0)  BY DEF Sums
  <2>9. Sheet(none, batch)  BY <2>4, <2>6, <2>7, <2>8 DEF Sheet
  <2>10. Balances(none, batch)  BY <2>3, <2>4, <2>9 DEF Balances, CountsAreNumbers
  <2> QED  BY <2>1, <2>2, <2>10, DecodedNothing, EmptySeq
<1>2. ASSUME NEW d \in Seq(Diff), NEW x \in Diff, d \in T PROVE Append(d, x) \in T
  <2>1. decode_updates_with_meta(Append(d, x), told)
          = DecodeDiff(decode_updates_with_meta(d, told), x, told)
    BY DecodedOnAppend
  <2>2. Balances(d, decode_updates_with_meta(d, told))  BY <1>2
  <2>3. Balances(Append(d, x), decode_updates_with_meta(Append(d, x), told))
    BY <2>1, <2>2, OneBalanced
  <2>4. Append(d, x) \in Seq(Diff)  OBVIOUS
  <2> QED  BY <2>3, <2>4
<1>3. Seq(Diff) \subseteq T
  <2> HIDE DEF T
  <2> QED  BY <1>1, <1>2, ListsByInduction
<1> QED  BY <1>3

\* Counts of a block are numbers.
LEMMA KindsAreNumbers ==
  ASSUME NEW block \in Seq(Diff)
  PROVE  NewIn(block) \in Nat /\ RemovesIn(block) \in Nat /\ SizesIn(block) \in Nat
<1>3. \A kinds : KindsIn(block, kinds) \in Nat
  <2> SUFFICES ASSUME NEW kinds PROVE KindsIn(block, kinds) \in Nat  OBVIOUS
  <2>1. PICK P : P = PlacesOf(block, DiffsOfKinds(kinds))  OBVIOUS
  <2>2. PICK n : n = Len(block)  OBVIOUS
  <2>3. n \in Nat /\ P \subseteq 1 .. n  BY <2>1, <2>2 DEF PlacesOf
  <2>a. IsFiniteSet(1 .. n)  BY <2>3, FS_Interval
  <2>b. IsFiniteSet(P)  BY <2>a, <2>3, FS_Subset
  <2>4. Cardinality(P) \in Nat  BY <2>b, FS_CardinalityType
  <2> QED  BY <2>1, <2>4 DEF KindsIn, CountIn
<1> QED  BY <1>3 DEF NewIn, RemovesIn, SizesIn

-----------------------------------------------------------------------------
(* What a file is counted as *)

\* The lines that a capture may leave.
Line ==
    [kind: {"Skip"}]
      \cup [kind: {"Snapshot"}, orders: {orders \in Seq(WireOrder) : OnceEach(orders)}]
      \cup [kind: {"Updates"}, diffs: Seq(Diff), statuses: SUBSET OrderId]

LEMMA LineShapes ==
  ASSUME NEW line \in Line
  PROVE  \/ line.kind = "Skip"
         \/ line.kind = "Snapshot" /\ line.orders \in Seq(WireOrder) /\ OnceEach(line.orders)
         \/ line.kind = "Updates" /\ line.diffs \in Seq(Diff) /\ line.statuses \subseteq OrderId
BY DEF Line

Stats ==
    [lines: Nat, updates_messages: Nat, total_ops: Nat, adds: Nat, removes: Nat, size_updates: Nat,
     size_amends: Nat, unresolved_new: Nat, collapsed_complete_fills: Nat, dropped_duplicate_removes: Nat]
StatsSheet(lines, stats) ==
    Sums(stats.adds, stats.removes, stats.size_updates, stats.size_amends, stats.unresolved_new,
         stats.collapsed_complete_fills, stats.dropped_duplicate_removes, stats.total_ops,
         DiffsIn(lines, {"new"}), DiffsIn(lines, {"remove"}), DiffsIn(lines, {"update", "modified"}))
DiffsAreNumbers(lines) ==
    /\ DiffsIn(lines, {"new"}) \in Nat /\ DiffsIn(lines, {"remove"}) \in Nat
    /\ DiffsIn(lines, {"update", "modified"}) \in Nat
StatsBalance(lines, stats) == stats \in Stats /\ DiffsAreNumbers(lines) /\ StatsSheet(lines, stats)

\* Two of the numbers.
LEMMA OneOfEach ==
  ASSUME NEW stats \in Stats
  PROVE  stats.lines \in Nat /\ stats.updates_messages \in Nat
BY DEF Stats

\* Counting a line changes nothing else.
LEMMA OneMoreLine ==
  ASSUME NEW stats \in Stats
  PROVE  LET next == [stats EXCEPT !.lines = @ + 1]
         IN  /\ next \in Stats
             /\ next.adds = stats.adds /\ next.removes = stats.removes
             /\ next.size_updates = stats.size_updates /\ next.size_amends = stats.size_amends
             /\ next.unresolved_new = stats.unresolved_new
             /\ next.collapsed_complete_fills = stats.collapsed_complete_fills
             /\ next.dropped_duplicate_removes = stats.dropped_duplicate_removes
             /\ next.total_ops = stats.total_ops
<1>1. stats.lines \in Nat  BY DEF Stats
<1>2. PICK n : n = stats.lines + 1  OBVIOUS
<1>3. n \in Nat  BY <1>1, <1>2
<1>4. [stats EXCEPT !.lines = n] \in Stats  BY <1>3, Zenon DEF Stats
<1>5. /\ [stats EXCEPT !.lines = n].adds = stats.adds
      /\ [stats EXCEPT !.lines = n].removes = stats.removes
      /\ [stats EXCEPT !.lines = n].size_updates = stats.size_updates
      /\ [stats EXCEPT !.lines = n].size_amends = stats.size_amends
  BY DEF Stats
<1>6. /\ [stats EXCEPT !.lines = n].unresolved_new = stats.unresolved_new
      /\ [stats EXCEPT !.lines = n].collapsed_complete_fills = stats.collapsed_complete_fills
      /\ [stats EXCEPT !.lines = n].dropped_duplicate_removes = stats.dropped_duplicate_removes
      /\ [stats EXCEPT !.lines = n].total_ops = stats.total_ops
  BY DEF Stats
<1> QED  BY <1>2, <1>4, <1>5, <1>6

\* Equations add up.
LEMMA TwoAddUp ==
  ASSUME NEW a \in Nat, NEW b \in Nat, NEW c \in Nat, a + b = c,
         NEW da \in Nat, NEW db \in Nat, NEW dc \in Nat, da + db = dc
  PROVE  (a + da) + (b + db) = c + dc
OBVIOUS
LEMMA ThreeAddUp ==
  ASSUME NEW a \in Nat, NEW b \in Nat, NEW c \in Nat, NEW s \in Nat, a + b + c = s,
         NEW da \in Nat, NEW db \in Nat, NEW dc \in Nat, NEW ds \in Nat, da + db + dc = ds
  PROVE  (a + da) + (b + db) + (c + dc) = s + ds
OBVIOUS
LEMMA PairsAddUp ==
  ASSUME NEW a \in Nat, NEW b \in Nat, NEW c \in Nat, NEW s \in Nat, a + b = c + s,
         NEW da \in Nat, NEW db \in Nat, NEW dc \in Nat, NEW ds \in Nat, da + db = dc + ds
  PROVE  (a + da) + (b + db) = (c + dc) + (s + ds)
OBVIOUS
LEMMA FourAddUp ==
  ASSUME NEW a \in Nat, NEW b \in Nat, NEW c \in Nat, NEW e \in Nat, NEW s \in Nat, s = a + b + c + e,
         NEW da \in Nat, NEW db \in Nat, NEW dc \in Nat, NEW de \in Nat, NEW ds \in Nat,
         ds = da + db + dc + de
  PROVE  s + ds = (a + da) + (b + db) + (c + dc) + (e + de)
OBVIOUS

\* A line of no diffs.
LEMMA QuietLine ==
  ASSUME NEW lines \in Seq(Line), NEW line \in Line, line.kind # "Updates", NEW stats, StatsBalance(lines, stats),
         NEW next, next = [stats EXCEPT !.lines = @ + 1], NEW longer, longer = Append(lines, line)
  PROVE  StatsBalance(longer, next)
<1>1. \A kinds : DiffsIn(longer, kinds) = DiffsIn(lines, kinds) + 0
  BY CountedOnAppend DEF InLine
<1>2. DiffsAreNumbers(lines) /\ stats \in Stats /\ StatsSheet(lines, stats)  BY DEF StatsBalance
<1>3. /\ DiffsIn(longer, {"new"}) = DiffsIn(lines, {"new"})
      /\ DiffsIn(longer, {"remove"}) = DiffsIn(lines, {"remove"})
      /\ DiffsIn(longer, {"update", "modified"}) = DiffsIn(lines, {"update", "modified"})
  BY <1>1, <1>2 DEF DiffsAreNumbers
<1>4. /\ next \in Stats
      /\ next.adds = stats.adds /\ next.removes = stats.removes /\ next.size_updates = stats.size_updates
      /\ next.size_amends = stats.size_amends /\ next.unresolved_new = stats.unresolved_new
      /\ next.collapsed_complete_fills = stats.collapsed_complete_fills
      /\ next.dropped_duplicate_removes = stats.dropped_duplicate_removes
      /\ next.total_ops = stats.total_ops
  BY <1>2, OneMoreLine
<1>5. DiffsAreNumbers(longer)  BY <1>2, <1>3 DEF DiffsAreNumbers
<1>6. StatsSheet(longer, next)  BY <1>2, <1>3, <1>4 DEF StatsSheet
<1> QED  BY <1>4, <1>5, <1>6 DEF StatsBalance

\* A line of diffs (dwellir.rs:589-603).
CountsBlock(lines, line, stats, longer, next) ==
    /\ lines \in Seq(Line) /\ line \in Line /\ line.kind = "Updates" /\ StatsBalance(lines, stats)
    /\ next = accumulate_stats([stats EXCEPT !.lines = @ + 1],
                               decode_updates_with_meta(line.diffs, line.statuses))
    /\ longer = Append(lines, line)
LEMMA LineBalanced ==
  ASSUME NEW lines, NEW line, NEW stats, NEW longer, NEW next, CountsBlock(lines, line, stats, longer, next)
  PROVE  StatsBalance(longer, next)
<1>a. PICK counted : counted = [stats EXCEPT !.lines = @ + 1]  OBVIOUS
<1>b. PICK batch : batch = decode_updates_with_meta(line.diffs, line.statuses)  OBVIOUS
<1>0. /\ lines \in Seq(Line) /\ line \in Line /\ line.kind = "Updates" /\ StatsBalance(lines, stats)
      /\ next = accumulate_stats(counted, batch) /\ longer = Append(lines, line)
  BY <1>a, <1>b DEF CountsBlock
<1>1. line.diffs \in Seq(Diff)  BY <1>0, LineShapes
<1>2. DiffsAreNumbers(lines) /\ stats \in Stats /\ StatsSheet(lines, stats)  BY <1>0 DEF StatsBalance
<1>3. Balances(line.diffs, batch)  BY <1>1, <1>b, BlocksBalance
<1>4. PICK a, r, u, m : /\ a = stats.adds /\ r = stats.removes
                        /\ u = stats.size_updates /\ m = stats.size_amends
  OBVIOUS
<1>5. PICK w, f, t, l : /\ w = stats.unresolved_new /\ f = stats.collapsed_complete_fills
                        /\ t = stats.dropped_duplicate_removes /\ l = stats.total_ops
  OBVIOUS
<1>6. PICK n, g, s : /\ n = DiffsIn(lines, {"new"}) /\ g = DiffsIn(lines, {"remove"})
                     /\ s = DiffsIn(lines, {"update", "modified"})
  OBVIOUS
<1>7. PICK da, dr, du, dm : /\ da = CountOf(batch, "Add") /\ dr = CountOf(batch, "Remove")
                            /\ du = CountOf(batch, "UpdateSize") /\ dm = CountOf(batch, "AmendSize")
  OBVIOUS
<1>8. PICK dw, df, dt, dl : /\ dw = batch.unresolved_new /\ df = batch.collapsed_complete_fills
                            /\ dt = batch.dropped_duplicate_removes /\ dl = Len(batch.ops)
  OBVIOUS
<1>9. PICK dn, dg, ds : dn = NewIn(line.diffs) /\ dg = RemovesIn(line.diffs) /\ ds = SizesIn(line.diffs)
  OBVIOUS
<1>10. /\ a \in Nat /\ r \in Nat /\ u \in Nat /\ m \in Nat /\ w \in Nat /\ f \in Nat /\ t \in Nat /\ l \in Nat
  BY <1>2, <1>4, <1>5 DEF Stats
<1>11. n \in Nat /\ g \in Nat /\ s \in Nat  BY <1>2, <1>6 DEF DiffsAreNumbers
<1>12. da \in Nat /\ dr \in Nat /\ du \in Nat /\ dm \in Nat  BY <1>3, <1>7 DEF Balances, CountsAreNumbers
<1>13. dw \in Nat /\ df \in Nat /\ dt \in Nat /\ dl \in Nat  BY <1>3, <1>8 DEF Balances, Batch
<1>14. dn \in Nat /\ dg \in Nat /\ ds \in Nat
  BY <1>1, <1>9, KindsAreNumbers
<1>15. Sums(a, r, u, m, w, f, t, l, n, g, s)  BY <1>2, <1>4, <1>5, <1>6 DEF StatsSheet
<1>16. Sums(da, dr, du, dm, dw, df, dt, dl, dn, dg, ds)  BY <1>3, <1>7, <1>8, <1>9 DEF Balances, Sheet
<1>17. Sums(a + da, r + dr, u + du, m + dm, w + dw, f + df, t + dt, l + dl, n + dn, g + dg, s + ds)
  <2>1. (a + da) + (w + dw) = n + dn
    <3>1. a + w = n /\ da + dw = dn  BY <1>15, <1>16 DEF Sums
    <3> QED  BY <3>1, <1>10, <1>11, <1>12, <1>13, <1>14, TwoAddUp
  <2>2. (u + du) + (m + dm) + (f + df) = s + ds
    <3>1. u + m + f = s /\ du + dm + df = ds  BY <1>15, <1>16 DEF Sums
    <3> QED  BY <3>1, <1>10, <1>11, <1>12, <1>13, <1>14, ThreeAddUp
  <2>3. (r + dr) + (t + dt) = (g + dg) + (f + df)
    <3>1. r + t = g + f /\ dr + dt = dg + df  BY <1>15, <1>16 DEF Sums
    <3> QED  BY <3>1, <1>10, <1>11, <1>12, <1>13, <1>14, PairsAddUp
  <2>4. l + dl = (a + da) + (r + dr) + (u + du) + (m + dm)
    <3>1. l = a + r + u + m /\ dl = da + dr + du + dm  BY <1>15, <1>16 DEF Sums
    <3> QED  BY <3>1, <1>10, <1>11, <1>12, <1>13, <1>14, FourAddUp
  <2> QED  BY <2>1, <2>2, <2>3, <2>4 DEF Sums
<1>18. \A kinds : DiffsIn(longer, kinds) = DiffsIn(lines, kinds) + KindsIn(line.diffs, kinds)
  BY <1>0, <1>1, CountedOnAppend, LinesArePlaces
<1>19. /\ DiffsIn(longer, {"new"}) = n + dn /\ DiffsIn(longer, {"remove"}) = g + dg
       /\ DiffsIn(longer, {"update", "modified"}) = s + ds
  BY <1>6, <1>9, <1>18 DEF NewIn, RemovesIn, SizesIn
<1>c. /\ counted \in Stats
      /\ counted.adds = a /\ counted.removes = r /\ counted.size_updates = u
      /\ counted.size_amends = m /\ counted.unresolved_new = w
      /\ counted.collapsed_complete_fills = f /\ counted.dropped_duplicate_removes = t
      /\ counted.total_ops = l
  BY <1>a, <1>2, <1>4, <1>5, OneMoreLine
<1>20. PICK a2, r2, u2, m2 : a2 = a + da /\ r2 = r + dr /\ u2 = u + du /\ m2 = m + dm  OBVIOUS
<1>d. PICK w2, f2, t2, l2 : w2 = w + dw /\ f2 = f + df /\ t2 = t + dt /\ l2 = l + dl  OBVIOUS
<1>e. PICK k, y : k = counted.updates_messages + 1 /\ y = counted.lines  OBVIOUS
<1>f. /\ a2 \in Nat /\ r2 \in Nat /\ u2 \in Nat /\ m2 \in Nat /\ w2 \in Nat /\ f2 \in Nat
      /\ t2 \in Nat /\ l2 \in Nat
  <2>1. \A p, q \in Nat : p + q \in Nat  OBVIOUS
  <2> QED  BY <2>1, <1>20, <1>d, <1>10, <1>12, <1>13, Zenon
<1>g. k \in Nat /\ y \in Nat
  <2>1. counted.updates_messages \in Nat /\ counted.lines \in Nat  BY <1>c, OneOfEach
  <2> QED  BY <2>1, <1>e
<1>h. next = [lines |-> y, updates_messages |-> k, total_ops |-> l2, adds |-> a2, removes |-> r2,
              size_updates |-> u2, size_amends |-> m2, unresolved_new |-> w2,
              collapsed_complete_fills |-> f2, dropped_duplicate_removes |-> t2]
  BY <1>0, <1>20, <1>d, <1>e, <1>c, <1>7, <1>8, Zenon DEF accumulate_stats
<1>21. next \in Stats
  BY <1>f, <1>g, <1>h DEF Stats
<1>22. StatsSheet(longer, next)
  <2>1. /\ next.adds = a2 /\ next.removes = r2 /\ next.size_updates = u2 /\ next.size_amends = m2
        /\ next.unresolved_new = w2 /\ next.collapsed_complete_fills = f2
        /\ next.dropped_duplicate_removes = t2 /\ next.total_ops = l2
    BY <1>h
  <2> QED  BY <1>17, <1>19, <2>1, <1>20, <1>d DEF StatsSheet
<1>23. DiffsAreNumbers(longer)  BY <1>11, <1>14, <1>19 DEF DiffsAreNumbers
<1> QED  BY <1>21, <1>22, <1>23 DEF StatsBalance

-----------------------------------------------------------------------------
(* What a file is loaded as *)

Capture == [snapshot: Seq(Order), updates: Seq(Seq(Reasoned)), stats: Stats]
LoadedWell(lines, capture) == capture \in Capture /\ StatsBalance(lines, capture.stats)

\* What the lines add: snapshots to the one list, operations as a message.
Grows3(capture, line, next) ==
    /\ line.kind = "Skip" => next.snapshot = capture.snapshot /\ next.updates = capture.updates
    /\ line.kind = "Snapshot" =>
         /\ next.snapshot = capture.snapshot \o decode_snapshot(line.orders)
         /\ next.updates = capture.updates
    /\ line.kind = "Updates" =>
         /\ next.snapshot = capture.snapshot
         /\ next.updates = Append(capture.updates,
                                  decode_updates_with_meta(line.diffs, line.statuses).ops)

\* A list of the wire, in the book's units.
LEMMA ListsDecode ==
  ASSUME NEW orders \in Seq(WireOrder)
  PROVE  decode_snapshot(orders) \in Seq(Order)
<1>1. PICK n : n = Len(orders)  OBVIOUS
<1>2. n \in Nat /\ DOMAIN orders = 1 .. n  BY <1>1
<1>3. \A i \in 1 .. n : parse_order(orders[i]) \in Order
  <2> SUFFICES ASSUME NEW i \in 1 .. n PROVE parse_order(orders[i]) \in Order  OBVIOUS
  <2>1. orders[i] \in WireOrder  BY <1>2
  <2> QED  BY <2>1, WireOrders
<1>4. decode_snapshot(orders) = [i \in 1 .. n |-> parse_order(orders[i])]
  BY <1>2 DEF decode_snapshot
<1>5. [i \in 1 .. n |-> parse_order(orders[i])] \in [1 .. n -> Order]  BY <1>3
<1>6. \A f \in [1 .. n -> Order] : f \in Seq(Order)  BY <1>2
<1> QED  BY <1>4, <1>5, <1>6

\* One more line (dwellir.rs:517-587).
LEMMA OneLoaded ==
  ASSUME NEW lines \in Seq(Line), NEW line \in Line, NEW capture, LoadedWell(lines, capture),
         NEW next, next = AddLine(capture, line)
  PROVE  LoadedWell(Append(lines, line), next) /\ Grows3(capture, line, next)
<1>1. PICK longer : longer = Append(lines, line)  OBVIOUS
<1>2. PICK stats : stats = capture.stats  OBVIOUS
<1>3. PICK counted : counted = [stats EXCEPT !.lines = @ + 1]  OBVIOUS
<1>4. capture \in Capture /\ stats \in Stats /\ StatsBalance(lines, stats)
  BY <1>2 DEF LoadedWell, Capture
<1>5. PICK s, m : s = capture.snapshot /\ m = capture.updates  OBVIOUS
<1>6. s \in Seq(Order) /\ m \in Seq(Seq(Reasoned))  BY <1>4, <1>5 DEF Capture
<1>7. [capture EXCEPT !.stats.lines = @ + 1] = [snapshot |-> s, updates |-> m, stats |-> counted]
  <2>1. capture = [snapshot |-> s, updates |-> m, stats |-> stats]
    BY <1>2, <1>4, <1>5 DEF Capture
  <2>2. [capture EXCEPT !.stats.lines = @ + 1]
          = [capture EXCEPT !.stats = [stats EXCEPT !.lines = stats.lines + 1]]
    BY <1>2, Zenon
  <2>3. [capture EXCEPT !.stats.lines = @ + 1] = [capture EXCEPT !.stats = counted]
    BY <2>2, <1>3, Zenon
  <2>4. [capture EXCEPT !.stats = counted] = [snapshot |-> s, updates |-> m, stats |-> counted]
    BY <2>1
  <2> QED  BY <2>3, <2>4
<1>8. CASE line.kind = "Skip"
  <2>1. next = [snapshot |-> s, updates |-> m, stats |-> counted]
    BY <1>7, <1>8 DEF AddLine
  <2>2. StatsBalance(longer, counted)  BY <1>1, <1>3, <1>4, <1>8, QuietLine
  <2>3. counted \in Stats  BY <2>2 DEF StatsBalance
  <2>4. next \in Capture /\ next.stats = counted /\ next.snapshot = s /\ next.updates = m
    BY <2>1, <2>3, <1>6 DEF Capture
  <2> QED  BY <2>2, <2>4, <1>1, <1>5, <1>8 DEF LoadedWell, Grows3
<1>9. CASE line.kind = "Snapshot"
  <2>1. PICK cut : cut = decode_snapshot(line.orders)  OBVIOUS
  <2>2. cut \in Seq(Order)  BY <2>1, <1>9, LineShapes, ListsDecode
  <2>3. next = [snapshot |-> s \o cut, updates |-> m, stats |-> counted]
    BY <2>1, <1>7, <1>9 DEF AddLine, AddSnapshot
  <2>4. StatsBalance(longer, counted)  BY <1>1, <1>3, <1>4, <1>9, QuietLine
  <2>5. counted \in Stats  BY <2>4 DEF StatsBalance
  <2>6. next \in Capture /\ next.stats = counted /\ next.snapshot = s \o cut /\ next.updates = m
    BY <2>2, <2>3, <2>5, <1>6 DEF Capture
  <2> QED  BY <2>1, <2>4, <2>6, <1>1, <1>5, <1>9 DEF LoadedWell, Grows3
<1>10. CASE line.kind = "Updates"
  <2>1. PICK batch : batch = decode_updates_with_meta(line.diffs, line.statuses)  OBVIOUS
  <2>2. batch \in Batch  BY <2>1, <1>10, LineShapes, BlocksDecode
  <2>3. PICK ops : ops = batch.ops  OBVIOUS
  <2>4. ops \in Seq(Reasoned)  BY <2>2, <2>3 DEF Batch
  <2>5. PICK after : after = accumulate_stats(counted, batch)  OBVIOUS
  <2>6. next = [snapshot |-> s, updates |-> Append(m, ops), stats |-> after]
    BY <2>1, <2>3, <2>5, <1>7, <1>10 DEF AddLine, AddUpdates
  <2>7. CountsBlock(lines, line, stats, longer, after)
    BY <2>1, <2>5, <1>1, <1>3, <1>4, <1>10, Zenon DEF CountsBlock
  <2>8. StatsBalance(longer, after)  BY <2>7, LineBalanced
  <2>9. after \in Stats  BY <2>8 DEF StatsBalance
  <2>10. /\ next \in Capture /\ next.stats = after /\ next.snapshot = s
         /\ next.updates = Append(m, ops)
    BY <2>4, <2>6, <2>9, <1>6 DEF Capture
  <2> QED  BY <2>1, <2>3, <2>8, <2>10, <1>1, <1>5, <1>10 DEF LoadedWell, Grows3
<1> QED  BY <1>8, <1>9, <1>10, LineShapes

\* Every file.
LEMMA FilesLoad ==
  ASSUME NEW lines \in Seq(Line)
  PROVE  LoadedWell(lines, load_capture_with_meta(lines))
<1> DEFINE T == {l \in Seq(Line) : LoadedWell(l, load_capture_with_meta(l))}
<1>1. <<>> \in T
  <2>1. PICK none : none = <<>>  OBVIOUS
  <2>2. none \in Seq(Order) /\ none \in Seq(Seq(Reasoned)) /\ none \in Seq(Line)
    BY <2>1, EmptySeq
  <2>3. NoStats \in Stats  BY DEF NoStats, Stats
  <2>4. EmptyCapture \in Capture  BY <2>1, <2>2, <2>3 DEF EmptyCapture, Capture
  <2>5. \A kinds : DiffsIn(none, kinds) = 0  BY <2>1, CountedNothing
  <2>6. DiffsAreNumbers(none)  BY <2>5 DEF DiffsAreNumbers
  <2>7. Sums(0, 0, 0, 0, 0, 0, 0, 0, 0, 0, 0)  BY DEF Sums
  <2>8. StatsSheet(none, NoStats)  BY <2>5, <2>7 DEF StatsSheet, NoStats
  <2>9. EmptyCapture.stats = NoStats  BY DEF EmptyCapture
  <2>10. LoadedWell(none, EmptyCapture)
    BY <2>3, <2>4, <2>6, <2>8, <2>9 DEF LoadedWell, StatsBalance
  <2> QED  BY <2>1, <2>2, <2>10, LoadedLinesNothing
<1>2. ASSUME NEW l \in Seq(Line), NEW x \in Line, l \in T PROVE Append(l, x) \in T
  <2>1. load_capture_with_meta(Append(l, x)) = AddLine(load_capture_with_meta(l), x)
    BY LoadedLinesOnAppend
  <2>2. LoadedWell(l, load_capture_with_meta(l))  BY <1>2
  <2>3. LoadedWell(Append(l, x), load_capture_with_meta(Append(l, x)))
    BY <2>1, <2>2, OneLoaded
  <2>4. Append(l, x) \in Seq(Line)  OBVIOUS
  <2> QED  BY <2>3, <2>4
<1>3. Seq(Line) \subseteq T
  <2> HIDE DEF T
  <2> QED  BY <1>1, <1>2, ListsByInduction
<1> QED  BY <1>3

\* The operations of the lines, without their causes.
LineOps(line) == Plain(decode_updates_with_meta(line.diffs, line.statuses))
Causeless(ops) == [i \in DOMAIN ops |-> ops[i].op]

\* What load_capture hands over, line by line.
LoadGrows(lines, line, longer) ==
    /\ line.kind = "Skip" =>
         /\ load_capture(longer).snapshot = load_capture(lines).snapshot
         /\ load_capture(longer).updates = load_capture(lines).updates
    /\ line.kind = "Snapshot" =>
         /\ load_capture(longer).snapshot
              = load_capture(lines).snapshot \o decode_snapshot(line.orders)
         /\ load_capture(longer).updates = load_capture(lines).updates
    /\ line.kind = "Updates" =>
         /\ load_capture(longer).snapshot = load_capture(lines).snapshot
         /\ load_capture(longer).updates = Append(load_capture(lines).updates, LineOps(line))
LoadTyped(lines) ==
    /\ load_capture(lines).snapshot \in Seq(Order)
    /\ load_capture(lines).updates \in Seq(Seq(BookOp))

\* Operations without their causes are operations.
LEMMA CauselessOps ==
  ASSUME NEW ops \in Seq(Reasoned)
  PROVE  Causeless(ops) \in Seq(BookOp) /\ Len(Causeless(ops)) = Len(ops)
<1>1. PICK n : n = Len(ops)  OBVIOUS
<1>2. n \in Nat /\ DOMAIN ops = 1 .. n  BY <1>1
<1>3. \A i \in 1 .. n : ops[i].op \in BookOp
  <2> SUFFICES ASSUME NEW i \in 1 .. n PROVE ops[i].op \in BookOp  OBVIOUS
  <2>1. ops[i] \in Reasoned  BY <1>2
  <2> QED  BY <2>1 DEF Reasoned
<1>4. Causeless(ops) = [i \in 1 .. n |-> ops[i].op]  BY <1>2 DEF Causeless
<1>5. [i \in 1 .. n |-> ops[i].op] \in [1 .. n -> BookOp]  BY <1>3
<1>6. \A f \in [1 .. n -> BookOp] : f \in Seq(BookOp) /\ Len(f) = n  BY <1>2
<1> QED  BY <1>1, <1>4, <1>5, <1>6

\* A capture without causes.
Bare(capture) ==
    [capture EXCEPT !.updates = [m \in DOMAIN @ |-> [i \in DOMAIN @[m] |-> @[m][i].op]]]
LEMMA LoadsAre ==
  ASSUME NEW lines \in Seq(Line), NEW c, c = load_capture_with_meta(lines)
  PROVE  /\ load_capture(lines).snapshot = c.snapshot
         /\ load_capture(lines).stats = c.stats
         /\ load_capture(lines).updates = [m \in DOMAIN c.updates |-> Causeless(c.updates[m])]
<1>1. c \in Capture  BY FilesLoad DEF LoadedWell
<1>2. PICK u : u = c.updates  OBVIOUS
<1>3. load_capture(lines)
        = [c EXCEPT !.updates = [m \in DOMAIN u |-> [i \in DOMAIN u[m] |-> u[m][i].op]]]
  BY <1>2 DEF load_capture
<1>4. PICK w : w = [m \in DOMAIN u |-> Causeless(u[m])]  OBVIOUS
<1>5. w = [m \in DOMAIN u |-> [i \in DOMAIN u[m] |-> u[m][i].op]]  BY <1>4 DEF Causeless
<1>6. load_capture(lines) = [c EXCEPT !.updates = w]  BY <1>3, <1>5
<1> QED  BY <1>1, <1>2, <1>4, <1>6 DEF Capture

\* Messages without their causes.
LEMMA CauselessMessages ==
  ASSUME NEW u \in Seq(Seq(Reasoned)), NEW ops \in Seq(Reasoned), NEW longer, longer = Append(u, ops),
         NEW w, w = [m \in DOMAIN u |-> Causeless(u[m])]
  PROVE  /\ w \in Seq(Seq(BookOp))
         /\ [m \in DOMAIN longer |-> Causeless(longer[m])] = Append(w, Causeless(ops))
<1>1. PICK n : n = Len(u)  OBVIOUS
<1>2. n \in Nat /\ DOMAIN u = 1 .. n  BY <1>1
<1>3. \A m \in 1 .. n : Causeless(u[m]) \in Seq(BookOp)
  <2> SUFFICES ASSUME NEW m \in 1 .. n PROVE Causeless(u[m]) \in Seq(BookOp)  OBVIOUS
  <2>1. u[m] \in Seq(Reasoned)  BY <1>2
  <2> QED  BY <2>1, CauselessOps
<1>4. w \in [1 .. n -> Seq(BookOp)]  BY <1>2, <1>3
<1>5. w \in Seq(Seq(BookOp)) /\ Len(w) = n  BY <1>2, <1>4
<1>6. PICK plain : plain = Causeless(ops)  OBVIOUS
<1>7. plain \in Seq(BookOp)  BY <1>6, CauselessOps
<1>8. DOMAIN longer = 1 .. (n + 1) /\ longer[n + 1] = ops
  BY <1>1
<1>9. \A m \in 1 .. n : longer[m] = u[m]  BY <1>1
<1>10. PICK z : z = Append(w, plain)  OBVIOUS
<1>11. z \in Seq(Seq(BookOp)) /\ Len(z) = n + 1 /\ z[n + 1] = plain
  BY <1>5, <1>7, <1>10
<1>12. \A m \in 1 .. n : z[m] = w[m]  BY <1>5, <1>10
<1>13. z = [m \in 1 .. (n + 1) |-> z[m]]  BY <1>11
<1>14. \A m \in 1 .. (n + 1) : z[m] = Causeless(longer[m])
  <2> SUFFICES ASSUME NEW m \in 1 .. (n + 1) PROVE z[m] = Causeless(longer[m])  OBVIOUS
  <2>1. CASE m = n + 1  BY <2>1, <1>6, <1>8, <1>11
  <2>2. CASE m # n + 1
    <3>1. m \in 1 .. n  BY <2>2, <1>2
    <3>2. w[m] = Causeless(u[m])  BY <3>1, <1>2
    <3> QED  BY <3>1, <3>2, <1>9, <1>12
  <2> QED  BY <2>1, <2>2
<1>15. z = [m \in DOMAIN longer |-> Causeless(longer[m])]  BY <1>8, <1>13, <1>14
<1> QED  BY <1>5, <1>6, <1>10, <1>15

\* The capture grows as the file does.
LEMMA LoadsGrow ==
  ASSUME NEW lines \in Seq(Line), NEW line \in Line
  PROVE  LoadTyped(lines) /\ LoadGrows(lines, line, Append(lines, line))
<1>1. PICK longer : longer = Append(lines, line)  OBVIOUS
<1>2. PICK c : c = load_capture_with_meta(lines)  OBVIOUS
<1>3. PICK d : d = load_capture_with_meta(longer)  OBVIOUS
<1>4. longer \in Seq(Line)  BY <1>1
<1>5. d = AddLine(c, line)  BY <1>1, <1>2, <1>3, LoadedLinesOnAppend
<1>6. LoadedWell(lines, c)  BY <1>2, FilesLoad
<1>7. Grows3(c, line, d)  BY <1>5, <1>6, OneLoaded
<1>8. c \in Capture  BY <1>6 DEF LoadedWell
<1>9. PICK u : u = c.updates  OBVIOUS
<1>10. PICK w : w = [m \in DOMAIN u |-> Causeless(u[m])]  OBVIOUS
<1>11. c.snapshot \in Seq(Order) /\ u \in Seq(Seq(Reasoned))  BY <1>8, <1>9 DEF Capture
<1>12. PICK z : z = [m \in DOMAIN d.updates |-> Causeless(d.updates[m])]  OBVIOUS
<1>13. /\ load_capture(lines).snapshot = c.snapshot /\ load_capture(lines).updates = w
       /\ load_capture(longer).snapshot = d.snapshot /\ load_capture(longer).updates = z
  <2>1. load_capture(lines).snapshot = c.snapshot /\ load_capture(lines).updates = w
    BY <1>2, <1>9, <1>10, LoadsAre
  <2>2. load_capture(longer).snapshot = d.snapshot /\ load_capture(longer).updates = z
    BY <1>3, <1>4, <1>12, LoadsAre
  <2> QED  BY <2>1, <2>2
<1>14. w \in Seq(Seq(BookOp))
  <2>1. <<>> \in Seq(Reasoned)  BY EmptySeq
  <2> QED  BY <2>1, <1>10, <1>11, CauselessMessages
<1>15. LoadTyped(lines)  BY <1>11, <1>13, <1>14 DEF LoadTyped
<1>16. ASSUME line.kind = "Updates" PROVE z = Append(w, LineOps(line))
  <2>1. PICK batch : batch = decode_updates_with_meta(line.diffs, line.statuses)  OBVIOUS
  <2>2. batch \in Batch  BY <2>1, <1>16, LineShapes, BlocksDecode
  <2>3. PICK ops : ops = batch.ops  OBVIOUS
  <2>4. ops \in Seq(Reasoned)  BY <2>2, <2>3 DEF Batch
  <2>5. d.updates = Append(u, ops)  BY <2>1, <2>3, <1>7, <1>9, <1>16 DEF Grows3
  <2>6. z = Append(w, Causeless(ops))  BY <2>4, <2>5, <1>10, <1>11, <1>12, CauselessMessages
  <2>7. LineOps(line) = Causeless(ops)
    BY <2>1, <2>3 DEF LineOps, Plain, strip_update_batch, Causeless
  <2> QED  BY <2>6, <2>7
<1>17. ASSUME line.kind # "Updates" PROVE z = w
  <2>1. d.updates = u  BY <1>7, <1>9, <1>17, LineShapes DEF Grows3
  <2> QED  BY <2>1, <1>10, <1>12
<1>18. LoadGrows(lines, line, longer)
  BY <1>7, <1>13, <1>16, <1>17 DEF LoadGrows, Grows3
<1> QED  BY <1>1, <1>15, <1>18

-----------------------------------------------------------------------------
(* Every operation has one outcome *)

OutcomeKind == {"Applied", "Skipped", "Coerced", "Error"}

\* A replay with a result r that has counted n operations.
Tally(r, run, n) ==
    \E b : \E o \in [OutcomeKind -> Nat] :
        /\ run = [result |-> r, book |-> b, outcomes |-> o]
        /\ n = o["Applied"] + o["Skipped"] + o["Coerced"] + o["Error"]

\* The outcomes of an operation (book.rs:226-313).
LEMMA FourOutcomes ==
  ASSUME NEW b, NEW op, NEW policy
  PROVE  apply_op_with_policy(b, op, policy).outcome \in OutcomeKind
<1>1. \A x, k, why : Outcome(x, k, why).outcome = k  BY DEF Outcome
<1>2. \A call : \A k \in OutcomeKind : Answered(call, k).outcome \in OutcomeKind
  BY <1>1 DEF Answered, OutcomeKind
<1>3. \A x, t, why, e : Tolerated(x, t, why, e).outcome \in OutcomeKind
  BY <1>1 DEF Tolerated, OutcomeKind
<1>4. "Applied" \in OutcomeKind /\ "Coerced" \in OutcomeKind  BY DEF OutcomeKind
<1> QED  BY <1>2, <1>3, <1>4 DEF apply_op_with_policy

\* A replay that begins.
LEMMA NothingTallied ==
  ASSUME NEW r, NEW b
  PROVE  Tally(r, [result |-> r, book |-> b, outcomes |-> NoOutcomes], 0)
<1>1. NoOutcomes \in [OutcomeKind -> Nat]  BY DEF NoOutcomes, OutcomeKind
<1>2. 0 = NoOutcomes["Applied"] + NoOutcomes["Skipped"] + NoOutcomes["Coerced"] + NoOutcomes["Error"]
  BY DEF NoOutcomes
<1> QED  BY <1>1, <1>2, Zenon DEF Tally

\* One more operation, one more outcome.
LEMMA OneMoreOutcome ==
  ASSUME NEW r, NEW run, NEW n \in Nat, Tally(r, run, n), NEW op, NEW policy
  PROVE  Tally(r, ReplayOp(run, op, policy), n + 1)
<1>1. PICK b : \E o \in [OutcomeKind -> Nat] :
        /\ run = [result |-> r, book |-> b, outcomes |-> o]
        /\ n = o["Applied"] + o["Skipped"] + o["Coerced"] + o["Error"]
  BY DEF Tally
<1>2. PICK o \in [OutcomeKind -> Nat] :
        /\ run = [result |-> r, book |-> b, outcomes |-> o]
        /\ n = o["Applied"] + o["Skipped"] + o["Coerced"] + o["Error"]
  BY <1>1
<1>3. PICK step : step = apply_op_with_policy(run.book, op, policy)  OBVIOUS
<1>4. PICK k : k = step.outcome  OBVIOUS
<1>5. k \in OutcomeKind  BY <1>3, <1>4, FourOutcomes
<1>6. PICK p : p = [o EXCEPT ![k] = @ + 1]  OBVIOUS
<1>7. p \in [OutcomeKind -> Nat]  BY <1>5, <1>6
<1>8. ReplayOp(run, op, policy) = [result |-> r, book |-> step.book, outcomes |-> p]
  <2>1. ReplayOp(run, op, policy) = [run EXCEPT !.book = step.book, !.outcomes[k] = @ + 1]
    BY <1>3, <1>4 DEF ReplayOp
  <2> QED  BY <2>1, <1>2, <1>6
<1>9. n + 1 = p["Applied"] + p["Skipped"] + p["Coerced"] + p["Error"]
  <2>1. PICK a, s, c, e : /\ a = o["Applied"] /\ s = o["Skipped"]
                          /\ c = o["Coerced"] /\ e = o["Error"]
    OBVIOUS
  <2>2. a \in Nat /\ s \in Nat /\ c \in Nat /\ e \in Nat  BY <2>1 DEF OutcomeKind
  <2>3. n = a + s + c + e  BY <1>2, <2>1
  <2>4. /\ p["Applied"] = IF k = "Applied" THEN a + 1 ELSE a
        /\ p["Skipped"] = IF k = "Skipped" THEN s + 1 ELSE s
        /\ p["Coerced"] = IF k = "Coerced" THEN c + 1 ELSE c
        /\ p["Error"] = IF k = "Error" THEN e + 1 ELSE e
    BY <2>1, <1>6 DEF OutcomeKind
  <2>5. CASE k = "Applied"  BY <2>2, <2>3, <2>4, <2>5
  <2>6. CASE k = "Skipped"  BY <2>2, <2>3, <2>4, <2>6
  <2>7. CASE k = "Coerced"  BY <2>2, <2>3, <2>4, <2>7
  <2>8. CASE k = "Error"  BY <2>2, <2>3, <2>4, <2>8
  <2> QED  BY <1>5, <2>5, <2>6, <2>7, <2>8 DEF OutcomeKind
<1> QED  BY <1>7, <1>8, <1>9 DEF Tally

\* A message.
LEMMA MessageOutcomes ==
  ASSUME NEW r, NEW run, NEW n \in Nat, Tally(r, run, n), NEW ops \in Seq(BookOp), NEW policy
  PROVE  Tally(r, ReplayOps(run, ops, policy), n + Len(ops))
<1> DEFINE T == {l \in Seq(BookOp) : Tally(r, ReplayOps(run, l, policy), n + Len(l))}
<1>1. <<>> \in T
  <2>1. n + 0 = n  OBVIOUS
  <2>2. Len(<<>>) = 0 /\ <<>> \in Seq(BookOp)  BY EmptySeq
  <2> QED  BY <2>1, <2>2, PlayedNothing
<1>2. ASSUME NEW l \in Seq(BookOp), NEW x \in BookOp, l \in T PROVE Append(l, x) \in T
  <2>1. ReplayOps(run, Append(l, x), policy) = ReplayOp(ReplayOps(run, l, policy), x, policy)
    BY PlayedOnAppend
  <2>2. PICK m : m = n + Len(l)  OBVIOUS
  <2>3. m \in Nat /\ m + 1 = n + Len(Append(l, x))  BY <2>2
  <2>4. Tally(r, ReplayOps(run, l, policy), m)  BY <1>2, <2>2
  <2>5. Tally(r, ReplayOp(ReplayOps(run, l, policy), x, policy), m + 1)
    BY <2>3, <2>4, OneMoreOutcome
  <2>6. Append(l, x) \in Seq(BookOp)  OBVIOUS
  <2> QED  BY <2>1, <2>3, <2>5, <2>6
<1>3. Seq(BookOp) \subseteq T
  <2> HIDE DEF T
  <2> QED  BY <1>1, <1>2, ListsByInduction
<1> QED  BY <1>3

\* All messages of a file.
TotalOps(lines) == load_capture(lines).stats.total_ops
TotalGrows(lines, line, longer) ==
    /\ TotalOps(lines) \in Nat
    /\ line.kind = "Updates" =>
         LineOps(line) \in Seq(BookOp) /\ TotalOps(longer) = TotalOps(lines) + Len(LineOps(line))
    /\ line.kind # "Updates" => TotalOps(longer) = TotalOps(lines)
LEMMA TotalsGrow ==
  ASSUME NEW lines \in Seq(Line), NEW line \in Line
  PROVE  TotalGrows(lines, line, Append(lines, line))
<1>1. PICK longer : longer = Append(lines, line)  OBVIOUS
<1>2. PICK c : c = load_capture_with_meta(lines)  OBVIOUS
<1>3. PICK d : d = load_capture_with_meta(longer)  OBVIOUS
<1>4. longer \in Seq(Line)  BY <1>1
<1>5. d = AddLine(c, line)  BY <1>1, <1>2, <1>3, LoadedLinesOnAppend
<1>6. LoadedWell(lines, c)  BY <1>2, FilesLoad
<1>7. TotalOps(lines) = c.stats.total_ops /\ TotalOps(longer) = d.stats.total_ops
  BY <1>2, <1>3, <1>4, LoadsAre DEF TotalOps
<1>8. PICK stats : stats = c.stats  OBVIOUS
<1>9. PICK counted : counted = [stats EXCEPT !.lines = @ + 1]  OBVIOUS
<1>10. c \in Capture /\ stats \in Stats  BY <1>6, <1>8 DEF LoadedWell, Capture
<1>11. counted \in Stats /\ counted.total_ops = stats.total_ops  BY <1>9, <1>10, OneMoreLine
<1>12. stats.total_ops \in Nat  BY <1>10 DEF Stats
<1>13. PICK e : e = [c EXCEPT !.stats.lines = @ + 1]  OBVIOUS
<1>14. DOMAIN e = DOMAIN c /\ e.stats = counted
  <2>1. e = [c EXCEPT !.stats = counted]
    <3>1. e = [c EXCEPT !.stats = [stats EXCEPT !.lines = stats.lines + 1]]
      BY <1>8, <1>13, Zenon
    <3> QED  BY <3>1, <1>9, Zenon
  <2> QED  BY <2>1, <1>10 DEF Capture
<1>15. ASSUME line.kind = "Updates"
       PROVE  LineOps(line) \in Seq(BookOp) /\ d.stats.total_ops = stats.total_ops + Len(LineOps(line))
  <2>1. PICK batch : batch = decode_updates_with_meta(line.diffs, line.statuses)  OBVIOUS
  <2>2. batch \in Batch  BY <2>1, <1>15, LineShapes, BlocksDecode
  <2>3. PICK ops : ops = batch.ops  OBVIOUS
  <2>4. ops \in Seq(Reasoned)  BY <2>2, <2>3 DEF Batch
  <2>5. LineOps(line) = Causeless(ops)
    BY <2>1, <2>3 DEF LineOps, Plain, strip_update_batch, Causeless
  <2>6. d = AddUpdates(e, batch)  BY <2>1, <1>5, <1>13, <1>15 DEF AddLine
  <2>7. d.stats = accumulate_stats(counted, batch)
    BY <2>6, <1>10, <1>14 DEF AddUpdates, Capture
  <2>8. d.stats.total_ops = counted.total_ops + Len(ops)  BY <2>3, <2>7 DEF accumulate_stats
  <2> QED  BY <2>4, <2>5, <2>8, <1>11, CauselessOps
<1>16. ASSUME line.kind # "Updates" PROVE d.stats.total_ops = stats.total_ops
  <2>1. d.stats = counted
    <3>1. CASE line.kind = "Skip"  BY <3>1, <1>5, <1>13, <1>14 DEF AddLine
    <3>2. CASE line.kind = "Snapshot"
      <4>1. d = AddSnapshot(e, line.orders)  BY <3>2, <1>5, <1>13 DEF AddLine
      <4> QED  BY <4>1, <1>10, <1>14 DEF AddSnapshot, Capture
    <3> QED  BY <3>1, <3>2, <1>16, LineShapes
  <2> QED  BY <2>1, <1>11
<1>17. TotalGrows(lines, line, longer)  BY <1>7, <1>8, <1>12, <1>15, <1>16 DEF TotalGrows
<1> QED  BY <1>1, <1>17

\* A line that is skipped.
LEMMA ASkip == Skipped \in Line
BY DEF Skipped, Line

LEMMA FileOutcomes ==
  ASSUME NEW r, NEW run, Tally(r, run, 0), NEW lines \in Seq(Line), NEW policy
  PROVE  Tally(r, ReplayUpdates(run, load_capture(lines).updates, policy), TotalOps(lines))
<1> DEFINE T == {l \in Seq(Line) :
                   Tally(r, ReplayUpdates(run, load_capture(l).updates, policy), TotalOps(l))}
<1>1. <<>> \in T
  <2>1. PICK none : none = <<>>  OBVIOUS
  <2>2. none \in Seq(Line)  BY <2>1, EmptySeq
  <2>3. load_capture_with_meta(none) = EmptyCapture  BY <2>1, LoadedLinesNothing
  <2>4. load_capture(none).stats = NoStats
    BY <2>2, <2>3, LoadsAre DEF EmptyCapture
  <2>5. TotalOps(none) = 0  BY <2>4 DEF TotalOps, NoStats
  <2>6. load_capture(none).updates = [m \in DOMAIN EmptyCapture.updates |-> Causeless(EmptyCapture.updates[m])]
    BY <2>2, <2>3, LoadsAre
  <2>7. load_capture(none).updates = <<>>
    <3>1. DOMAIN EmptyCapture.updates = {}  BY DEF EmptyCapture
    <3>2. DOMAIN load_capture(none).updates = {}  BY <2>6, <3>1
    <3>3. LoadTyped(none)  BY <2>2, ASkip, LoadsGrow
    <3>4. PICK w : w = load_capture(none).updates  OBVIOUS
    <3>5. w \in Seq(Seq(BookOp)) /\ DOMAIN w = {}  BY <3>2, <3>3, <3>4 DEF LoadTyped
    <3>6. Len(w) \in Nat /\ DOMAIN w = 1 .. Len(w)  BY <3>5
    <3>7. Len(w) = 0  BY <3>5, <3>6
    <3>8. w = <<>>  BY <3>5, <3>7, EmptySeq
    <3> QED  BY <3>4, <3>8
  <2> QED  BY <2>1, <2>2, <2>5, <2>7, ReplayedNothing
<1>2. ASSUME NEW l \in Seq(Line), NEW x \in Line, l \in T PROVE Append(l, x) \in T
  <2>1. PICK longer : longer = Append(l, x)  OBVIOUS
  <2>2. longer \in Seq(Line)  BY <2>1
  <2>3. LoadTyped(l) /\ LoadGrows(l, x, longer)  BY <2>1, LoadsGrow
  <2>4. PICK u : u = load_capture(l).updates  OBVIOUS
  <2>5. u \in Seq(Seq(BookOp))  BY <2>3, <2>4 DEF LoadTyped
  <2>6. PICK n : n = TotalOps(l)  OBVIOUS
  <2>7. TotalGrows(l, x, longer)  BY <2>1, TotalsGrow
  <2>8. n \in Nat /\ Tally(r, ReplayUpdates(run, u, policy), n)
    BY <1>2, <2>4, <2>6, <2>7 DEF TotalGrows
  <2>9. CASE x.kind = "Updates"
    <3>1. PICK ops : ops = LineOps(x)  OBVIOUS
    <3>2. ops \in Seq(BookOp) /\ TotalOps(longer) = n + Len(ops)
      BY <2>6, <2>7, <2>9, <3>1 DEF TotalGrows
    <3>3. load_capture(longer).updates = Append(u, ops)  BY <2>3, <2>4, <2>9, <3>1 DEF LoadGrows
    <3>4. ReplayUpdates(run, Append(u, ops), policy) = ReplayOps(ReplayUpdates(run, u, policy), ops, policy)
      BY <2>5, <3>2, ReplayedOnAppend
    <3>5. Tally(r, ReplayOps(ReplayUpdates(run, u, policy), ops, policy), n + Len(ops))
      BY <2>8, <3>2, MessageOutcomes
    <3> QED  BY <2>1, <2>2, <3>2, <3>3, <3>4, <3>5
  <2>10. CASE x.kind # "Updates"
    <3>1. TotalOps(longer) = n  BY <2>6, <2>7, <2>10 DEF TotalGrows
    <3>2. load_capture(longer).updates = u  BY <2>3, <2>4, <2>10, LineShapes DEF LoadGrows
    <3> QED  BY <2>1, <2>2, <2>8, <3>1, <3>2
  <2> QED  BY <2>9, <2>10
<1>3. Seq(Line) \subseteq T
  <2> HIDE DEF T
  <2> QED  BY <1>1, <1>2, ListsByInduction
<1> QED  BY <1>3

-----------------------------------------------------------------------------
(* A file as it grows *)

\* The lines that the script writes.
SnapshotLine(v) == [kind |-> "Snapshot", orders |-> book_order(v)]
UpdatesLine(block, told) == [kind |-> "Updates", diffs |-> block, statuses |-> told]

LEMMA LinesOfVenue ==
  ASSUME NEW v, NEW u, VenueSound(v, u), NEW block \in Seq(Diff), NEW told \in SUBSET OrderId
  PROVE  SnapshotLine(v) \in Line /\ UpdatesLine(block, told) \in Line
<1>1. SoundBook(v) /\ IsFiniteSet(RestingIds(v)) /\ \A id \in RestingIds(v) : get(v, id) \in WireOrder
  BY DEF VenueSound
<1>2. PICK list : list = book_order(v)  OBVIOUS
<1>3. Listing(list, v, Queue)  BY <1>1, <1>2, BookIsListed
<1>4. /\ list \in Seq(Order) /\ DOMAIN list = 1 .. Len(list) /\ Len(list) \in Nat
      /\ \A n \in DOMAIN list : list[n].id \in RestingIds(v) /\ list[n] = get(v, list[n].id)
  BY <1>3 DEF Listing
<1>5. \A n \in DOMAIN list : list[n] \in WireOrder  BY <1>1, <1>4
<1>6. list = [n \in 1 .. Len(list) |-> list[n]]  BY <1>4
<1>7. list \in [1 .. Len(list) -> WireOrder]  BY <1>4, <1>5, <1>6
<1>8. \A f \in [1 .. Len(list) -> WireOrder] : f \in Seq(WireOrder)  BY <1>4
<1>9. list \in Seq(WireOrder)  BY <1>7, <1>8
<1>10. OnceEach(list)  BY <1>3 DEF Listing, OnceEach
<1> QED  BY <1>2, <1>9, <1>10 DEF Line, SnapshotLine, UpdatesLine

\* A status comes with a new order.
LEMMA NewStatuses ==
  ASSUME statuses \in SUBSET OrderId, VenueNext
  PROVE  statuses' \in SUBSET OrderId
<1>1. \A order \in WireOrder : order.id \in OrderId  BY DEF WireOrder
<1>2. ASSUME NEW order \in WireOrder, Opens(order) PROVE statuses' \in SUBSET OrderId
  BY <1>1, <1>2 DEF Opens
<1>3. ASSUME NEW id \in OrderId, NEW sz \in WireSize,
             Cancels(id) \/ FillsPartly(id, sz) \/ FillsWhole(id) \/ Modifies(id, sz) \/ SendsUnknown(id)
      PROVE  statuses' = statuses
  BY <1>3 DEF Cancels, FillsPartly, FillsWhole, Modifies, SendsUnknown
<1>4. ASSUME NEW id \in OrderId, Cancels(id) \/ FillsWhole(id) \/ SendsUnknown(id)
      PROVE  statuses' = statuses
  BY <1>4 DEF Cancels, FillsWhole, SendsUnknown
<1> QED  BY <1>2, <1>3, <1>4 DEF VenueNext

\* The lines are well formed, and some book could follow the venue.
FileInv ==
    /\ file \in Seq(Line) /\ statuses \in SUBSET OrderId
    /\ \E b, lost : BlockFollowed(venue, used, diffs, statuses, b, lost)

LEMMA FileInvInit == FileInit => FileInv
<1> SUFFICES ASSUME FileInit PROVE FileInv  OBVIOUS
<1>1. /\ venue = EmptyBook /\ used = {} /\ diffs = <<>> /\ statuses = {}
      /\ file = <<Skipped>>
  BY DEF FileInit, VenueInit
<1>2. file \in Seq(Line)  BY <1>1, ASkip
<1>4. VenueSound(EmptyBook, {})  BY EmptySound, FS_EmptySet DEF VenueSound
<1>5. BlockFollowed(EmptyBook, {}, <<>>, {}, EmptyBook, {})  BY <1>4, EmptySound, MirrorEmpty, NoDiffs
<1> QED  BY <1>1, <1>2, <1>5 DEF FileInv

\* A book that has heard nothing follows any venue: everything is hidden from it.
LEMMA NothingHeard ==
  ASSUME NEW v, NEW u, VenueSound(v, u)
  PROVE  BlockFollowed(v, u, <<>>, {}, EmptyBook, RestingIds(v))
<1>1. PICK lost : lost = RestingIds(v)  OBVIOUS
<1>2. RestingIds(EmptyBook) = {}  BY EmptySound
<1>3. Mirrors(EmptyBook, v, lost)  BY <1>1, <1>2 DEF Mirrors
<1>4. lost \subseteq u  BY <1>1 DEF VenueSound
<1> QED  BY <1>1, <1>3, <1>4, EmptySound, NoDiffs

\* The steps of the script and of the venue.
LEMMA FileInvNext == FileInv /\ [FileNext]_fileVars => FileInv'
<1> SUFFICES ASSUME FileInv, [FileNext]_fileVars PROVE FileInv'  OBVIOUS
<1>1. PICK b, lost : BlockFollowed(venue, used, diffs, statuses, b, lost)  BY DEF FileInv
<1>2. /\ file \in Seq(Line) /\ statuses \in SUBSET OrderId
      /\ VenueSound(venue, used) /\ diffs \in Seq(Diff)
  BY <1>1 DEF FileInv, BlockFollowed, Followed
<1>3. CASE VenueNext /\ UNCHANGED file
  <2>1. BlockFollowed(venue', used', diffs', statuses', b, lost)  BY <1>1, <1>3, VenueTellsOn
  <2>2. statuses' \in SUBSET OrderId  BY <1>2, <1>3, NewStatuses
  <2> QED  BY <2>1, <2>2, <1>2, <1>3 DEF FileInv
<1>4. CASE Unheard
  <2>1. diffs' = <<>> /\ statuses' = {} /\ venue' = venue /\ used' = used /\ file' = file
    BY <1>4 DEF Unheard
  <2>2. BlockFollowed(venue, used, <<>>, {}, EmptyBook, RestingIds(venue))
    BY <1>2, NothingHeard
  <2> QED  BY <2>1, <2>2, <1>2 DEF FileInv
<1>5. CASE RecordsSnapshot
  <2>1. /\ file' = Append(file, SnapshotLine(venue)) /\ venue' = venue /\ used' = used
        /\ diffs' = diffs /\ statuses' = statuses
    BY <1>5 DEF RecordsSnapshot, WritesLine, venueVars, SnapshotLine
  <2>2. SnapshotLine(venue) \in Line  BY <1>2, LinesOfVenue
  <2> QED  BY <2>1, <2>2, <1>1, <1>2 DEF FileInv
<1>6. CASE RecordsUpdates
  <2>1. /\ file' = Append(file, UpdatesLine(diffs, statuses)) /\ venue' = venue /\ used' = used
        /\ diffs' = <<>> /\ statuses' = {}
    BY <1>6 DEF RecordsUpdates, WritesLine, UpdatesLine
  <2>2. UpdatesLine(diffs, statuses) \in Line  BY <1>2, LinesOfVenue
  <2>3. BlockFollowed(venue, used, <<>>, {}, Applied(b, diffs, statuses).book,
                      Hidden(lost, diffs, statuses))
    BY <1>1, BlockApplied
  <2> QED  BY <2>1, <2>2, <2>3, <1>2 DEF FileInv
<1>7. CASE RecordsOther
  <2>1. /\ file' = Append(file, Skipped) /\ venue' = venue /\ used' = used
        /\ diffs' = diffs /\ statuses' = statuses
    BY <1>7 DEF RecordsOther, WritesLine, venueVars
  <2> QED  BY <2>1, <1>1, <1>2, ASkip DEF FileInv
<1>8. CASE UNCHANGED fileVars
  BY <1>8, <1>1, <1>2 DEF fileVars, FileInv
<1> QED  BY <1>3, <1>4, <1>5, <1>6, <1>7, <1>8 DEF FileNext

-----------------------------------------------------------------------------
(* What stops a replay *)

SnapshotsIn(lines) == {n \in DOMAIN lines : lines[n].kind = "Snapshot"}
Small(orders) == \E i \in DOMAIN orders : orders[i].qty < Grain
Repeats(lines) ==
    \E i, j \in SnapshotsIn(lines) :
        i < j /\ Ids(lines[i].orders) \cap Ids(lines[j].orders) # {}
Bad(lines) == Repeats(lines) \/ \E n \in SnapshotsIn(lines) : Small(lines[n].orders)

\* The ids of the snapshots of a file.
Shown(lines) == UNION {Ids(lines[n].orders) : n \in SnapshotsIn(lines)}

\* A list of orders without a fault.
Sound(orders) == \A n \in DOMAIN orders : ~Faulty(orders, n)

\* Two lists, one behind the other, have no fault if neither has one and no id is
\* in both.
LEMMA TwoLists ==
  ASSUME NEW s \in Seq(Order), NEW t \in Seq(Order), NEW both, both = s \o t
  PROVE  /\ both \in Seq(Order) /\ Ids(both) = Ids(s) \cup Ids(t)
         /\ Sound(both) <=> (Sound(s) /\ Sound(t) /\ Ids(s) \cap Ids(t) = {})
<1>1. PICK m : m = Len(s)  OBVIOUS
<1>2. PICK n : n = Len(t)  OBVIOUS
<1>3. /\ m \in Nat /\ n \in Nat /\ DOMAIN s = 1 .. m /\ DOMAIN t = 1 .. n
      /\ both \in Seq(Order) /\ DOMAIN both = 1 .. (m + n)
  BY <1>1, <1>2
<1>4. \A i \in 1 .. m : i \in 1 .. (m + n) /\ both[i] = s[i]  BY <1>1, <1>2, <1>3
<1>5. \A i \in 1 .. n : m + i \in 1 .. (m + n) /\ both[m + i] = t[i]  BY <1>1, <1>2, <1>3
<1>6. \A i \in 1 .. (m + n) : i \in 1 .. m \/ \E j \in 1 .. n : i = m + j
  <2> SUFFICES ASSUME NEW i \in 1 .. (m + n), i \notin 1 .. m PROVE \E j \in 1 .. n : i = m + j
    OBVIOUS
  <2>1. i - m \in 1 .. n /\ i = m + (i - m)  BY <1>3
  <2> QED  BY <2>1
<1>7. Ids(both) = Ids(s) \cup Ids(t)
  <2>1. \A id \in Ids(both) : id \in Ids(s) \cup Ids(t)
    <3> SUFFICES ASSUME NEW i \in 1 .. (m + n) PROVE both[i].id \in Ids(s) \cup Ids(t)
      BY <1>3 DEF Ids
    <3>1. CASE i \in 1 .. m  BY <1>3, <1>4, <3>1 DEF Ids
    <3>2. CASE \E j \in 1 .. n : i = m + j  BY <1>3, <1>5, <3>2 DEF Ids
    <3> QED  BY <1>6, <3>1, <3>2
  <2>2. Ids(s) \subseteq Ids(both)  BY <1>3, <1>4 DEF Ids
  <2>3. Ids(t) \subseteq Ids(both)  BY <1>3, <1>5 DEF Ids
  <2> QED  BY <2>1, <2>2, <2>3
<1>8. \A i \in 1 .. m : Faulty(both, i) <=> Faulty(s, i)
  <2> SUFFICES ASSUME NEW i \in 1 .. m PROVE Faulty(both, i) <=> Faulty(s, i)  OBVIOUS
  <2>1. \A j \in 1 .. (i - 1) : j \in 1 .. m  BY <1>3
  <2> QED  BY <1>4, <2>1 DEF Faulty
<1>9. \A i \in 1 .. n : Faulty(both, m + i) <=> (Faulty(t, i) \/ t[i].id \in Ids(s))
  <2> SUFFICES ASSUME NEW i \in 1 .. n
               PROVE  Faulty(both, m + i) <=> (Faulty(t, i) \/ t[i].id \in Ids(s))
    OBVIOUS
  <2>1. PICK k : k = (m + i) - 1  OBVIOUS
  <2>2. \A j \in 1 .. m : j \in 1 .. k  BY <1>3, <2>1
  <2>3. \A j \in 1 .. (i - 1) : j \in 1 .. n /\ m + j \in 1 .. k  BY <1>3, <2>1
  <2>4. \A h \in 1 .. k : h \in 1 .. m \/ \E j \in 1 .. (i - 1) : h = m + j
    <3> SUFFICES ASSUME NEW h \in 1 .. k, h \notin 1 .. m PROVE \E j \in 1 .. (i - 1) : h = m + j
      OBVIOUS
    <3>1. h - m \in 1 .. (i - 1) /\ h = m + (h - m)  BY <1>3, <2>1
    <3> QED  BY <3>1
  <2>5. both[m + i] = t[i]  BY <1>5
  <2>6. (\E h \in 1 .. k : both[h].id = t[i].id)
          <=> (\E j \in 1 .. m : s[j].id = t[i].id) \/ \E j \in 1 .. (i - 1) : t[j].id = t[i].id
    <3>1. ASSUME NEW j \in 1 .. m, s[j].id = t[i].id PROVE \E h \in 1 .. k : both[h].id = t[i].id
      BY <1>4, <2>2, <3>1
    <3>2. ASSUME NEW j \in 1 .. (i - 1), t[j].id = t[i].id
          PROVE  \E h \in 1 .. k : both[h].id = t[i].id
      <4>1. both[m + j] = t[j] /\ m + j \in 1 .. k  BY <1>5, <2>3
      <4> QED  BY <4>1, <3>2
    <3>3. ASSUME NEW h \in 1 .. k, both[h].id = t[i].id
          PROVE  \/ \E j \in 1 .. m : s[j].id = t[i].id
                 \/ \E j \in 1 .. (i - 1) : t[j].id = t[i].id
      <4>1. CASE h \in 1 .. m  BY <1>4, <3>3, <4>1
      <4>2. ASSUME NEW j \in 1 .. (i - 1), h = m + j PROVE t[j].id = t[i].id
        BY <1>5, <2>3, <3>3, <4>2
      <4> QED  BY <2>4, <4>1, <4>2
    <3> QED  BY <3>1, <3>2, <3>3
  <2>7. t[i].id \in Ids(s) <=> \E j \in 1 .. m : s[j].id = t[i].id  BY <1>3 DEF Ids
  <2>8. Faulty(both, m + i) <=> (t[i].qty = 0 \/ \E h \in 1 .. k : both[h].id = t[i].id)
    BY <2>1, <2>5 DEF Faulty
  <2>9. Faulty(t, i) <=> (t[i].qty = 0 \/ \E j \in 1 .. (i - 1) : t[j].id = t[i].id)
    BY DEF Faulty
  <2> QED  BY <2>6, <2>7, <2>8, <2>9, Zenon
<1>10. Sound(both) <=> (Sound(s) /\ \A i \in 1 .. n : ~Faulty(t, i) /\ t[i].id \notin Ids(s))
  <2>1. ASSUME Sound(both)
        PROVE  Sound(s) /\ \A i \in 1 .. n : ~Faulty(t, i) /\ t[i].id \notin Ids(s)
    <3>1. \A i \in 1 .. (m + n) : ~Faulty(both, i)  BY <1>3, <2>1 DEF Sound
    <3>2. \A i \in 1 .. m : ~Faulty(s, i)  BY <1>4, <1>8, <3>1
    <3>3. \A i \in 1 .. n : ~Faulty(t, i) /\ t[i].id \notin Ids(s)  BY <1>5, <1>9, <3>1
    <3> QED  BY <1>3, <3>2, <3>3 DEF Sound
  <2>2. ASSUME Sound(s), \A i \in 1 .. n : ~Faulty(t, i) /\ t[i].id \notin Ids(s)
        PROVE  Sound(both)
    <3> SUFFICES ASSUME NEW i \in 1 .. (m + n) PROVE ~Faulty(both, i)  BY <1>3 DEF Sound
    <3>1. CASE i \in 1 .. m  BY <1>3, <1>8, <2>2, <3>1 DEF Sound
    <3>2. ASSUME NEW j \in 1 .. n, i = m + j PROVE ~Faulty(both, i)  BY <1>9, <2>2, <3>2
    <3> QED  BY <1>6, <3>1, <3>2
  <2> QED  BY <2>1, <2>2
<1>11. Ids(s) \cap Ids(t) = {} <=> \A i \in 1 .. n : t[i].id \notin Ids(s)
  BY <1>3 DEF Ids
<1>12. Sound(t) <=> \A i \in 1 .. n : ~Faulty(t, i)  BY <1>3 DEF Sound
<1> QED  BY <1>3, <1>7, <1>10, <1>11, <1>12

\* A snapshot's list, in the book's units, has a fault if one of its orders is
\* below the unit.
LEMMA SnapshotFaults ==
  ASSUME NEW orders \in Seq(WireOrder), OnceEach(orders), NEW cut, cut = decode_snapshot(orders)
  PROVE  /\ cut \in Seq(Order) /\ Ids(cut) = Ids(orders)
         /\ Sound(cut) <=> ~Small(orders)
<1>1. PICK n : n = Len(orders)  OBVIOUS
<1>2. n \in Nat /\ DOMAIN orders = 1 .. n  BY <1>1
<1>3. cut = [i \in 1 .. n |-> parse_order(orders[i])]  BY <1>2 DEF decode_snapshot
<1>4. DOMAIN cut = 1 .. n  BY <1>3
<1>5. \A i \in 1 .. n : cut[i].id = orders[i].id
  <2> SUFFICES ASSUME NEW i \in 1 .. n PROVE cut[i].id = orders[i].id  OBVIOUS
  <2>1. orders[i] \in WireOrder  BY <1>2
  <2>2. parse_order(orders[i]).id = orders[i].id  BY <2>1, WireOrders
  <2> QED  BY <1>3, <2>2
<1>6. \A i \in 1 .. n : cut[i].qty = 0 <=> orders[i].qty < Grain
  <2> SUFFICES ASSUME NEW i \in 1 .. n PROVE cut[i].qty = 0 <=> orders[i].qty < Grain  OBVIOUS
  <2>1. orders[i] \in WireOrder  BY <1>2
  <2>2. PICK z : z = orders[i].qty  OBVIOUS
  <2>3. z \in WireSize /\ parse_order(orders[i]).qty = parse_fixed(z)
    BY <2>1, <2>2 DEF WireOrder, parse_order
  <2>4. z \in Qty  BY <2>3, WireSizes
  <2>5. parse_fixed(z) = 0 <=> z < Grain  BY <2>4, Units DEF parse_fixed
  <2> QED  BY <1>3, <2>2, <2>3, <2>5
<1>7. \A i \in 1 .. n : Faulty(cut, i) <=> cut[i].qty = 0
  <2> SUFFICES ASSUME NEW i \in 1 .. n, NEW j \in 1 .. (i - 1) PROVE cut[j].id # cut[i].id
    BY DEF Faulty
  <2>1. j \in 1 .. n /\ j < i  BY <1>2
  <2>2. orders[j].id # orders[i].id  BY <1>2, <2>1 DEF OnceEach
  <2> QED  BY <1>5, <2>1, <2>2
<1>8. Sound(cut) <=> ~Small(orders)  BY <1>2, <1>4, <1>6, <1>7 DEF Sound, Small
<1>9. Ids(cut) = Ids(orders)  BY <1>2, <1>4, <1>5 DEF Ids
<1> QED  BY <1>8, <1>9, ListsDecode

\* What is bad about a longer file.
LEMMA BadGrows ==
  ASSUME NEW lines \in Seq(Line), NEW line \in Line, NEW longer, longer = Append(lines, line)
  PROVE  /\ line.kind # "Snapshot" => Shown(longer) = Shown(lines) /\ (Bad(longer) <=> Bad(lines))
         /\ line.kind = "Snapshot" =>
              /\ Shown(longer) = Shown(lines) \cup Ids(line.orders)
              /\ Bad(longer) <=> (\/ Bad(lines) \/ Small(line.orders)
                                  \/ Shown(lines) \cap Ids(line.orders) # {})
<1>1. PICK n : n = Len(lines)  OBVIOUS
<1>2. /\ n \in Nat /\ DOMAIN lines = 1 .. n /\ DOMAIN longer = 1 .. (n + 1) /\ longer[n + 1] = line
      /\ \A i \in 1 .. n : longer[i] = lines[i]
  BY <1>1
<1>3. PICK S : S = SnapshotsIn(lines)  OBVIOUS
<1>4. S \subseteq 1 .. n /\ \A i \in S : longer[i] = lines[i] /\ i < n + 1
  BY <1>2, <1>3 DEF SnapshotsIn
<1>5. ASSUME line.kind # "Snapshot"
      PROVE  Shown(longer) = Shown(lines) /\ (Bad(longer) <=> Bad(lines))
  <2>1. SnapshotsIn(longer) = S  BY <1>2, <1>3, <1>5 DEF SnapshotsIn
  <2>2. Shown(longer) = Shown(lines)  BY <1>3, <1>4, <2>1 DEF Shown
  <2>3. Repeats(longer) <=> Repeats(lines)  BY <1>3, <1>4, <2>1 DEF Repeats
  <2>4. (\E i \in S : Small(longer[i].orders)) <=> \E i \in S : Small(lines[i].orders)
    BY <1>4
  <2> QED  BY <1>3, <2>1, <2>2, <2>3, <2>4 DEF Bad
<1>6. ASSUME line.kind = "Snapshot"
      PROVE  /\ Shown(longer) = Shown(lines) \cup Ids(line.orders)
             /\ Bad(longer) <=> (\/ Bad(lines) \/ Small(line.orders)
                                 \/ Shown(lines) \cap Ids(line.orders) # {})
  <2>1. SnapshotsIn(longer) = S \cup {n + 1}  BY <1>2, <1>3, <1>6 DEF SnapshotsIn
  <2>2. Shown(longer) = Shown(lines) \cup Ids(line.orders)
    BY <1>2, <1>3, <1>4, <2>1 DEF Shown
  <2>3. (\E i \in SnapshotsIn(longer) : Small(longer[i].orders))
          <=> (\E i \in S : Small(lines[i].orders)) \/ Small(line.orders)
    BY <1>2, <1>4, <2>1
  <2>4. Shown(lines) \cap Ids(line.orders) # {}
          <=> \E i \in S : Ids(lines[i].orders) \cap Ids(line.orders) # {}
    BY <1>3 DEF Shown
  <2>5. Repeats(longer)
          <=> Repeats(lines) \/ \E i \in S : Ids(lines[i].orders) \cap Ids(line.orders) # {}
    <3>1. ASSUME Repeats(lines) PROVE Repeats(longer)
      BY <1>3, <1>4, <2>1, <3>1 DEF Repeats
    <3>2. ASSUME NEW i \in S, Ids(lines[i].orders) \cap Ids(line.orders) # {}
          PROVE  Repeats(longer)
      BY <1>2, <1>4, <2>1, <3>2 DEF Repeats
    <3>3. ASSUME NEW i \in SnapshotsIn(longer), NEW j \in SnapshotsIn(longer), i < j,
                 Ids(longer[i].orders) \cap Ids(longer[j].orders) # {}
          PROVE  Repeats(lines) \/ \E h \in S : Ids(lines[h].orders) \cap Ids(line.orders) # {}
      <4>1. i \in S /\ longer[i] = lines[i]
        <5>1. j \in 1 .. (n + 1)  BY <1>2 DEF SnapshotsIn
        <5>2. i # n + 1  BY <1>2, <3>3, <5>1
        <5> QED  BY <1>4, <2>1, <5>2
      <4>2. CASE j \in S  BY <1>3, <1>4, <3>3, <4>1, <4>2 DEF Repeats
      <4>3. CASE j = n + 1  BY <1>2, <3>3, <4>1, <4>3
      <4> QED  BY <2>1, <4>2, <4>3
    <3> QED  BY <3>1, <3>2, <3>3 DEF Repeats
  <2> QED  BY <1>3, <2>2, <2>3, <2>4, <2>5 DEF Bad
<1> QED  BY <1>5, <1>6

\* The list that a file's snapshots become, and when it has a fault.
SnapshotLoaded(lines) ==
    \E s \in Seq(Order) : /\ load_capture(lines).snapshot = s /\ Ids(s) = Shown(lines)
                          /\ Sound(s) <=> ~Bad(lines)
LEMMA SnapshotsLoad ==
  ASSUME NEW lines \in Seq(Line)
  PROVE  SnapshotLoaded(lines)
<1> DEFINE T == {l \in Seq(Line) : SnapshotLoaded(l)}
<1>1. <<>> \in T
  <2>1. PICK none : none = <<>>  OBVIOUS
  <2>2. none \in Seq(Line) /\ DOMAIN none = {}  BY <2>1, EmptySeq
  <2>3. load_capture_with_meta(none) = EmptyCapture  BY <2>1, LoadedLinesNothing
  <2>4. load_capture(none).snapshot = <<>>  BY <2>2, <2>3, LoadsAre DEF EmptyCapture
  <2>5. SnapshotsIn(none) = {}  BY <2>2 DEF SnapshotsIn
  <2>6. Shown(none) = {} /\ ~Bad(none)  BY <2>5 DEF Shown, Bad, Repeats
  <2>7. <<>> \in Seq(Order) /\ Ids(<<>>) = {} /\ Sound(<<>>)  BY EmptySeq DEF Ids, Sound
  <2>8. SnapshotLoaded(none)  BY <2>4, <2>6, <2>7 DEF SnapshotLoaded
  <2> QED  BY <2>1, <2>2, <2>8
<1>2. ASSUME NEW l \in Seq(Line), NEW x \in Line, l \in T PROVE Append(l, x) \in T
  <2>1. PICK longer : longer = Append(l, x)  OBVIOUS
  <2>2. longer \in Seq(Line)  BY <2>1
  <2>3. PICK s \in Seq(Order) : /\ load_capture(l).snapshot = s /\ Ids(s) = Shown(l)
                                /\ Sound(s) <=> ~Bad(l)
    BY <1>2 DEF SnapshotLoaded
  <2>4. LoadGrows(l, x, longer)  BY <2>1, LoadsGrow
  <2>5. CASE x.kind = "Snapshot"
    <3>1. x.orders \in Seq(WireOrder) /\ OnceEach(x.orders)  BY <2>5, LineShapes
    <3>2. PICK t : t = decode_snapshot(x.orders)  OBVIOUS
    <3>3. t \in Seq(Order) /\ Ids(t) = Ids(x.orders) /\ (Sound(t) <=> ~Small(x.orders))
      BY <3>1, <3>2, SnapshotFaults
    <3>4. PICK both : both = s \o t  OBVIOUS
    <3>5. /\ both \in Seq(Order) /\ Ids(both) = Ids(s) \cup Ids(t)
          /\ Sound(both) <=> (Sound(s) /\ Sound(t) /\ Ids(s) \cap Ids(t) = {})
      BY <2>3, <3>3, <3>4, TwoLists
    <3>6. load_capture(longer).snapshot = both  BY <2>3, <2>4, <2>5, <3>2, <3>4 DEF LoadGrows
    <3>7. /\ Shown(longer) = Shown(l) \cup Ids(x.orders)
          /\ Bad(longer) <=> (\/ Bad(l) \/ Small(x.orders) \/ Shown(l) \cap Ids(x.orders) # {})
      BY <2>1, <2>5, BadGrows
    <3>8. Ids(both) = Shown(longer) /\ (Sound(both) <=> ~Bad(longer))
      BY <2>3, <3>3, <3>5, <3>7
    <3>9. SnapshotLoaded(longer)  BY <3>5, <3>6, <3>8 DEF SnapshotLoaded
    <3> QED  BY <2>1, <2>2, <3>9
  <2>6. CASE x.kind # "Snapshot"
    <3>1. load_capture(longer).snapshot = s  BY <2>3, <2>4, <2>6, LineShapes DEF LoadGrows
    <3>2. Shown(longer) = Shown(l) /\ (Bad(longer) <=> Bad(l))  BY <2>1, <2>6, BadGrows
    <3>3. SnapshotLoaded(longer)  BY <2>3, <3>1, <3>2 DEF SnapshotLoaded
    <3> QED  BY <2>1, <2>2, <3>3
  <2> QED  BY <2>5, <2>6
<1>3. Seq(Line) \subseteq T
  <2> HIDE DEF T
  <2> QED  BY <1>1, <1>2, ListsByInduction
<1> QED  BY <1>3

\* A replay is stopped by its snapshot or not at all (replay_capture.rs:30-31).
LEMMA StoppedAtOnce ==
  ASSUME NEW lines \in Seq(Line)
  PROVE  replay_capture(load_capture(lines), DWELLIR_TOLERANT).result # "Ok" <=> Bad(lines)
<1>1. PICK s \in Seq(Order) : load_capture(lines).snapshot = s /\ (Sound(s) <=> ~Bad(lines))
  BY SnapshotsLoad DEF SnapshotLoaded
<1>2. PICK start : start = apply_snapshot(EmptyBook, s)  OBVIOUS
<1>3. start = AddAll(EmptyBook, s)
  <2>1. s \o <<>> = s  OBVIOUS
  <2> QED  BY <1>2, <2>1 DEF apply_snapshot, apply_snapshot_with_policy, Replaced
<1>4. start.result = "Ok" <=> ~Bad(lines)  BY <1>1, <1>3, AddsWhole DEF Sound
<1>5. PICK run : run = [result |-> start.result, book |-> start.book, outcomes |-> NoOutcomes]
  OBVIOUS
<1>6. PICK replay : replay = replay_capture(load_capture(lines), DWELLIR_TOLERANT)  OBVIOUS
<1>7. replay = IF start.result # "Ok" THEN run
               ELSE ReplayUpdates(run, load_capture(lines).updates, DWELLIR_TOLERANT)
  BY <1>1, <1>2, <1>5, <1>6 DEF replay_capture
<1>8. CASE start.result # "Ok"  BY <1>4, <1>5, <1>6, <1>7, <1>8
<1>9. CASE start.result = "Ok"
  <2>1. run.result = "Ok"  BY <1>5, <1>9
  <2>2. Tally("Ok", run, 0)  BY <1>5, <1>9, NothingTallied
  <2>3. Tally("Ok", replay, TotalOps(lines))  BY <1>7, <1>9, <2>2, FileOutcomes
  <2>4. replay.result = "Ok"  BY <2>3 DEF Tally
  <2> QED  BY <1>4, <1>6, <1>9, <2>4
<1> QED  BY <1>8, <1>9

LEMMA StopsOfAFile == FileInv => OnlyBadSnapshotsStopTheReplay
<1> SUFFICES ASSUME FileInv PROVE OnlyBadSnapshotsStopTheReplay  OBVIOUS
<1>1. file \in Seq(Line)  BY DEF FileInv
<1>2. replay_capture(Loaded, DWELLIR_TOLERANT).result # "Ok" <=> Bad(file)
  BY <1>1, StoppedAtOnce DEF Loaded
<1>3. Bad(file) <=>
        \/ \E i, j \in SnapshotsIn(file) : i < j /\ Ids(file[i].orders) \cap Ids(file[j].orders) # {}
        \/ \E n \in SnapshotsIn(file) : \E i \in DOMAIN file[n].orders : file[n].orders[i].qty < Grain
  BY Zenon DEF Bad, Repeats, Small
<1> QED  BY <1>2, <1>3, Zenon DEF OnlyBadSnapshotsStopTheReplay, SnapshotsIn

-----------------------------------------------------------------------------
(* What the files show *)

\* The statistics of a file, read off.
LEMMA StatsOfAFile == FileInv => StatsAccountForEveryDiff
<1> SUFFICES ASSUME FileInv PROVE StatsAccountForEveryDiff  OBVIOUS
<1>1. file \in Seq(Line)  BY DEF FileInv
<1>2. PICK c : c = load_capture_with_meta(file)  OBVIOUS
<1>3. PICK stats : stats = c.stats  OBVIOUS
<1>4. StatsBalance(file, stats)  BY <1>1, <1>2, <1>3, FilesLoad DEF LoadedWell
<1>5. StatsSheet(file, stats) /\ stats \in Stats  BY <1>4 DEF StatsBalance
<1>6. Loaded.stats = stats  BY <1>1, <1>2, <1>3, LoadsAre DEF Loaded
<1>7. /\ stats.adds + stats.unresolved_new = DiffsOf({"new"})
      /\ stats.size_updates + stats.size_amends + stats.collapsed_complete_fills
           = DiffsOf({"update", "modified"})
      /\ stats.removes + stats.dropped_duplicate_removes
           = DiffsOf({"remove"}) + stats.collapsed_complete_fills
      /\ stats.total_ops = stats.adds + stats.removes + stats.size_updates + stats.size_amends
  BY <1>5, Zenon DEF StatsSheet, Sums, DiffsOf
<1>8. PICK replay : replay = replay_capture(Loaded, DWELLIR_TOLERANT)  OBVIOUS
<1>9. ASSUME replay.result = "Ok"
      PROVE  stats.total_ops = replay.outcomes.Applied + replay.outcomes.Skipped
                                 + replay.outcomes.Coerced + replay.outcomes.Error
  <2>1. PICK start : start = apply_snapshot(EmptyBook, Loaded.snapshot)  OBVIOUS
  <2>2. PICK run : run = [result |-> start.result, book |-> start.book, outcomes |-> NoOutcomes]
    OBVIOUS
  <2>3. run.result = "Ok"
    <3>1. CASE start.result = "Ok"  BY <2>2, <3>1
    <3>2. CASE start.result # "Ok"
      <4>1. replay = run  BY <1>8, <2>1, <2>2, <3>2 DEF replay_capture
      <4> QED  BY <4>1, <1>9
    <3> QED  BY <3>1, <3>2
  <2>4. replay = ReplayUpdates(run, Loaded.updates, DWELLIR_TOLERANT)
    BY <1>8, <2>1, <2>2, <2>3 DEF replay_capture
  <2>5. Tally("Ok", run, 0)  BY <2>2, <2>3, NothingTallied
  <2>6. Tally("Ok", replay, stats.total_ops)
    BY <1>1, <1>6, <2>4, <2>5, FileOutcomes DEF TotalOps, Loaded
  <2> QED  BY <2>6 DEF Tally
<1> QED  BY <1>6, <1>7, <1>8, <1>9, Zenon DEF StatsAccountForEveryDiff

(* The statistics of a file account for every diff in it, and every          *)
(* operation has one outcome in a replay, whatever the venue sends and the   *)
(* script happens to record (dwellir.rs:90-111, 589-603,                     *)
(* replay_capture.rs:62-76).                                                 *)
THEOREM StatsAccount == FileSpec => []StatsAccountForEveryDiff
<1>1. FileSpec => []FileInv
  BY FileInvInit, FileInvNext, PTL DEF FileSpec
<1> QED
  BY <1>1, StatsOfAFile, PTL

(* A replay stops only at its first call, and only because an order is in two *)
(* snapshots of the file or below the unit in one, however many snapshots     *)
(* there are and wherever they stand (dwellir.rs:535-537, 462, 484-514,       *)
(* replay_capture.rs:30-31).                                                  *)
THEOREM StopsAreExplained == FileSpec => []OnlyBadSnapshotsStopTheReplay
<1>1. FileSpec => []FileInv
  BY FileInvInit, FileInvNext, PTL DEF FileSpec
<1> QED
  BY <1>1, StopsOfAFile, PTL
=============================================================================
