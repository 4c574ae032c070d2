-------------------------- MODULE SimulatorProofs --------------------------
(***************************************************************************)
(* Theorems of Simulator.tla, for every set of ids, wallets and prices,    *)
(* every width of a quantity and every length of a snapshot.               *)
(*                                                                         *)
(* The inductive invariant is small: the book is sound (every id rests     *)
(* once, in the queue of its side and price and with a quantity, see       *)
(* BookQueuesProofs) and holds finitely many orders.  What is long is what *)
(* a call does to such a book.  The recursions of the model are unfolded   *)
(* one step at a time, a match becomes "the first orders of the side are   *)
(* filled whole, and a part is taken from the next" (Progress), its fills, *)
(* applied, leave exactly the rest of the list (Served), and a list of a   *)
(* side is determined by who rests, at which price and before whom         *)
(* (OnePriority).  The properties of the runs are then read off.           *)
(***************************************************************************)
EXTENDS Simulator, BookQueuesProofs

\* The sums of the first n quantities.
SumUpTo(n, run, orders) ==
    /\ run = [i \in 0 .. n |-> run[i]]
    /\ run[0] = 0
    /\ \A i \in 1 .. n : run[i] = run[i - 1] + orders[i].qty

\* The definition of QtySum, unfolded.
LEMMA SumRuns ==
  ASSUME NEW S, NEW orders \in Seq(S)
  PROVE  \E run : /\ SumUpTo(Len(orders), run, orders)
                  /\ QtySum(orders) = run[Len(orders)]
<1> DEFINE N == Len(orders)
           T == {n \in Nat : \E f : SumUpTo(n, f, orders)}
<1>0. N \in Nat  OBVIOUS
<1>1. 0 \in T
  <2>1. PICK f : f = [i \in 0 .. 0 |-> 0]  OBVIOUS
  <2>2. f = [i \in 0 .. 0 |-> f[i]] /\ f[0] = 0  BY <2>1
  <2>3. SumUpTo(0, f, orders)  BY <2>2 DEF SumUpTo
  <2> QED  BY <2>3
<1>2. ASSUME NEW n \in Nat, n \in T PROVE n + 1 \in T
  <2>1. PICK f : SumUpTo(n, f, orders)  BY <1>2
  <2>2. PICK m : m = f[n] + orders[n + 1].qty  OBVIOUS
  <2>3. PICK g : g = [i \in 0 .. (n + 1) |-> IF i = n + 1 THEN m ELSE f[i]]  OBVIOUS
  <2>4. \A i \in 0 .. n : g[i] = f[i]
    <3> SUFFICES ASSUME NEW i \in 0 .. n PROVE g[i] = f[i]  OBVIOUS
    <3>1. i \in 0 .. (n + 1) /\ i # n + 1  OBVIOUS
    <3> QED  BY <2>3, <3>1
  <2>5. g[n + 1] = m  BY <2>3
  <2>6. ASSUME NEW i \in 1 .. (n + 1) PROVE g[i] = g[i - 1] + orders[i].qty
    <3>1. CASE i = n + 1
      <4>1. i - 1 = n /\ g[i - 1] = f[n]  BY <2>4, <3>1
      <4> QED  BY <2>2, <2>5, <3>1, <4>1
    <3>2. CASE i # n + 1
      <4>1. i \in 1 .. n /\ i \in 0 .. n /\ i - 1 \in 0 .. n  BY <3>2
      <4>2. g[i] = f[i] /\ g[i - 1] = f[i - 1]  BY <2>4, <4>1
      <4> QED  BY <2>1, <4>1, <4>2 DEF SumUpTo
    <3> QED  BY <3>1, <3>2
  <2>7. g = [i \in 0 .. (n + 1) |-> g[i]]  BY <2>3
  <2>8. g[0] = 0  BY <2>1, <2>4 DEF SumUpTo
  <2>9. SumUpTo(n + 1, g, orders)  BY <2>6, <2>7, <2>8 DEF SumUpTo
  <2> QED  BY <2>9
<1>3. N \in T
  <2> HIDE DEF T
  <2>1. Nat \subseteq T  BY <1>1, <1>2, NumbersByInduction
  <2> QED  BY <1>0, <2>1
<1>4. PICK f : SumUpTo(N, f, orders)  BY <1>3
<1> HIDE DEF T
<1> DEFINE Recurs(h) ==
             h = [n \in 0 .. Len(orders) |-> IF n = 0 THEN 0 ELSE h[n - 1] + orders[n].qty]
           upto == CHOOSE h : Recurs(h)
<1>5. QtySum(orders) = upto[Len(orders)]  BY DEF QtySum
<1>6. Recurs(f)
  <2>1. ASSUME NEW n \in 0 .. N
        PROVE  f[n] = IF n = 0 THEN 0 ELSE f[n - 1] + orders[n].qty
    <3>1. CASE n = 0  BY <1>4, <3>1 DEF SumUpTo
    <3>2. CASE n # 0
      <4>1. n \in 1 .. N  BY <1>0, <3>2
      <4> QED  BY <1>4, <3>2, <4>1 DEF SumUpTo
    <3> QED  BY <3>1, <3>2
  <2>2. f = [i \in 0 .. N |-> f[i]]  BY <1>4 DEF SumUpTo
  <2> QED  BY <2>1, <2>2
<1>7. Recurs(upto)
  <2> HIDE DEF Recurs
  <2> QED  BY <1>6
<1>8. PICK h : h = upto  OBVIOUS
<1> HIDE DEF upto
<1>9. Recurs(h)
  <2> HIDE DEF Recurs
  <2> QED  BY <1>7, <1>8
<1>10. \A n \in 0 .. N : h[n] = IF n = 0 THEN 0 ELSE h[n - 1] + orders[n].qty
  BY <1>9
<1>11. h = [i \in 0 .. N |-> h[i]]  BY <1>9
<1> HIDE DEF Recurs, N
<1>12. h[0] = 0
  <2>1. 0 \in 0 .. N  BY <1>0
  <2> QED  BY <1>10, <2>1, Zenon
<1>13. ASSUME NEW i \in 1 .. N PROVE h[i] = h[i - 1] + orders[i].qty
  <2>1. i \in 0 .. N /\ i # 0  BY <1>0
  <2> QED  BY <1>10, <2>1
<1>14. SumUpTo(N, h, orders)  BY <1>11, <1>12, <1>13 DEF SumUpTo
<1> QED  BY <1>5, <1>8, <1>14 DEF N

\* One more order adds its quantity.
LEMMA SumOnAppend ==
  ASSUME NEW S, NEW orders \in Seq(S), NEW last \in S
  PROVE  QtySum(Append(orders, last)) = QtySum(orders) + last.qty
<1>1. PICK longer : longer = Append(orders, last)  OBVIOUS
<1>2. /\ longer \in Seq(S) /\ Len(orders) \in Nat /\ Len(longer) = Len(orders) + 1
      /\ \A i \in 1 .. Len(orders) : longer[i] = orders[i]
      /\ longer[Len(orders) + 1] = last
  BY <1>1
<1>3. PICK N : N = Len(orders)  OBVIOUS
<1>4. PICK f : SumUpTo(N, f, orders) /\ QtySum(orders) = f[N]  BY <1>3, SumRuns
<1>5. PICK g : /\ SumUpTo(N + 1, g, longer)
               /\ QtySum(longer) = g[N + 1]
  <2>1. \E g : /\ SumUpTo(Len(longer), g, longer)
                /\ QtySum(longer) = g[Len(longer)]
    BY <1>2, SumRuns
  <2> QED  BY <1>2, <1>3, <2>1
<1>6. N \in Nat  BY <1>2, <1>3
<1> DEFINE T == {n \in Nat : n <= N => g[n] = f[n]}
<1>7. 0 \in T  BY <1>4, <1>5 DEF SumUpTo
<1>8. ASSUME NEW n \in Nat, n \in T PROVE n + 1 \in T
  <2> SUFFICES ASSUME n + 1 <= N PROVE g[n + 1] = f[n + 1]  OBVIOUS
  <2>1. n <= N /\ n + 1 \in 1 .. N /\ n + 1 \in 1 .. (N + 1) /\ (n + 1) - 1 = n  BY <1>6
  <2>2. g[n] = f[n]  BY <1>8, <2>1
  <2>3. longer[n + 1] = orders[n + 1]  BY <1>2, <1>3, <2>1
  <2>4. f[n + 1] = f[(n + 1) - 1] + orders[n + 1].qty  BY <1>4, <2>1 DEF SumUpTo
  <2>5. g[n + 1] = g[(n + 1) - 1] + longer[n + 1].qty  BY <1>5, <2>1 DEF SumUpTo
  <2> QED  BY <2>1, <2>2, <2>3, <2>4, <2>5
<1>9. g[N] = f[N]
  <2> HIDE DEF T
  <2>1. Nat \subseteq T  BY <1>7, <1>8, NumbersByInduction
  <2>2. N \in T /\ N <= N  BY <1>6, <2>1
  <2> QED  BY <2>2 DEF T
<1>10. N + 1 \in 1 .. (N + 1) /\ (N + 1) - 1 = N  BY <1>6
<1>11. g[N + 1] = g[(N + 1) - 1] + longer[N + 1].qty  BY <1>5, <1>10 DEF SumUpTo
<1> QED  BY <1>1, <1>2, <1>3, <1>4, <1>5, <1>9, <1>10, <1>11

\* Nothing sums to zero.
LEMMA SumNothing == QtySum(<<>>) = 0
<1>1. PICK none : none = <<>>  OBVIOUS
<1>2. none \in Seq({}) /\ Len(none) = 0  BY <1>1
<1>3. PICK f : SumUpTo(0, f, none) /\ QtySum(none) = f[0]
  <2>1. \E f : SumUpTo(Len(none), f, none) /\ QtySum(none) = f[Len(none)]
    BY <1>2, SumRuns
  <2> QED  BY <1>2, <2>1
<1> QED  BY <1>1, <1>3 DEF SumUpTo

\* What the taker has taken from the first n makers.
MetUpTo(n, run, makers, side, qty, limit) ==
    /\ run = [i \in 0 .. n |-> run[i]]
    /\ run[0] = NothingTaken(qty)
    /\ \A i \in 1 .. n : run[i] = TakeFrom(run[i - 1], makers[i], side, limit)

\* The definition of Walk, unfolded.
LEMMA MetRuns ==
  ASSUME NEW S, NEW makers \in Seq(S), NEW side, NEW qty, NEW limit
  PROVE  \E run : /\ MetUpTo(Len(makers), run, makers, side, qty, limit)
                  /\ Walk(makers, side, qty, limit) = run[Len(makers)]
<1> DEFINE N == Len(makers)
           T == {n \in Nat : \E f : MetUpTo(n, f, makers, side, qty, limit)}
<1>0. N \in Nat  OBVIOUS
<1>1. 0 \in T
  <2>1. PICK f : f = [i \in 0 .. 0 |-> NothingTaken(qty)]  OBVIOUS
  <2>2. f = [i \in 0 .. 0 |-> f[i]] /\ f[0] = NothingTaken(qty)  BY <2>1
  <2>3. MetUpTo(0, f, makers, side, qty, limit)  BY <2>2 DEF MetUpTo
  <2> QED  BY <2>3
<1>2. ASSUME NEW n \in Nat, n \in T PROVE n + 1 \in T
  <2>1. PICK f : MetUpTo(n, f, makers, side, qty, limit)  BY <1>2
  <2>2. PICK m : m = TakeFrom(f[n], makers[n + 1], side, limit)  OBVIOUS
  <2>3. PICK g : g = [i \in 0 .. (n + 1) |-> IF i = n + 1 THEN m ELSE f[i]]  OBVIOUS
  <2>4. \A i \in 0 .. n : g[i] = f[i]
    <3> SUFFICES ASSUME NEW i \in 0 .. n PROVE g[i] = f[i]  OBVIOUS
    <3>1. i \in 0 .. (n + 1) /\ i # n + 1  OBVIOUS
    <3> QED  BY <2>3, <3>1
  <2>5. g[n + 1] = m  BY <2>3
  <2>6. ASSUME NEW i \in 1 .. (n + 1) PROVE g[i] = TakeFrom(g[i - 1], makers[i], side, limit)
    <3>1. CASE i = n + 1
      <4>1. i - 1 = n /\ g[i - 1] = f[n]  BY <2>4, <3>1
      <4> QED  BY <2>2, <2>5, <3>1, <4>1
    <3>2. CASE i # n + 1
      <4>1. i \in 1 .. n /\ i \in 0 .. n /\ i - 1 \in 0 .. n  BY <3>2
      <4>2. g[i] = f[i] /\ g[i - 1] = f[i - 1]  BY <2>4, <4>1
      <4> QED  BY <2>1, <4>1, <4>2 DEF MetUpTo
    <3> QED  BY <3>1, <3>2
  <2>7. g = [i \in 0 .. (n + 1) |-> g[i]]  BY <2>3
  <2>8. g[0] = NothingTaken(qty)  BY <2>1, <2>4 DEF MetUpTo
  <2>9. MetUpTo(n + 1, g, makers, side, qty, limit)  BY <2>6, <2>7, <2>8 DEF MetUpTo
  <2> QED  BY <2>9
<1>3. N \in T
  <2> HIDE DEF T
  <2>1. Nat \subseteq T  BY <1>1, <1>2, NumbersByInduction
  <2> QED  BY <1>0, <2>1
<1>4. PICK f : MetUpTo(N, f, makers, side, qty, limit)  BY <1>3
<1> HIDE DEF T
<1> DEFINE Recurs(h) ==
             h = [n \in 0 .. Len(makers) |-> IF n = 0 THEN NothingTaken(qty)
                ELSE TakeFrom(h[n - 1], makers[n], side, limit)]
           upto == CHOOSE h : Recurs(h)
<1>5. Walk(makers, side, qty, limit) = upto[Len(makers)]  BY DEF Walk
<1>6. Recurs(f)
  <2>1. ASSUME NEW n \in 0 .. N
        PROVE  f[n] = IF n = 0 THEN NothingTaken(qty)
                ELSE TakeFrom(f[n - 1], makers[n], side, limit)
    <3>1. CASE n = 0  BY <1>4, <3>1 DEF MetUpTo
    <3>2. CASE n # 0
      <4>1. n \in 1 .. N  BY <1>0, <3>2
      <4> QED  BY <1>4, <3>2, <4>1 DEF MetUpTo
    <3> QED  BY <3>1, <3>2
  <2>2. f = [i \in 0 .. N |-> f[i]]  BY <1>4 DEF MetUpTo
  <2> QED  BY <2>1, <2>2
<1>7. Recurs(upto)
  <2> HIDE DEF Recurs
  <2> QED  BY <1>6
<1>8. PICK h : h = upto  OBVIOUS
<1> HIDE DEF upto
<1>9. Recurs(h)
  <2> HIDE DEF Recurs
  <2> QED  BY <1>7, <1>8
<1>10. \A n \in 0 .. N : h[n] = IF n = 0 THEN NothingTaken(qty)
                ELSE TakeFrom(h[n - 1], makers[n], side, limit)
  BY <1>9
<1>11. h = [i \in 0 .. N |-> h[i]]  BY <1>9
<1> HIDE DEF Recurs, N
<1>12. h[0] = NothingTaken(qty)
  <2>1. 0 \in 0 .. N  BY <1>0
  <2> QED  BY <1>10, <2>1, Zenon
<1>13. ASSUME NEW i \in 1 .. N PROVE h[i] = TakeFrom(h[i - 1], makers[i], side, limit)
  <2>1. i \in 0 .. N /\ i # 0  BY <1>0
  <2> QED  BY <1>10, <2>1
<1>14. MetUpTo(N, h, makers, side, qty, limit)  BY <1>11, <1>12, <1>13 DEF MetUpTo
<1> QED  BY <1>5, <1>8, <1>14 DEF N

\* One more maker is met after the others.
LEMMA MetOnAppend ==
  ASSUME NEW S, NEW makers \in Seq(S), NEW last \in S, NEW side, NEW qty, NEW limit
  PROVE  Walk(Append(makers, last), side, qty, limit) = TakeFrom(Walk(makers, side, qty, limit), last, side, limit)
<1>1. PICK longer : longer = Append(makers, last)  OBVIOUS
<1>2. /\ longer \in Seq(S) /\ Len(makers) \in Nat /\ Len(longer) = Len(makers) + 1
      /\ \A i \in 1 .. Len(makers) : longer[i] = makers[i]
      /\ longer[Len(makers) + 1] = last
  BY <1>1
<1>3. PICK N : N = Len(makers)  OBVIOUS
<1>4. PICK f : MetUpTo(N, f, makers, side, qty, limit) /\ Walk(makers, side, qty, limit) = f[N]  BY <1>3, MetRuns
<1>5. PICK g : /\ MetUpTo(N + 1, g, longer, side, qty, limit)
               /\ Walk(longer, side, qty, limit) = g[N + 1]
  <2>1. \E g : /\ MetUpTo(Len(longer), g, longer, side, qty, limit)
                /\ Walk(longer, side, qty, limit) = g[Len(longer)]
    BY <1>2, MetRuns
  <2> QED  BY <1>2, <1>3, <2>1
<1>6. N \in Nat  BY <1>2, <1>3
<1> DEFINE T == {n \in Nat : n <= N => g[n] = f[n]}
<1>7. 0 \in T  BY <1>4, <1>5 DEF MetUpTo
<1>8. ASSUME NEW n \in Nat, n \in T PROVE n + 1 \in T
  <2> SUFFICES ASSUME n + 1 <= N PROVE g[n + 1] = f[n + 1]  OBVIOUS
  <2>1. n <= N /\ n + 1 \in 1 .. N /\ n + 1 \in 1 .. (N + 1) /\ (n + 1) - 1 = n  BY <1>6
  <2>2. g[n] = f[n]  BY <1>8, <2>1
  <2>3. longer[n + 1] = makers[n + 1]  BY <1>2, <1>3, <2>1
  <2>4. f[n + 1] = TakeFrom(f[(n + 1) - 1], makers[n + 1], side, limit)  BY <1>4, <2>1 DEF MetUpTo
  <2>5. g[n + 1] = TakeFrom(g[(n + 1) - 1], longer[n + 1], side, limit)  BY <1>5, <2>1 DEF MetUpTo
  <2> QED  BY <2>1, <2>2, <2>3, <2>4, <2>5
<1>9. g[N] = f[N]
  <2> HIDE DEF T
  <2>1. Nat \subseteq T  BY <1>7, <1>8, NumbersByInduction
  <2>2. N \in T /\ N <= N  BY <1>6, <2>1
  <2> QED  BY <2>2 DEF T
<1>10. N + 1 \in 1 .. (N + 1) /\ (N + 1) - 1 = N  BY <1>6
<1>11. g[N + 1] = TakeFrom(g[(N + 1) - 1], longer[N + 1], side, limit)  BY <1>5, <1>10 DEF MetUpTo
<1> QED  BY <1>1, <1>2, <1>3, <1>4, <1>5, <1>9, <1>10, <1>11

\* Without makers nothing is taken.
LEMMA MetNothing ==
  ASSUME NEW side, NEW qty, NEW limit
  PROVE  Walk(<<>>, side, qty, limit) = NothingTaken(qty)
<1>1. PICK none : none = <<>>  OBVIOUS
<1>2. none \in Seq({}) /\ Len(none) = 0  BY <1>1
<1>3. PICK f : MetUpTo(0, f, none, side, qty, limit) /\ Walk(none, side, qty, limit) = f[0]
  <2>1. \E f : MetUpTo(Len(none), f, none, side, qty, limit) /\ Walk(none, side, qty, limit) = f[Len(none)]
    BY <1>2, MetRuns
  <2> QED  BY <1>2, <2>1
<1> QED  BY <1>1, <1>3 DEF MetUpTo

\* One fill: nothing more happens after a refusal.
FillNext(done, fill) == IF done.result = "Ok" THEN ApplyFill(done.book, fill) ELSE done

\* The calls of the first n fills.
FilledUpTo(n, run, b, fills) ==
    /\ run = [i \in 0 .. n |-> run[i]]
    /\ run[0] = Done(b)
    /\ \A i \in 1 .. n : run[i] = FillNext(run[i - 1], fills[i])

\* The definition of ApplyFills, unfolded.
LEMMA FilledRuns ==
  ASSUME NEW S, NEW fills \in Seq(S), NEW b
  PROVE  \E run : /\ FilledUpTo(Len(fills), run, b, fills)
                  /\ ApplyFills(b, fills) = run[Len(fills)]
<1> DEFINE N == Len(fills)
           T == {n \in Nat : \E f : FilledUpTo(n, f, b, fills)}
<1>0. N \in Nat  OBVIOUS
<1>1. 0 \in T
  <2>1. PICK f : f = [i \in 0 .. 0 |-> Done(b)]  OBVIOUS
  <2>2. f = [i \in 0 .. 0 |-> f[i]] /\ f[0] = Done(b)  BY <2>1
  <2>3. FilledUpTo(0, f, b, fills)  BY <2>2 DEF FilledUpTo
  <2> QED  BY <2>3
<1>2. ASSUME NEW n \in Nat, n \in T PROVE n + 1 \in T
  <2>1. PICK f : FilledUpTo(n, f, b, fills)  BY <1>2
  <2>2. PICK m : m = FillNext(f[n], fills[n + 1])  OBVIOUS
  <2>3. PICK g : g = [i \in 0 .. (n + 1) |-> IF i = n + 1 THEN m ELSE f[i]]  OBVIOUS
  <2>4. \A i \in 0 .. n : g[i] = f[i]
    <3> SUFFICES ASSUME NEW i \in 0 .. n PROVE g[i] = f[i]  OBVIOUS
    <3>1. i \in 0 .. (n + 1) /\ i # n + 1  OBVIOUS
    <3> QED  BY <2>3, <3>1
  <2>5. g[n + 1] = m  BY <2>3
  <2>6. ASSUME NEW i \in 1 .. (n + 1) PROVE g[i] = FillNext(g[i - 1], fills[i])
    <3>1. CASE i = n + 1
      <4>1. i - 1 = n /\ g[i - 1] = f[n]  BY <2>4, <3>1
      <4> QED  BY <2>2, <2>5, <3>1, <4>1
    <3>2. CASE i # n + 1
      <4>1. i \in 1 .. n /\ i \in 0 .. n /\ i - 1 \in 0 .. n  BY <3>2
      <4>2. g[i] = f[i] /\ g[i - 1] = f[i - 1]  BY <2>4, <4>1
      <4> QED  BY <2>1, <4>1, <4>2 DEF FilledUpTo
    <3> QED  BY <3>1, <3>2
  <2>7. g = [i \in 0 .. (n + 1) |-> g[i]]  BY <2>3
  <2>8. g[0] = Done(b)  BY <2>1, <2>4 DEF FilledUpTo
  <2>9. FilledUpTo(n + 1, g, b, fills)  BY <2>6, <2>7, <2>8 DEF FilledUpTo
  <2> QED  BY <2>9
<1>3. N \in T
  <2> HIDE DEF T
  <2>1. Nat \subseteq T  BY <1>1, <1>2, NumbersByInduction
  <2> QED  BY <1>0, <2>1
<1>4. PICK f : FilledUpTo(N, f, b, fills)  BY <1>3
<1> HIDE DEF T
<1> DEFINE Recurs(h) ==
             h = [n \in 0 .. Len(fills) |-> IF n = 0 THEN Done(b)
                ELSE IF h[n - 1].result = "Ok"
                THEN ApplyFill(h[n - 1].book, fills[n]) ELSE h[n - 1]]
           upto == CHOOSE h : Recurs(h)
<1>5. ApplyFills(b, fills) = upto[Len(fills)]  BY DEF ApplyFills
<1>6. Recurs(f)
  <2>1. ASSUME NEW n \in 0 .. N
        PROVE  f[n] = IF n = 0 THEN Done(b)
                ELSE IF f[n - 1].result = "Ok"
                THEN ApplyFill(f[n - 1].book, fills[n]) ELSE f[n - 1]
    <3>1. CASE n = 0  BY <1>4, <3>1 DEF FilledUpTo
    <3>2. CASE n # 0
      <4>1. n \in 1 .. N  BY <1>0, <3>2
      <4> QED  BY <1>4, <3>2, <4>1 DEF FilledUpTo, FillNext
    <3> QED  BY <3>1, <3>2
  <2>2. f = [i \in 0 .. N |-> f[i]]  BY <1>4 DEF FilledUpTo
  <2> QED  BY <2>1, <2>2
<1>7. Recurs(upto)
  <2> HIDE DEF Recurs
  <2> QED  BY <1>6
<1>8. PICK h : h = upto  OBVIOUS
<1> HIDE DEF upto
<1>9. Recurs(h)
  <2> HIDE DEF Recurs
  <2> QED  BY <1>7, <1>8
<1>10. \A n \in 0 .. N : h[n] = IF n = 0 THEN Done(b)
                ELSE IF h[n - 1].result = "Ok"
                THEN ApplyFill(h[n - 1].book, fills[n]) ELSE h[n - 1]
  BY <1>9
<1>11. h = [i \in 0 .. N |-> h[i]]  BY <1>9
<1> HIDE DEF Recurs, N
<1>12. h[0] = Done(b)
  <2>1. 0 \in 0 .. N  BY <1>0
  <2> QED  BY <1>10, <2>1, Zenon
<1>13. ASSUME NEW i \in 1 .. N PROVE h[i] = FillNext(h[i - 1], fills[i])
  <2>1. i \in 0 .. N /\ i # 0  BY <1>0
  <2> QED  BY <1>10, <2>1 DEF FillNext
<1>14. FilledUpTo(N, h, b, fills)  BY <1>11, <1>12, <1>13 DEF FilledUpTo
<1> QED  BY <1>5, <1>8, <1>14 DEF N

\* One more fill is applied after the others.
LEMMA FilledOnAppend ==
  ASSUME NEW S, NEW fills \in Seq(S), NEW last \in S, NEW b
  PROVE  ApplyFills(b, Append(fills, last)) = FillNext(ApplyFills(b, fills), last)
<1>1. PICK longer : longer = Append(fills, last)  OBVIOUS
<1>2. /\ longer \in Seq(S) /\ Len(fills) \in Nat /\ Len(longer) = Len(fills) + 1
      /\ \A i \in 1 .. Len(fills) : longer[i] = fills[i]
      /\ longer[Len(fills) + 1] = last
  BY <1>1
<1>3. PICK N : N = Len(fills)  OBVIOUS
<1>4. PICK f : FilledUpTo(N, f, b, fills) /\ ApplyFills(b, fills) = f[N]  BY <1>3, FilledRuns
<1>5. PICK g : /\ FilledUpTo(N + 1, g, b, longer)
               /\ ApplyFills(b, longer) = g[N + 1]
  <2>1. \E g : /\ FilledUpTo(Len(longer), g, b, longer)
                /\ ApplyFills(b, longer) = g[Len(longer)]
    BY <1>2, FilledRuns
  <2> QED  BY <1>2, <1>3, <2>1
<1>6. N \in Nat  BY <1>2, <1>3
<1> DEFINE T == {n \in Nat : n <= N => g[n] = f[n]}
<1>7. 0 \in T  BY <1>4, <1>5 DEF FilledUpTo
<1>8. ASSUME NEW n \in Nat, n \in T PROVE n + 1 \in T
  <2> SUFFICES ASSUME n + 1 <= N PROVE g[n + 1] = f[n + 1]  OBVIOUS
  <2>1. n <= N /\ n + 1 \in 1 .. N /\ n + 1 \in 1 .. (N + 1) /\ (n + 1) - 1 = n  BY <1>6
  <2>2. g[n] = f[n]  BY <1>8, <2>1
  <2>3. longer[n + 1] = fills[n + 1]  BY <1>2, <1>3, <2>1
  <2>4. f[n + 1] = FillNext(f[(n + 1) - 1], fills[n + 1])  BY <1>4, <2>1 DEF FilledUpTo
  <2>5. g[n + 1] = FillNext(g[(n + 1) - 1], longer[n + 1])  BY <1>5, <2>1 DEF FilledUpTo
  <2> QED  BY <2>1, <2>2, <2>3, <2>4, <2>5
<1>9. g[N] = f[N]
  <2> HIDE DEF T
  <2>1. Nat \subseteq T  BY <1>7, <1>8, NumbersByInduction
  <2>2. N \in T /\ N <= N  BY <1>6, <2>1
  <2> QED  BY <2>2 DEF T
<1>10. N + 1 \in 1 .. (N + 1) /\ (N + 1) - 1 = N  BY <1>6
<1>11. g[N + 1] = FillNext(g[(N + 1) - 1], longer[N + 1])  BY <1>5, <1>10 DEF FilledUpTo
<1> QED  BY <1>1, <1>2, <1>3, <1>4, <1>5, <1>9, <1>10, <1>11

\* Without fills the book stays.
LEMMA FilledNothing ==
  ASSUME NEW b
  PROVE  ApplyFills(b, <<>>) = Done(b)
<1>1. PICK none : none = <<>>  OBVIOUS
<1>2. none \in Seq({}) /\ Len(none) = 0  BY <1>1
<1>3. PICK f : FilledUpTo(0, f, b, none) /\ ApplyFills(b, none) = f[0]
  <2>1. \E f : FilledUpTo(Len(none), f, b, none) /\ ApplyFills(b, none) = f[Len(none)]
    BY <1>2, FilledRuns
  <2> QED  BY <1>2, <2>1
<1> QED  BY <1>1, <1>3 DEF FilledUpTo

-----------------------------------------------------------------------------
(* Snapshots *)

\* The orders of a queue.
At(q) == {o \in Order : QueueOf(o) = q}

\* What adding a list comes to: every queue gets the orders of the list that
\* belong to it, in the order of the list.
Grown(start, orders, call) ==
    /\ SoundBook(call.book) /\ IsFiniteSet(RestingIds(call.book))
    /\ call.result = "Ok" =>
         \A q \in Queue : call.book[q] = start[q] \o Those(orders, At(q))

\* One more order of the list.
LEMMA OneMoreGrows ==
  ASSUME NEW start \in Book, NEW orders \in Seq(Order), NEW done, Grown(start, orders, done),
         NEW x \in Order
  PROVE  Grown(start, Append(orders, x), AddNext(done, x))
<1>1. PICK call : call = AddNext(done, x)  OBVIOUS
<1>2. PICK b : b = done.book  OBVIOUS
<1>3. PICK c : c = AppendOrder(b, x)  OBVIOUS
<1>4. SoundBook(b) /\ IsFiniteSet(RestingIds(b)) /\ b \in Book
  BY <1>2 DEF Grown, SoundBook
<1>5. CASE done.result # "Ok"
  <2>1. call = done  BY <1>1, <1>5 DEF AddNext
  <2> QED  BY <1>1, <1>5, <2>1 DEF Grown
<1>6. CASE done.result = "Ok" /\ (x.qty = 0 \/ x.id \in RestingIds(b))
  <2>1. call = add(b, x)  BY <1>1, <1>2, <1>6 DEF AddNext
  <2>2. call.book = b /\ call.result # "Ok"  BY <1>6, <2>1 DEF add, Fail
  <2> QED  BY <1>1, <1>4, <2>2 DEF Grown
<1>7. CASE done.result = "Ok" /\ x.qty # 0 /\ x.id \notin RestingIds(b)
  <2>1. call = add(b, x)  BY <1>1, <1>2, <1>7 DEF AddNext
  <2>2. call.book = c /\ call.result = "Ok"  BY <1>3, <1>7, <2>1 DEF add, Done
  <2>3. x.qty > 0  BY <1>7 DEF Order, Qty
  <2>4. SoundBook(c) /\ RestingIds(c) = RestingIds(b) \cup {x.id}
    BY <1>3, <1>4, <1>7, <2>3, AppendSound
  <2>5. IsFiniteSet(RestingIds(c))  BY <1>4, <2>4, FS_AddElement
  <2>6. ASSUME NEW q \in Queue
        PROVE  c[q] = start[q] \o Those(Append(orders, x), At(q))
    <3>1. PICK r : r = Those(orders, At(q))  OBVIOUS
    <3>2. r \in Seq(Order)  BY <3>1, ThoseAreKept DEF Kept
    <3>3. start[q] \in Seq(Order)  BY QueuesAreSequences
    <3>4. b[q] = start[q] \o r  BY <1>2, <1>7, <3>1 DEF Grown
    <3>5. Those(Append(orders, x), At(q)) = KeepNext(r, x, At(q))  BY <3>1, KeptOnAppend
    <3>6. DOMAIN b = Queue  BY <1>4, QueuesAreSequences
    <3>7. CASE q = QueueOf(x)
      <4>1. c[q] = Append(b[q], x)  BY <1>3, <3>6, <3>7 DEF AppendOrder
      <4>2. x \in At(q)  BY <3>7 DEF At
      <4>3. KeepNext(r, x, At(q)) = Append(r, x)  BY <4>2 DEF KeepNext
      <4>4. PICK s : s = start[q]  OBVIOUS
      <4>5. s \in Seq(Order)  BY <3>3, <4>4
      <4>6. s \o Append(r, x) = Append(s \o r, x)  BY <3>2, <4>5, LongerTogether
      <4> QED  BY <3>4, <3>5, <4>1, <4>3, <4>4, <4>6
    <3>8. CASE q # QueueOf(x)
      <4>1. c[q] = b[q]  BY <1>3, <3>6, <3>8 DEF AppendOrder
      <4>2. x \notin At(q)  BY <3>8 DEF At
      <4>3. KeepNext(r, x, At(q)) = r  BY <4>2 DEF KeepNext
      <4> QED  BY <3>4, <3>5, <4>1, <4>3
    <3> QED  BY <3>7, <3>8
  <2> QED  BY <1>1, <2>2, <2>4, <2>5, <2>6 DEF Grown
<1> QED  BY <1>5, <1>6, <1>7

\* Adding any list, whether it succeeds or stops halfway.
LEMMA AddAllGrows ==
  ASSUME NEW start, SoundBook(start), IsFiniteSet(RestingIds(start)),
         NEW orders \in Seq(Order)
  PROVE  Grown(start, orders, AddAll(start, orders))
<1> DEFINE T == {s \in Seq(Order) : Grown(start, s, AddAll(start, s))}
<1>0. start \in Book  BY DEF SoundBook
<1>1. <<>> \in T
  <2>1. AddAll(start, <<>>) = Done(start)  BY AddedNothing
  <2>2. \A q \in Queue : start[q] \o Those(<<>>, At(q)) = start[q]
    BY <1>0, QueuesAreSequences, KeptNothing, ConcatEmptySeq
  <2>3. Grown(start, <<>>, Done(start))  BY <2>2 DEF Grown, Done
  <2>4. <<>> \in Seq(Order)  OBVIOUS
  <2> QED  BY <2>1, <2>3, <2>4
<1>2. ASSUME NEW s \in Seq(Order), NEW x \in Order, s \in T PROVE Append(s, x) \in T
  <2>1. AddAll(start, Append(s, x)) = AddNext(AddAll(start, s), x)  BY AddedOnAppend
  <2>2. Grown(start, Append(s, x), AddNext(AddAll(start, s), x))
    BY <1>0, <1>2, OneMoreGrows
  <2>3. Append(s, x) \in Seq(Order)  OBVIOUS
  <2> QED  BY <2>1, <2>2, <2>3
<1>3. Seq(Order) \subseteq T
  <2> HIDE DEF T
  <2> QED  BY <1>1, <1>2, ListsByInduction
<1> QED  BY <1>3

\* Books with the same orders in the same order have the same queues.
LEMMA SameOrdersSameQueues ==
  ASSUME NEW b, SoundBook(b), NEW c, SoundBook(c), SameOrders(c, b), NEW q \in Queue
  PROVE  c[q] = b[q]
<1>1. PICK x : x = c[q]  OBVIOUS
<1>2. PICK y : y = b[q]  OBVIOUS
<1>3. Listing(x, c, {q}) /\ Listing(y, b, {q})  BY <1>1, <1>2, QueueIsListed
<1>4. x \in Seq(Order) /\ OnceEach(x) /\ y \in Seq(Order) /\ OnceEach(y)
  BY <1>3, ListedOnce
<1>5. \A n \in DOMAIN x : /\ x[n].id \in RestingIds(b) /\ x[n] = get(b, x[n].id)
                          /\ QueueOf(x[n]) = q
  BY <1>3 DEF Listing, SameOrders
<1>6. \A n \in DOMAIN y : /\ y[n].id \in RestingIds(b) /\ y[n] = get(b, y[n].id)
                          /\ QueueOf(y[n]) = q
  BY <1>3 DEF Listing
<1>7. ASSUME NEW m \in DOMAIN x PROVE \E n \in DOMAIN y : y[n] = x[m]
  <2>1. PICK n \in DOMAIN y : y[n].id = x[m].id  BY <1>3, <1>5 DEF Listing
  <2> QED  BY <1>5, <1>6, <2>1
<1>8. ASSUME NEW n \in DOMAIN y PROVE \E m \in DOMAIN x : x[m] = y[n]
  <2>1. y[n].id \in RestingIds(c) /\ QueueOf(get(c, y[n].id)) = q
    BY <1>6 DEF SameOrders
  <2>2. PICK m \in DOMAIN x : x[m].id = y[n].id  BY <1>3, <2>1 DEF Listing
  <2> QED  BY <1>5, <1>6, <2>2
<1>9. ASSUME NEW m \in DOMAIN x, NEW n \in DOMAIN x, NEW i \in DOMAIN y, NEW j \in DOMAIN y,
             m < n, i < j, x[m] = y[j], x[n] = y[i]
      PROVE  FALSE
  <2>1. x[m].id \in Ahead(c, x[n].id)  BY <1>3, <1>5, <1>9 DEF Listing
  <2>2. x[m].id \in Ahead(b, x[n].id)  BY <1>5, <2>1 DEF SameOrders
  <2>3. y[i].id \in Ahead(b, y[j].id)  BY <1>3, <1>6, <1>9 DEF Listing
  <2> QED  BY <1>5, <1>9, <2>2, <2>3, AheadOneWay
<1>10. x = y  BY <1>4, <1>7, <1>8, <1>9, OneOrderOnly
<1> QED  BY <1>1, <1>2, <1>10

\* The walk of the book passes the orders of a queue in their order.
LEMMA QueueInBookOrder ==
  ASSUME NEW b, SoundBook(b), IsFiniteSet(RestingIds(b)), NEW q \in Queue
  PROVE  Those(book_order(b), At(q)) = b[q]
<1>1. PICK l : l = book_order(b)  OBVIOUS
<1>2. Listing(l, b, Queue) /\ l \in Seq(Order)  BY <1>1, BookIsListed DEF Listing
<1>3. PICK call : call = AddAll(EmptyBook, l)  OBVIOUS
<1>4. call.result = "Ok" /\ SoundBook(call.book) /\ SameOrders(call.book, b)
  BY <1>2, <1>3, Rebuilt
<1>5. call.book[q] = b[q]  BY <1>4, SameOrdersSameQueues
<1>6. SoundBook(EmptyBook) /\ IsFiniteSet(RestingIds(EmptyBook))
  BY EmptySound, FS_EmptySet
<1>7. Grown(EmptyBook, l, call)  BY <1>2, <1>3, <1>6, AddAllGrows
<1>8. call.book[q] = EmptyBook[q] \o Those(l, At(q))  BY <1>4, <1>7 DEF Grown
<1>9. EmptyBook[q] = <<>>  BY DEF EmptyBook
<1>10. Those(l, At(q)) \in Seq(Order)  BY <1>2, ThoseAreKept DEF Kept
<1>11. <<>> \o Those(l, At(q)) = Those(l, At(q))  BY <1>10, ConcatEmptySeq
<1> QED  BY <1>1, <1>5, <1>8, <1>9, <1>11

\* What is preserved: resting local orders, each once.
LEMMA PreservedOrders ==
  ASSUME NEW b, SoundBook(b), IsFiniteSet(RestingIds(b)),
         NEW preserved, preserved = synthetic_orders_in_book_order(b)
  PROVE  /\ preserved \in Seq(Order) /\ OnceEach(preserved)
         /\ \A i \in DOMAIN preserved : preserved[i].qty > 0 /\ preserved[i].id \in SyntheticId
<1>1. PICK l : l = book_order(b)  OBVIOUS
<1>2. Listing(l, b, Queue)  BY <1>1, BookIsListed
<1>3. l \in Seq(Order) /\ OnceEach(l)  BY <1>2, ListedOnce
<1>4. preserved = Those(l, Synthetic)  BY <1>1 DEF synthetic_orders_in_book_order
<1>5. Kept(preserved, l, Synthetic)  BY <1>3, <1>4, ThoseAreKept
<1>6. \A n \in DOMAIN l : l[n].qty > 0
  <2> SUFFICES ASSUME NEW n \in DOMAIN l PROVE l[n].qty > 0  OBVIOUS
  <2>1. l[n].id \in RestingIds(b) /\ l[n] = get(b, l[n].id)  BY <1>2 DEF Listing
  <2> QED  BY <2>1, RestsSomewhere
<1>7. \A i \in DOMAIN preserved : preserved[i] \in Synthetic /\ preserved[i].qty > 0
  BY <1>5, <1>6 DEF Kept
<1> QED  BY <1>3, <1>5, <1>7 DEF Kept, Synthetic

\* A snapshot that passes the check has no fault anywhere.
LEMMA ValidMeans ==
  ASSUME NEW orders \in Seq(Order), NEW preserved,
         validate_preserve_synthetic_snapshot(orders, preserved) = "Ok",
         NEW i \in DOMAIN orders
  PROVE  SnapshotFault(orders, preserved, i) = "Ok"
<1> DEFINE faulty == {n \in DOMAIN orders : SnapshotFault(orders, preserved, n) # "Ok"}
           first == CHOOSE n \in faulty : \A j \in faulty : n <= j
<1>1. faulty \subseteq Nat
  <2>1. DOMAIN orders = 1 .. Len(orders) /\ Len(orders) \in Nat  BY LenProperties
  <2> QED  BY <2>1
<1>2. CASE faulty = {}  BY <1>2
<1>3. CASE faulty # {}
  <2>1. first \in faulty
    <3> HIDE DEF faulty
    <3>1. \E n \in faulty : \A j \in faulty : n <= j  BY <1>1, <1>3, LeastNumber
    <3> QED  BY <3>1
  <2>2. validate_preserve_synthetic_snapshot(orders, preserved)
          = SnapshotFault(orders, preserved, first)
    BY <1>3 DEF validate_preserve_synthetic_snapshot
  <2> QED  BY <2>1, <2>2
<1> QED  BY <1>2, <1>3

\* The insertions after the check meet no error: every order of the snapshot has
\* a quantity and an id of its own, and so has every order that is preserved.
LEMMA ValidSnapshotsAreNew ==
  ASSUME NEW b, SoundBook(b), IsFiniteSet(RestingIds(b)),
         NEW preserved, preserved = synthetic_orders_in_book_order(b),
         NEW orders \in Seq(Order),
         validate_preserve_synthetic_snapshot(orders, preserved) = "Ok",
         NEW all, all = orders \o preserved
  PROVE  NewOrders(EmptyBook, all)
<1>1. /\ preserved \in Seq(Order) /\ OnceEach(preserved)
      /\ \A i \in DOMAIN preserved : preserved[i].qty > 0 /\ preserved[i].id \in SyntheticId
  BY PreservedOrders
<1>2. ASSUME NEW i \in DOMAIN orders
      PROVE  /\ orders[i].qty > 0
             /\ orders[i].id \notin Ids(preserved)
             /\ \A j \in 1 .. (i - 1) : orders[j].id # orders[i].id
  <2>1. SnapshotFault(orders, preserved, i) = "Ok"  BY ValidMeans
  <2>2. /\ orders[i].qty # 0 /\ orders[i].id \notin Ids(preserved)
        /\ ~\E j \in 1 .. (i - 1) : orders[j].id = orders[i].id
    BY <2>1 DEF SnapshotFault
  <2>3. orders[i].qty \in Nat
    <3>1. orders[i] \in Order  BY LenProperties, ElementOfSeq
    <3> QED  BY <3>1 DEF Order, Qty
  <2> QED  BY <2>2, <2>3
<1>3. /\ Len(orders) \in Nat /\ DOMAIN orders = 1 .. Len(orders)
      /\ Len(preserved) \in Nat /\ DOMAIN preserved = 1 .. Len(preserved)
  BY <1>1, LenProperties
<1>4. /\ all \in Seq(Order) /\ Len(all) = Len(orders) + Len(preserved)
      /\ \A i \in 1 .. Len(orders) + Len(preserved) :
           all[i] = IF i <= Len(orders) THEN orders[i] ELSE preserved[i - Len(orders)]
  BY <1>1, ConcatProperties
<1>5. DOMAIN all = 1 .. Len(orders) + Len(preserved)  BY <1>4, LenProperties
<1>6. ASSUME NEW i \in DOMAIN all
      PROVE  \/ i \in DOMAIN orders /\ i <= Len(orders) /\ all[i] = orders[i]
             \/ /\ i - Len(orders) \in DOMAIN preserved /\ i > Len(orders)
                /\ all[i] = preserved[i - Len(orders)]
  <2>1. i \in 1 .. Len(orders) + Len(preserved)  BY <1>5
  <2>2. CASE i <= Len(orders)  BY <1>3, <1>4, <2>1, <2>2
  <2>3. CASE ~(i <= Len(orders))
    <3>1. i - Len(orders) \in 1 .. Len(preserved) /\ i > Len(orders)  BY <1>3, <2>1, <2>3
    <3> QED  BY <1>3, <1>4, <2>1, <2>3, <3>1
  <2> QED  BY <2>2, <2>3
<1>7. ASSUME NEW n \in DOMAIN all
      PROVE  all[n].qty > 0 /\ all[n].id \notin RestingIds(EmptyBook)
  <2>1. all[n].qty > 0  BY <1>1, <1>2, <1>6
  <2> QED  BY <2>1, EmptySound
<1>8. ASSUME NEW m \in DOMAIN all, NEW n \in DOMAIN all, m < n PROVE all[m].id # all[n].id
  <2>0. m \in Nat /\ n \in Nat /\ m >= 1  BY <1>3, <1>5
  <2>1. CASE n \in DOMAIN orders /\ n <= Len(orders) /\ all[n] = orders[n]
    <3>1. m \in DOMAIN orders /\ all[m] = orders[m]  BY <1>3, <1>6, <1>8, <2>0, <2>1
    <3>2. m \in 1 .. (n - 1)  BY <1>8, <2>0
    <3> QED  BY <1>2, <2>1, <3>1, <3>2
  <2>2. CASE n - Len(orders) \in DOMAIN preserved /\ all[n] = preserved[n - Len(orders)]
    <3>1. CASE m \in DOMAIN orders /\ all[m] = orders[m]
      <4>1. orders[m].id \notin Ids(preserved)  BY <1>2, <3>1
      <4>2. preserved[n - Len(orders)].id \in Ids(preserved)  BY <2>2 DEF Ids
      <4> QED  BY <2>2, <3>1, <4>1, <4>2
    <3>2. CASE m - Len(orders) \in DOMAIN preserved /\ all[m] = preserved[m - Len(orders)]
      <4>1. m - Len(orders) < n - Len(orders)  BY <1>3, <1>8, <2>0
      <4> QED  BY <1>1, <2>2, <3>2, <4>1 DEF OnceEach
    <3> QED  BY <1>6, <3>1, <3>2
  <2> QED  BY <1>6, <2>1, <2>2
<1> QED  BY <1>4, <1>7, <1>8 DEF NewOrders

\* The cases of a snapshot: refused by the check, or every insertion made.
LEMMA SnapshotCases ==
  ASSUME NEW b, NEW orders, NEW policy \in SnapshotPolicy,
         NEW call, call = apply_snapshot_with_policy(b, orders, policy)
  PROVE  \/ policy = "PreserveSynthetic" /\ call.book = b /\ call.result # "Ok"
         \/ /\ policy = "PreserveSynthetic"
            /\ validate_preserve_synthetic_snapshot(orders, synthetic_orders_in_book_order(b)) = "Ok"
            /\ call = AddAll(EmptyBook, orders \o synthetic_orders_in_book_order(b))
         \/ policy = "Replace" /\ call = AddAll(EmptyBook, orders \o <<>>)
<1>1. PICK preserved : preserved = synthetic_orders_in_book_order(b)  OBVIOUS
<1>2. PICK fault : fault = validate_preserve_synthetic_snapshot(orders, preserved)  OBVIOUS
<1>3. CASE policy = "Replace"
  BY <1>3 DEF apply_snapshot_with_policy, Replaced
<1>4. CASE policy = "PreserveSynthetic" /\ fault = "Ok"
  BY <1>1, <1>2, <1>4 DEF apply_snapshot_with_policy, Replaced
<1>5. CASE policy = "PreserveSynthetic" /\ fault # "Ok"
  BY <1>1, <1>2, <1>5 DEF apply_snapshot_with_policy, Fail
<1> QED  BY <1>3, <1>4, <1>5 DEF SnapshotPolicy

\* Snapshots are lists of orders.
LEMMA SnapshotsAreLists == Snapshot \subseteq Seq(Order)
<1> SUFFICES ASSUME NEW n \in 0 .. MaxSnapshot, NEW orders \in [1 .. n -> Order]
             PROVE  orders \in Seq(Order)
  BY DEF Snapshot
<1>1. n \in Nat  OBVIOUS
<1> QED  BY <1>1, SeqDef

\* Whatever a snapshot does, the book stays sound.
LEMMA SnapshotSound ==
  ASSUME NEW b, SoundBook(b), IsFiniteSet(RestingIds(b)), NEW orders \in Seq(Order),
         NEW policy \in SnapshotPolicy,
         NEW call, call = apply_snapshot_with_policy(b, orders, policy)
  PROVE  SoundBook(call.book) /\ IsFiniteSet(RestingIds(call.book))
<1>1. SoundBook(EmptyBook) /\ IsFiniteSet(RestingIds(EmptyBook))
  BY EmptySound, FS_EmptySet
<1>2. PICK preserved : preserved = synthetic_orders_in_book_order(b)  OBVIOUS
<1>3. preserved \in Seq(Order)  BY <1>2, PreservedOrders
<1>4. orders \o preserved \in Seq(Order) /\ orders \o <<>> \in Seq(Order)
  BY <1>3, ConcatProperties, ConcatEmptySeq
<1>5. \A l \in Seq(Order) : Grown(EmptyBook, l, AddAll(EmptyBook, l))
  BY <1>1, AddAllGrows
<1>6. \A l \in Seq(Order) : /\ SoundBook(AddAll(EmptyBook, l).book)
                            /\ IsFiniteSet(RestingIds(AddAll(EmptyBook, l).book))
  BY <1>5 DEF Grown
<1>7. CASE call.book = b  BY <1>7
<1>8. CASE \E l \in Seq(Order) : call = AddAll(EmptyBook, l)  BY <1>6, <1>8
<1>9. \/ call.book = b
      \/ call = AddAll(EmptyBook, orders \o preserved)
      \/ call = AddAll(EmptyBook, orders \o <<>>)
  BY <1>2, SnapshotCases
<1> QED  BY <1>4, <1>7, <1>8, <1>9

-----------------------------------------------------------------------------
(* The orders of a side, best price first *)

\* No order of the list has a better price than one before it.
Sorted(orders, side) ==
    \A m, n \in DOMAIN orders : m < n => ~Better(side, orders[n].price, orders[m].price)

\* Sorted lists one after the other, the second no better than the first.
LEMMA JoinSorted ==
  ASSUME NEW x \in Seq(Order), NEW y \in Seq(Order), NEW side,
         Sorted(x, side), Sorted(y, side),
         \A m \in DOMAIN x, n \in DOMAIN y : ~Better(side, y[n].price, x[m].price),
         NEW z, z = x \o y
  PROVE  Sorted(z, side)
<1>1. /\ Len(x) \in Nat /\ Len(y) \in Nat
      /\ DOMAIN x = 1 .. Len(x) /\ DOMAIN y = 1 .. Len(y)
  BY LenProperties
<1>2. /\ z \in Seq(Order) /\ Len(z) = Len(x) + Len(y)
      /\ \A i \in 1 .. Len(x) + Len(y) : z[i] = IF i <= Len(x) THEN x[i] ELSE y[i - Len(x)]
  BY ConcatProperties
<1>3. DOMAIN z = 1 .. Len(x) + Len(y)  BY <1>2, LenProperties
<1>4. ASSUME NEW i \in DOMAIN z
      PROVE  \/ i \in DOMAIN x /\ z[i] = x[i] /\ i <= Len(x)
             \/ i - Len(x) \in DOMAIN y /\ z[i] = y[i - Len(x)] /\ i > Len(x)
  <2>1. i \in 1 .. Len(x) + Len(y)  BY <1>3
  <2>2. CASE i <= Len(x)  BY <1>1, <1>2, <2>1, <2>2
  <2>3. CASE ~(i <= Len(x))
    <3>1. i - Len(x) \in 1 .. Len(y) /\ i > Len(x)  BY <1>1, <2>1, <2>3
    <3> QED  BY <1>1, <1>2, <2>1, <2>3, <3>1
  <2> QED  BY <2>2, <2>3
<1>5. ASSUME NEW m \in DOMAIN z, NEW n \in DOMAIN z, m < n
      PROVE  ~Better(side, z[n].price, z[m].price)
  <2>0. m \in Nat /\ n \in Nat /\ m >= 1  BY <1>1, <1>3
  <2>1. CASE n \in DOMAIN x /\ z[n] = x[n] /\ n <= Len(x)
    <3>1. m \in DOMAIN x /\ z[m] = x[m]  BY <1>1, <1>4, <1>5, <2>0, <2>1
    <3> QED  BY <1>5, <2>1, <3>1 DEF Sorted
  <2>2. CASE n - Len(x) \in DOMAIN y /\ z[n] = y[n - Len(x)]
    <3>1. CASE m \in DOMAIN x /\ z[m] = x[m]  BY <2>2, <3>1
    <3>2. CASE m - Len(x) \in DOMAIN y /\ z[m] = y[m - Len(x)]
      <4>1. m - Len(x) < n - Len(x)  BY <1>1, <1>5, <2>0
      <4> QED  BY <2>2, <3>2, <4>1 DEF Sorted
    <3> QED  BY <1>4, <3>1, <3>2
  <2> QED  BY <1>4, <2>1, <2>2
<1> QED  BY <1>5 DEF Sorted

\* A queue has one price.
LEMMA QueueIsSorted ==
  ASSUME NEW b, SoundBook(b), NEW k \in Queue, NEW side
  PROVE  /\ b[k] \in Seq(Order)
         /\ \A n \in DOMAIN b[k] : QueueOf(b[k][n]) = k /\ b[k][n].price = k[2]
         /\ Sorted(b[k], side)
<1>1. b[k] \in Seq(Order) /\ \A n \in DOMAIN b[k] : b[k][n] \in Order
  BY QueuesAreSequences DEF SoundBook
<1>2. ASSUME NEW n \in DOMAIN b[k]
      PROVE  QueueOf(b[k][n]) = k /\ b[k][n].price = k[2] /\ k[2] \in Nat
  <2>1. QueueOf(b[k][n]) = k  BY DEF SoundBook, OneOrderPerId
  <2>2. b[k][n].price = k[2]  BY <2>1 DEF QueueOf
  <2>3. b[k][n].price \in Nat  BY <1>1, PriceAssumption DEF Order
  <2> QED  BY <2>1, <2>2, <2>3
<1>3. Sorted(b[k], side)
  <2> SUFFICES ASSUME NEW m \in DOMAIN b[k], NEW n \in DOMAIN b[k]
               PROVE  ~Better(side, b[k][n].price, b[k][m].price)
    BY DEF Sorted
  <2>1. b[k][n].price = b[k][m].price /\ b[k][m].price \in Nat  BY <1>2
  <2> QED  BY <2>1 DEF Better
<1> QED  BY <1>1, <1>2, <1>3

\* The queues of a side, one after the other from the best price.
LEMMA FlattenedIsSorted ==
  ASSUME NEW b, SoundBook(b), NEW side, NEW ks \in Seq(Queue),
         \A i, j \in DOMAIN ks : i < j => Better(side, ks[i][2], ks[j][2]),
         NEW seqs, seqs = [i \in DOMAIN ks |-> b[ks[i]]]
  PROVE  Sorted(Lists!FlattenSeq(seqs), side)
<1> DEFINE N == Len(ks)
           Fine(n, l) == /\ l \in Seq(Order) /\ Sorted(l, side)
                         /\ \A m \in DOMAIN l : \E i \in 1 .. n : l[m].price = ks[i][2]
<1>0. N \in Nat /\ DOMAIN ks = 1 .. N /\ b \in Book /\ \A i \in 1 .. N : ks[i] \in Queue
  BY LenProperties DEF SoundBook
<1>1. \A i \in 1 .. N : seqs[i] = b[ks[i]] /\ seqs[i] \in Seq(Order)
  BY <1>0, QueuesAreSequences
<1>2. seqs \in Seq(Seq(Order)) /\ Len(seqs) = N
  <2>1. seqs \in [1 .. N -> Seq(Order)]  BY <1>0, <1>1
  <2>2. seqs \in Seq(Seq(Order))  BY <1>0, <2>1, SeqDef
  <2>3. DOMAIN seqs = 1 .. N /\ DOMAIN seqs = 1 .. Len(seqs) /\ Len(seqs) \in Nat
    BY <2>1, <2>2, LenProperties
  <2> QED  BY <1>0, <2>2, <2>3
<1>3. CASE N = 0
  <2>1. DOMAIN seqs = {} /\ seqs = <<>>  BY <1>0, <1>2, <1>3
  <2>2. Lists!FlattenSeq(seqs) = seqs  BY <2>1 DEF Lists!FlattenSeq
  <2> QED  BY <2>1, <2>2 DEF Sorted
<1>4. CASE N # 0
  <2>1. PICK run : JoinedUpTo(N, run, seqs) /\ Lists!FlattenSeq(seqs) = run[N]
    BY <1>2, <1>4, FlattenJoins
  <2> HIDE DEF N, Fine
  <2> DEFINE T == {n \in Nat : n + 1 <= N => Fine(n + 1, run[n + 1])}
  <2>2. ASSUME NEW i \in 1 .. N
        PROVE  /\ seqs[i] \in Seq(Order) /\ Sorted(seqs[i], side)
               /\ \A m \in DOMAIN seqs[i] : seqs[i][m].price = ks[i][2]
    <3>1. PICK k : k = ks[i]  OBVIOUS
    <3>2. k \in Queue /\ seqs[i] = b[k]  BY <1>0, <1>1, <3>1
    <3>3. /\ b[k] \in Seq(Order) /\ Sorted(b[k], side)
          /\ \A n \in DOMAIN b[k] : b[k][n].price = k[2]
      BY <3>2, QueueIsSorted
    <3> QED  BY <3>1, <3>2, <3>3
  <2>3. 0 \in T
    <3>1. 1 \in 1 .. N  BY <1>0, <1>4
    <3>2. run[1] = seqs[1]  BY <2>1 DEF JoinedUpTo
    <3>3. /\ run[1] \in Seq(Order) /\ Sorted(run[1], side)
          /\ \A m \in DOMAIN run[1] : run[1][m].price = ks[1][2]
      <4>1. /\ seqs[1] \in Seq(Order) /\ Sorted(seqs[1], side)
            /\ \A m \in DOMAIN seqs[1] : seqs[1][m].price = ks[1][2]
        BY ONLY <2>2, <3>1
      <4> QED  BY <3>2, <4>1
    <3>5. 1 \in 1 .. 1  OBVIOUS
    <3>6. Fine(1, run[1])  BY <3>3, <3>5 DEF Fine
    <3>4. 0 + 1 = 1  OBVIOUS
    <3> QED  BY <3>4, <3>6
  <2>4. ASSUME NEW n \in Nat, n \in T PROVE n + 1 \in T
    <3> SUFFICES ASSUME (n + 1) + 1 <= N PROVE Fine((n + 1) + 1, run[(n + 1) + 1])
      OBVIOUS
    <3>1. n + 1 \in 1 .. (N - 1) /\ n + 1 <= N /\ n + 2 \in 1 .. N /\ (n + 1) + 1 = n + 2
      BY <1>0
    <3>2. PICK x : x = run[n + 1]  OBVIOUS
    <3>3. PICK y : y = seqs[n + 2]  OBVIOUS
    <3>4. PICK z : z = x \o y  OBVIOUS
    <3>5. Fine(n + 1, x)  BY <2>4, <3>1, <3>2
    <3>6. run[n + 2] = z  BY <2>1, <3>1, <3>2, <3>3, <3>4 DEF JoinedUpTo
    <3>7. /\ y \in Seq(Order) /\ Sorted(y, side)
          /\ \A m \in DOMAIN y : y[m].price = ks[n + 2][2]
      BY <2>2, <3>1, <3>3
    <3>8. x \in Seq(Order) /\ Sorted(x, side)  BY <3>5 DEF Fine
    <3>9. ASSUME NEW m \in DOMAIN x, NEW h \in DOMAIN y
          PROVE  ~Better(side, y[h].price, x[m].price)
      <4>1. PICK i \in 1 .. (n + 1) : x[m].price = ks[i][2]  BY <3>5 DEF Fine
      <4>2. i \in 1 .. N /\ i < n + 2  BY <1>0, <3>1
      <4>3. Better(side, x[m].price, y[h].price)  BY <1>0, <3>1, <3>7, <4>1, <4>2
      <4>4. x[m].price \in Nat /\ y[h].price \in Nat
        <5>1. x[m] \in Order /\ y[h] \in Order  BY <3>7, <3>8, LenProperties, ElementOfSeq
        <5> QED  BY <5>1, PriceAssumption DEF Order
      <4> QED  BY <4>3, <4>4 DEF Better
    <3>10. Sorted(z, side)  BY <3>4, <3>7, <3>8, <3>9, JoinSorted
    <3>11. z \in Seq(Order)  BY <3>4, <3>7, <3>8, ConcatProperties
    <3>12. ASSUME NEW m \in DOMAIN z PROVE \E i \in 1 .. (n + 2) : z[m].price = ks[i][2]
      <4>1. /\ Len(x) \in Nat /\ Len(y) \in Nat
            /\ DOMAIN x = 1 .. Len(x) /\ DOMAIN y = 1 .. Len(y)
        BY <3>7, <3>8, LenProperties
      <4>2. /\ Len(z) = Len(x) + Len(y)
            /\ \A i \in 1 .. Len(x) + Len(y) :
                 z[i] = IF i <= Len(x) THEN x[i] ELSE y[i - Len(x)]
        BY <3>4, <3>7, <3>8, ConcatProperties
      <4>3. DOMAIN z = 1 .. Len(x) + Len(y)  BY <3>11, <4>2, LenProperties
      <4>4. CASE m <= Len(x)
        <5>1. m \in DOMAIN x /\ z[m] = x[m]  BY <4>1, <4>2, <4>3, <4>4
        <5>2. PICK i \in 1 .. (n + 1) : x[m].price = ks[i][2]  BY <3>5, <5>1 DEF Fine
        <5>3. i \in 1 .. (n + 2)  OBVIOUS
        <5> QED  BY <5>1, <5>2, <5>3
      <4>5. CASE ~(m <= Len(x))
        <5>1. m - Len(x) \in 1 .. Len(y)  BY <4>1, <4>3, <4>5
        <5>2. z[m] = y[m - Len(x)]  BY <4>1, <4>2, <4>3, <4>5
        <5>3. z[m].price = ks[n + 2][2]  BY <3>7, <4>1, <5>1, <5>2
        <5>4. n + 2 \in 1 .. (n + 2)  OBVIOUS
        <5> QED  BY <5>3, <5>4
      <4> QED  BY <4>4, <4>5
    <3> QED  BY <3>1, <3>6, <3>10, <3>11, <3>12 DEF Fine
  <2> HIDE DEF T
  <2>5. N - 1 \in T
    <3>1. Nat \subseteq T  BY <2>3, <2>4, NumbersByInduction
    <3> QED  BY <1>0, <1>4, <3>1
  <2>6. Fine(N, run[N])
    <3>1. (N - 1) + 1 <= N => Fine((N - 1) + 1, run[(N - 1) + 1])  BY <2>5 DEF T
    <3>2. (N - 1) + 1 = N /\ N <= N  BY <1>0
    <3> QED  BY <3>1, <3>2
  <2> QED  BY <2>1, <2>6 DEF Fine
<1> QED  BY <1>3, <1>4

\* SideOrders is sorted.
LEMMA SideIsSorted ==
  ASSUME NEW b, SoundBook(b), IsFiniteSet(RestingIds(b)), NEW side \in Side
  PROVE  Sorted(SideOrders(b, side), side)
<1> DEFINE T == PricesOf(b, side)
           n == Cardinality(T)
           best == depth(b, side)
<1>1. IsFiniteSet(T)  BY FinitePrices
<1>2. n \in Nat  BY <1>1, FS_CardinalityType
<1>3. BestFirst(best, side, T)  BY <1>1, DepthIsSorted
<1>4. T \subseteq Price  BY DEF PricesOf
<1> HIDE DEF best, T, n
<1>5. best \in [1 .. n -> T] /\ DOMAIN best = 1 .. n /\ \A i \in 1 .. n : best[i] \in Price
  BY <1>3, <1>4 DEF BestFirst, n
<1>7. PICK ks : ks = [i \in 1 .. n |-> <<side, best[i]>>]  OBVIOUS
<1>8. ks \in Seq(Queue) /\ DOMAIN ks = 1 .. n
  <2>1. ks \in [1 .. n -> Queue]  BY <1>5, <1>7 DEF Queue
  <2> QED  BY <1>2, <2>1, SeqDef
<1>9. \A i, j \in DOMAIN ks : i < j => Better(side, ks[i][2], ks[j][2])
  <2> SUFFICES ASSUME NEW i \in 1 .. n, NEW j \in 1 .. n, i < j
               PROVE  Better(side, ks[i][2], ks[j][2])
    BY <1>8
  <2>1. ks[i][2] = best[i] /\ ks[j][2] = best[j]  BY <1>7
  <2>2. Better(side, best[i], best[j])  BY <1>3, <1>5 DEF BestFirst
  <2> QED  BY <2>1, <2>2
<1>10. PICK seqs : seqs = [i \in DOMAIN ks |-> b[ks[i]]]  OBVIOUS
<1>11. SideOrders(b, side) = Lists!FlattenSeq(seqs)
  <2>1. seqs = [i \in DOMAIN best |-> b[<<side, best[i]>>]]
    BY <1>5, <1>7, <1>8, <1>10
  <2> QED  BY <2>1 DEF SideOrders, best
<1>12. Sorted(Lists!FlattenSeq(seqs), side)  BY <1>8, <1>9, <1>10, FlattenedIsSorted
<1> QED  BY <1>11, <1>12

\* The orders of a side in price-time order.
InPriority(orders, b, side) == Listing(orders, b, {side} \X Price) /\ Sorted(orders, side)

\* There is one price-time order, and SideOrders is it.
LEMMA OnePriority ==
  ASSUME NEW b, SoundBook(b), IsFiniteSet(RestingIds(b)), NEW side \in Side,
         NEW x, InPriority(x, b, side)
  PROVE  SideOrders(b, side) = x
<1>1. PICK y : y = SideOrders(b, side)  OBVIOUS
<1>2. InPriority(y, b, side)  BY <1>1, SideIsListed, SideIsSorted DEF InPriority
<1>3. /\ x \in Seq(Order) /\ OnceEach(x) /\ y \in Seq(Order) /\ OnceEach(y)
      /\ Listing(x, b, {side} \X Price) /\ Listing(y, b, {side} \X Price)
      /\ Sorted(x, side) /\ Sorted(y, side)
  BY <1>2, ListedOnce DEF InPriority
<1>4. \A n \in DOMAIN x : /\ x[n].id \in RestingIds(b) /\ x[n] = get(b, x[n].id)
                          /\ QueueOf(x[n]) \in {side} \X Price
  BY <1>3 DEF Listing
<1>5. \A n \in DOMAIN y : /\ y[n].id \in RestingIds(b) /\ y[n] = get(b, y[n].id)
                          /\ QueueOf(y[n]) \in {side} \X Price
  BY <1>3 DEF Listing
<1>6. ASSUME NEW m \in DOMAIN x PROVE \E n \in DOMAIN y : y[n] = x[m]
  <2>1. PICK n \in DOMAIN y : y[n].id = x[m].id  BY <1>3, <1>4 DEF Listing
  <2> QED  BY <1>4, <1>5, <2>1
<1>7. ASSUME NEW n \in DOMAIN y PROVE \E m \in DOMAIN x : x[m] = y[n]
  <2>1. PICK m \in DOMAIN x : x[m].id = y[n].id  BY <1>3, <1>5 DEF Listing
  <2> QED  BY <1>4, <1>5, <2>1
<1>8. ASSUME NEW m \in DOMAIN x, NEW n \in DOMAIN x, NEW i \in DOMAIN y, NEW j \in DOMAIN y,
             m < n, i < j, x[m] = y[j], x[n] = y[i]
      PROVE  FALSE
  <2>1. CASE QueueOf(x[m]) = QueueOf(x[n])
    <3>1. x[m].id \in Ahead(b, x[n].id)  BY <1>3, <1>8, <2>1 DEF Listing
    <3>2. y[i].id \in Ahead(b, y[j].id)  BY <1>3, <1>8, <2>1 DEF Listing
    <3> QED  BY <1>4, <1>8, <3>1, <3>2, AheadOneWay
  <2>2. CASE QueueOf(x[m]) # QueueOf(x[n])
    <3>1. x[m].side = side /\ x[n].side = side  BY <1>4 DEF QueueOf
    <3>2. x[m].price # x[n].price  BY <2>2, <3>1 DEF QueueOf
    <3>3. x[m].price \in Nat /\ x[n].price \in Nat
      <4>1. x[m] \in Order /\ x[n] \in Order  BY <1>3, LenProperties, ElementOfSeq
      <4> QED  BY <4>1, PriceAssumption DEF Order
    <3>4. ~Better(side, x[n].price, x[m].price)  BY <1>3, <1>8 DEF Sorted
    <3>5. ~Better(side, y[j].price, y[i].price)  BY <1>3, <1>8 DEF Sorted
    <3> QED  BY <1>8, <3>2, <3>3, <3>4, <3>5 DEF Better
  <2> QED  BY <2>1, <2>2
<1>9. y = x  BY <1>3, <1>6, <1>7, <1>8, OneOrderOnly
<1> QED  BY <1>1, <1>9

\* Books with the same queues on a side have the same price-time order there.
LEMMA SameSide ==
  ASSUME NEW b, SoundBook(b), IsFiniteSet(RestingIds(b)), NEW side \in Side,
         NEW c, \A p \in Price : c[<<side, p>>] = b[<<side, p>>]
  PROVE  depth(c, side) = depth(b, side) /\ SideOrders(c, side) = SideOrders(b, side)
<1>1. PricesOf(c, side) = PricesOf(b, side)  BY DEF PricesOf
<1>2. depth(c, side) = depth(b, side)
  <2>1. {p \in Price : c[<<side, p>>] # <<>>} = {p \in Price : b[<<side, p>>] # <<>>}
    BY <1>1 DEF PricesOf
  <2> QED  BY <2>1 DEF depth
<1>3. PICK best : best = depth(b, side)  OBVIOUS
<1>4. BestFirst(best, side, PricesOf(b, side))  BY <1>3, DepthIsSorted, FinitePrices
<1>5. \A i \in DOMAIN best : best[i] \in Price  BY <1>4 DEF BestFirst, PricesOf
<1>6. [i \in DOMAIN best |-> c[<<side, best[i]>>]] = [i \in DOMAIN best |-> b[<<side, best[i]>>]]
  BY <1>5
<1> QED  BY <1>2, <1>3, <1>6 DEF SideOrders


-----------------------------------------------------------------------------
(* The order that a taker meets first *)

\* What is known of the first order of a side.
Headed(b, side, M, id) ==
    /\ M \in Seq(Order) /\ Listing(M, b, {side} \X Price) /\ Sorted(M, side)
    /\ OnceEach(M)
    /\ 1 \in DOMAIN M
    /\ id \in RestingIds(b) /\ get(b, id) = M[1] /\ M[1] \in Order /\ M[1].qty > 0
    /\ HomeOf(b, id) = QueueOf(M[1]) /\ QueueOf(M[1])[1] = side
    /\ \A n \in DOMAIN M : n # 1 => M[n].id # id

\* The first order rests; it is in the list once.
LEMMA HeadOfSide ==
  ASSUME NEW b, SoundBook(b), IsFiniteSet(RestingIds(b)), NEW side \in Side,
         NEW M, M = SideOrders(b, side), M # <<>>, NEW id, id = M[1].id
  PROVE  Headed(b, side, M, id)
<1>1. Listing(M, b, {side} \X Price) /\ Sorted(M, side)  BY SideIsListed, SideIsSorted
<1>2. M \in Seq(Order) /\ OnceEach(M)  BY <1>1, ListedOnce
<1>3. DOMAIN M = 1 .. Len(M) /\ Len(M) \in Nat  BY <1>2, LenProperties
<1>4. Len(M) # 0  BY <1>2, EmptySeq
<1>5. 1 \in DOMAIN M  BY <1>3, <1>4
<1>6. id \in RestingIds(b) /\ get(b, id) = M[1] /\ QueueOf(M[1]) \in {side} \X Price
  BY <1>1, <1>5 DEF Listing
<1>7. M[1] \in Order /\ M[1].qty > 0 /\ HomeOf(b, id) = QueueOf(M[1])
  BY <1>6, RestsSomewhere
<1>8. \A n \in DOMAIN M : n # 1 => 1 < n  BY <1>3
<1>9. \A n \in DOMAIN M : n # 1 => M[n].id # id  BY <1>2, <1>5, <1>8 DEF OnceEach
<1>10. QueueOf(M[1])[1] = side  BY <1>6
<1> QED  BY <1>1, <1>2, <1>5, <1>6, <1>7, <1>9, <1>10 DEF Headed

\* A maker that is filled whole leaves; the next ones close up.
LEMMA HeadDropped ==
  ASSUME NEW b, SoundBook(b), IsFiniteSet(RestingIds(b)), NEW side \in Side,
         NEW M, M = SideOrders(b, side), M # <<>>, NEW c, c = DropOrder(b, M[1].id)
  PROVE  /\ SoundBook(c) /\ IsFiniteSet(RestingIds(c))
         /\ RestingIds(c) \subseteq RestingIds(b)
         /\ SideOrders(c, side) = Tail(M)
         /\ \A k \in Queue : k[1] # side => c[k] = b[k]
<1>1. PICK id : id = M[1].id  OBVIOUS
<1>2. /\ M \in Seq(Order) /\ Listing(M, b, {side} \X Price) /\ Sorted(M, side)
      /\ OnceEach(M)
      /\ 1 \in DOMAIN M
      /\ id \in RestingIds(b) /\ get(b, id) = M[1] /\ M[1] \in Order /\ M[1].qty > 0
      /\ HomeOf(b, id) = QueueOf(M[1]) /\ QueueOf(M[1])[1] = side
      /\ \A n \in DOMAIN M : n # 1 => M[n].id # id
  <2>1. Headed(b, side, M, id)  BY <1>1, HeadOfSide
  <2> QED  BY <2>1 DEF Headed
<1>3. c = DropOrder(b, id)  BY <1>1
<1>4. SoundBook(c) /\ RestingIds(c) = RestingIds(b) \ {id}  BY <1>2, <1>3, DropSound
<1>5. IsFiniteSet(RestingIds(c))  BY <1>4, FS_Subset
<1>6. ASSUME NEW k \in Queue, k[1] # side PROVE c[k] = b[k]
  <2>1. k # HomeOf(b, id)  BY <1>2, <1>6
  <2> QED  BY <1>2, <1>3, <2>1, DropEffect
<1>7. PICK t : t = Tail(M)  OBVIOUS
<1>8. /\ t \in Seq(Order) /\ DOMAIN t = 1 .. (Len(M) - 1) /\ Len(M) \in Nat
      /\ DOMAIN M = 1 .. Len(M) /\ \A n \in 1 .. (Len(M) - 1) : t[n] = M[n + 1]
  <2>1. /\ t \in Seq(Order) /\ Len(t) = Len(M) - 1
        /\ \A n \in 1 .. Len(t) : t[n] = M[n + 1]
    BY <1>2, <1>7, HeadTailProperties
  <2>2. Len(M) \in Nat /\ DOMAIN M = 1 .. Len(M) /\ DOMAIN t = 1 .. Len(t)
    BY <1>2, <2>1, LenProperties
  <2> QED  BY <2>1, <2>2
<1>9. ASSUME NEW n \in DOMAIN t
      PROVE  n + 1 \in DOMAIN M /\ t[n] = M[n + 1] /\ M[n + 1].id # id
  <2>1. n + 1 \in DOMAIN M /\ n + 1 # 1 /\ t[n] = M[n + 1]  BY <1>8
  <2> QED  BY <1>2, <2>1
<1>10. \A o \in RestingIds(b) : o # id => get(c, o) = get(b, o) /\ Ahead(c, o) = Ahead(b, o) \ {id}
  BY <1>2, <1>3, DropAhead
<1>11. ASSUME NEW n \in DOMAIN t
       PROVE  /\ t[n].id \in RestingIds(c) /\ t[n] = get(c, t[n].id)
              /\ QueueOf(t[n]) \in {side} \X Price
  <2>1. /\ M[n + 1].id \in RestingIds(b) /\ M[n + 1] = get(b, M[n + 1].id)
        /\ QueueOf(M[n + 1]) \in {side} \X Price
    BY <1>2, <1>9 DEF Listing
  <2> QED  BY <1>4, <1>9, <1>10, <2>1
<1>12. ASSUME NEW o \in RestingIds(c), QueueOf(get(c, o)) \in {side} \X Price
       PROVE  \E n \in DOMAIN t : t[n].id = o
  <2>1. o \in RestingIds(b) /\ o # id /\ get(c, o) = get(b, o)  BY <1>4, <1>10
  <2>2. PICK m \in DOMAIN M : M[m].id = o  BY <1>2, <1>12, <2>1 DEF Listing
  <2>3. m # 1  BY <1>1, <2>1, <2>2
  <2>4. m - 1 \in DOMAIN t /\ (m - 1) + 1 = m  BY <1>8, <2>3
  <2>5. t[m - 1] = M[(m - 1) + 1]  BY <1>9, <2>4
  <2>6. t[m - 1].id = o  BY <2>2, <2>4, <2>5
  <2> QED  BY <2>4, <2>6
<1>13. ASSUME NEW m \in DOMAIN t, NEW n \in DOMAIN t, m < n
       PROVE  m + 1 \in DOMAIN M /\ n + 1 \in DOMAIN M /\ m + 1 < n + 1
  BY <1>8, <1>13
<1>14. ASSUME NEW m \in DOMAIN t, NEW n \in DOMAIN t, m < n
       PROVE  /\ t[m].id # t[n].id
              /\ QueueOf(t[m]) = QueueOf(t[n]) => t[m].id \in Ahead(c, t[n].id)
              /\ ~Better(side, t[n].price, t[m].price)
  <2>1. PICK i : i = m + 1  OBVIOUS
  <2>2. PICK j : j = n + 1  OBVIOUS
  <2>3. /\ i \in DOMAIN M /\ j \in DOMAIN M /\ i < j /\ t[m] = M[i] /\ t[n] = M[j]
        /\ M[i].id # id /\ M[j].id # id
    BY <1>9, <1>13, <1>14, <2>1, <2>2
  <2>4. M[j].id \in RestingIds(b)  BY <1>2, <2>3 DEF Listing
  <2>5. Ahead(c, M[j].id) = Ahead(b, M[j].id) \ {id}  BY <1>10, <2>3, <2>4
  <2>6. QueueOf(M[i]) = QueueOf(M[j]) => M[i].id \in Ahead(b, M[j].id)
    BY <1>2, <2>3 DEF Listing
  <2>7. ~Better(side, M[j].price, M[i].price) /\ M[i].id # M[j].id
    BY <1>2, <2>3 DEF Sorted, OnceEach
  <2> QED  BY <2>3, <2>5, <2>6, <2>7
<1>15. Listing(t, c, {side} \X Price)  BY <1>8, <1>11, <1>12, <1>14 DEF Listing
<1>16. Sorted(t, side)  BY <1>14 DEF Sorted
<1>17. SideOrders(c, side) = t  BY <1>4, <1>5, <1>15, <1>16, OnePriority DEF InPriority
<1> QED  BY <1>4, <1>5, <1>6, <1>7, <1>17

\* The first order of a list with another quantity.
HeadOf(orders, new_qty) == [orders EXCEPT ![1] = [@ EXCEPT !.qty = new_qty]]

\* A maker that is filled in part stays where it is, smaller.
LEMMA HeadResized ==
  ASSUME NEW b, SoundBook(b), IsFiniteSet(RestingIds(b)), NEW side \in Side,
         NEW M, M = SideOrders(b, side), M # <<>>, NEW new_qty \in Qty, new_qty > 0,
         NEW c, c = Resize(b, M[1].id, new_qty)
  PROVE  /\ SoundBook(c) /\ IsFiniteSet(RestingIds(c)) /\ RestingIds(c) = RestingIds(b)
         /\ SideOrders(c, side) = HeadOf(M, new_qty)
         /\ \A k \in Queue : k[1] # side => c[k] = b[k]
<1>1. PICK id : id = M[1].id  OBVIOUS
<1>2. /\ M \in Seq(Order) /\ Listing(M, b, {side} \X Price) /\ Sorted(M, side)
      /\ OnceEach(M)
      /\ 1 \in DOMAIN M
      /\ id \in RestingIds(b) /\ get(b, id) = M[1] /\ M[1] \in Order /\ M[1].qty > 0
      /\ HomeOf(b, id) = QueueOf(M[1]) /\ QueueOf(M[1])[1] = side
      /\ \A n \in DOMAIN M : n # 1 => M[n].id # id
  <2>1. Headed(b, side, M, id)  BY <1>1, HeadOfSide
  <2> QED  BY <2>1 DEF Headed
<1>3. c = Resize(b, id, new_qty)  BY <1>1
<1>4. SoundBook(c) /\ RestingIds(c) = RestingIds(b)  BY <1>3, ResizeSound
<1>5. IsFiniteSet(RestingIds(c))  BY <1>4
<1>6. ASSUME NEW k \in Queue, k[1] # side PROVE c[k] = b[k]
  <2>1. DOMAIN b = Queue /\ b[k] \in Seq(Order)
    BY QueuesAreSequences DEF SoundBook
  <2>2. c[k] = [i \in DOMAIN b[k] |->
                  IF b[k][i].id = id THEN [b[k][i] EXCEPT !.qty = new_qty] ELSE b[k][i]]
    BY <1>3, <2>1 DEF Resize
  <2>3. ASSUME NEW i \in DOMAIN b[k] PROVE b[k][i].id # id
    <3>1. HomeOf(b, b[k][i].id) = k  BY RestsAt
    <3> QED  BY <1>2, <1>6, <3>1
  <2>4. c[k] = [i \in DOMAIN b[k] |-> b[k][i]]  BY <2>2, <2>3
  <2>5. b[k] = [i \in DOMAIN b[k] |-> b[k][i]]  BY <2>1
  <2> QED  BY <2>4, <2>5
<1>7. PICK t : t = HeadOf(M, new_qty)  OBVIOUS
<1>8. PICK head : head = [M[1] EXCEPT !.qty = new_qty]  OBVIOUS
<1>9. head \in Order /\ head.id = id /\ head.price = M[1].price /\ QueueOf(head) = QueueOf(M[1])
  BY <1>1, <1>2, <1>8 DEF Order, QueueOf
<1>10. t = [n \in DOMAIN M |-> IF n = 1 THEN head ELSE M[n]]  BY <1>2, <1>7, <1>8 DEF HeadOf
<1>11. t \in Seq(Order)
  <2>1. Len(M) \in Nat /\ DOMAIN M = 1 .. Len(M) /\ \A n \in DOMAIN M : M[n] \in Order
    BY <1>2, LenProperties, ElementOfSeq
  <2>2. t \in [1 .. Len(M) -> Order]  BY <1>9, <1>10, <2>1
  <2> QED  BY <2>1, <2>2, SeqDef
<1>12. DOMAIN t = DOMAIN M  BY <1>10
<1>13. ASSUME NEW n \in DOMAIN M
       PROVE  /\ t[n] = IF n = 1 THEN head ELSE M[n]
              /\ t[n].id = M[n].id /\ t[n].price = M[n].price /\ QueueOf(t[n]) = QueueOf(M[n])
  BY <1>1, <1>9, <1>10
<1>14. \A o \in RestingIds(b) :
         /\ get(c, o) = IF o = id THEN [get(b, o) EXCEPT !.qty = new_qty] ELSE get(b, o)
         /\ Ahead(c, o) = Ahead(b, o) /\ QueueOf(get(c, o)) = QueueOf(get(b, o))
  BY <1>3, ResizeGet, ResizeAhead
<1>15. ASSUME NEW n \in DOMAIN t
       PROVE  /\ t[n].id \in RestingIds(c) /\ t[n] = get(c, t[n].id)
              /\ QueueOf(t[n]) \in {side} \X Price
  <2>1. /\ M[n].id \in RestingIds(b) /\ M[n] = get(b, M[n].id)
        /\ QueueOf(M[n]) \in {side} \X Price
    BY <1>2, <1>12 DEF Listing
  <2>2. t[n] = get(c, M[n].id)
    <3>1. CASE n = 1  BY <1>1, <1>2, <1>8, <1>12, <1>13, <1>14, <3>1
    <3>2. CASE n # 1
      <4>1. M[n].id # id  BY <1>2, <1>12, <3>2
      <4> QED  BY <1>12, <1>13, <1>14, <2>1, <3>2, <4>1
    <3> QED  BY <3>1, <3>2
  <2> QED  BY <1>4, <1>12, <1>13, <2>1, <2>2
<1>16. ASSUME NEW o \in RestingIds(c), QueueOf(get(c, o)) \in {side} \X Price
       PROVE  \E n \in DOMAIN t : t[n].id = o
  <2>1. o \in RestingIds(b) /\ QueueOf(get(b, o)) \in {side} \X Price
    BY <1>4, <1>14, <1>16
  <2>2. PICK n \in DOMAIN M : M[n].id = o  BY <1>2, <2>1 DEF Listing
  <2> QED  BY <1>12, <1>13, <2>2
<1>17. ASSUME NEW m \in DOMAIN t, NEW n \in DOMAIN t, m < n
       PROVE  /\ t[m].id # t[n].id
              /\ QueueOf(t[m]) = QueueOf(t[n]) => t[m].id \in Ahead(c, t[n].id)
              /\ ~Better(side, t[n].price, t[m].price)
  <2>1. M[n].id \in RestingIds(b)  BY <1>2, <1>12 DEF Listing
  <2>2. QueueOf(M[m]) = QueueOf(M[n]) => M[m].id \in Ahead(b, M[n].id)
    BY <1>2, <1>12, <1>17 DEF Listing
  <2>3. ~Better(side, M[n].price, M[m].price) /\ M[m].id # M[n].id
    BY <1>2, <1>12, <1>17 DEF Sorted, OnceEach
  <2>4. /\ t[m].id = M[m].id /\ t[m].price = M[m].price /\ QueueOf(t[m]) = QueueOf(M[m])
        /\ t[n].id = M[n].id /\ t[n].price = M[n].price /\ QueueOf(t[n]) = QueueOf(M[n])
    BY <1>12, <1>13
  <2>5. Ahead(c, M[n].id) = Ahead(b, M[n].id)  BY ONLY <1>14, <2>1
  <2> QED  BY ONLY <2>2, <2>3, <2>4, <2>5
<1>18. Listing(t, c, {side} \X Price)  BY <1>11, <1>15, <1>16, <1>17 DEF Listing
<1>19. Sorted(t, side)  BY <1>17 DEF Sorted
<1>20. SideOrders(c, side) = t  BY <1>4, <1>5, <1>18, <1>19, OnePriority DEF InPriority
<1> QED  BY <1>4, <1>5, <1>6, <1>7, <1>20

-----------------------------------------------------------------------------
(* The match *)

\* The numbers of an order.
LEMMA OrderNumbers ==
  ASSUME NEW o \in Order
  PROVE  o.qty \in Qty /\ o.qty \in Nat /\ o.price \in Nat
<1>1. o.qty \in Qty /\ o.price \in Price  BY DEF Order
<1>2. o.qty \in Nat  BY <1>1, QtyLimitAssumption DEF Qty
<1>3. o.price \in Nat  BY <1>1, PriceAssumption
<1> QED  BY <1>1, <1>2, <1>3

\* A sum of quantities is a number.
LEMMA SumIsNat ==
  ASSUME NEW orders \in Seq(Order)
  PROVE  QtySum(orders) \in Nat
<1> DEFINE T == {s \in Seq(Order) : QtySum(s) \in Nat}
<1>1. <<>> \in T  BY SumNothing
<1>2. ASSUME NEW s \in Seq(Order), NEW x \in Order, s \in T PROVE Append(s, x) \in T
  <2>1. QtySum(Append(s, x)) = QtySum(s) + x.qty  BY SumOnAppend
  <2>2. x.qty \in Nat  BY QtyLimitAssumption DEF Order, Qty
  <2>3. Append(s, x) \in Seq(Order) /\ QtySum(s) \in Nat  BY <1>2
  <2> QED  BY <2>1, <2>2, <2>3
<1>3. Seq(Order) \subseteq T
  <2> HIDE DEF T
  <2> QED  BY <1>1, <1>2, ListsByInduction
<1> QED  BY <1>3

\* The quantities of two lists together.
LEMMA SumOfBoth ==
  ASSUME NEW x \in Seq(Order), NEW y \in Seq(Order)
  PROVE  QtySum(x \o y) = QtySum(x) + QtySum(y)
<1> DEFINE T == {s \in Seq(Order) : QtySum(x \o s) = QtySum(x) + QtySum(s)}
<1>1. <<>> \in T
  <2>1. x \o <<>> = x /\ <<>> \in Seq(Order)  BY ConcatEmptySeq
  <2>2. QtySum(x) \in Nat /\ QtySum(<<>>) = 0  BY SumIsNat, SumNothing
  <2> QED  BY <2>1, <2>2
<1>2. ASSUME NEW s \in Seq(Order), NEW o \in Order, s \in T PROVE Append(s, o) \in T
  <2>1. x \o Append(s, o) = Append(x \o s, o) /\ x \o s \in Seq(Order)
        /\ Append(s, o) \in Seq(Order)
    BY LongerTogether
  <2>2. /\ QtySum(Append(x \o s, o)) = QtySum(x \o s) + o.qty
        /\ QtySum(Append(s, o)) = QtySum(s) + o.qty
    BY <2>1, SumOnAppend
  <2>3. QtySum(x) \in Nat /\ QtySum(s) \in Nat  BY SumIsNat
  <2>4. o.qty \in Nat  BY QtyLimitAssumption DEF Order, Qty
  <2>5. QtySum(x \o s) = QtySum(x) + QtySum(s)  BY <1>2
  <2>6. (QtySum(x) + QtySum(s)) + o.qty = QtySum(x) + (QtySum(s) + o.qty)  BY <2>3, <2>4
  <2> QED  BY <2>1, <2>2, <2>5, <2>6
<1>3. Seq(Order) \subseteq T
  <2> HIDE DEF T
  <2> QED  BY <1>1, <1>2, ListsByInduction
<1> QED  BY <1>3

\* How far a taker came in a list: the first `gone` makers are filled whole,
\* and `part` is taken from the next one.
Progress(makers, side, qty, limit, taken, gone, part) ==
    /\ gone \in 0 .. Len(makers) /\ part \in Nat
    /\ taken.unfilled_qty \in 0 .. qty
    /\ taken.limit_stopped \in BOOLEAN
    /\ QtySum(SubSeq(makers, 1, gone)) + part + taken.unfilled_qty = qty
    /\ Len(taken.fills) = IF part > 0 THEN gone + 1 ELSE gone
    /\ \A i \in 1 .. gone : /\ taken.fills[i] = FillDelta(makers[i], makers[i].qty)
                            /\ limit_allows(side, makers[i].price, limit)
    /\ part > 0 => /\ gone < Len(makers) /\ part < makers[gone + 1].qty
                   /\ taken.unfilled_qty = 0
                   /\ taken.fills[gone + 1] = FillDelta(makers[gone + 1], part)
                   /\ limit_allows(side, makers[gone + 1].price, limit)
    /\ taken.unfilled_qty > 0 /\ ~taken.limit_stopped => gone = Len(makers)
    /\ taken.limit_stopped => /\ taken.unfilled_qty > 0 /\ gone < Len(makers)
                              /\ ~limit_allows(side, makers[gone + 1].price, limit)

Fill == [maker_order_id: OrderId, filled_qty: Nat, maker_qty_after: Nat, maker_removed: BOOLEAN]
TakerState == [fills: Seq(Fill), filled_notional: Nat, unfilled_qty: Nat, limit_stopped: BOOLEAN]

\* A fill of at most what the maker has.
LEMMA FillsAreFills ==
  ASSUME NEW maker \in Order, NEW filled \in 0 .. maker.qty
  PROVE  FillDelta(maker, filled) \in Fill
<1>1. maker.id \in OrderId /\ maker.qty \in Nat  BY QtyLimitAssumption DEF Order, Qty
<1>2. maker.qty - filled \in Nat /\ filled \in Nat  BY <1>1
<1> QED  BY <1>1, <1>2 DEF FillDelta, Fill

\* A maker that the taker does not reach changes nothing.
LEMMA MakerNotReached ==
  ASSUME NEW makers \in Seq(Order), NEW side, NEW qty \in Nat, NEW limit,
         NEW taken \in TakerState, NEW gone, NEW part,
         Progress(makers, side, qty, limit, taken, gone, part), NEW last \in Order,
         taken.unfilled_qty = 0 \/ taken.limit_stopped
  PROVE  Progress(Append(makers, last), side, qty, limit, taken, gone, part)
<1>1. PICK longer : longer = Append(makers, last)  OBVIOUS
<1>2. /\ longer \in Seq(Order) /\ Len(makers) \in Nat /\ DOMAIN makers = 1 .. Len(makers)
      /\ Len(longer) = Len(makers) + 1
      /\ \A i \in 1 .. Len(makers) : longer[i] = makers[i]
  BY <1>1, LenProperties, AppendProperties
<1>3. gone \in 0 .. Len(makers)  BY DEF Progress
<1>4. SubSeq(longer, 1, gone) = SubSeq(makers, 1, gone)  BY <1>2, <1>3
<1>5. \A i \in 1 .. gone : longer[i] = makers[i]  BY <1>2, <1>3
<1>6. gone < Len(makers) => longer[gone + 1] = makers[gone + 1] /\ gone < Len(longer)
  BY <1>2, <1>3
<1>7. gone \in 0 .. Len(longer)  BY <1>2, <1>3
<1>8. taken.unfilled_qty > 0 /\ ~taken.limit_stopped => FALSE
  BY DEF TakerState
<1>9. Progress(longer, side, qty, limit, taken, gone, part)
  BY <1>4, <1>5, <1>6, <1>7, <1>8 DEF Progress
<1> QED  BY <1>1, <1>9

\* Where a taker is still active it has filled every maker whole.
LEMMA AllMakersGone ==
  ASSUME NEW makers \in Seq(Order), NEW side, NEW qty \in Nat, NEW limit,
         NEW taken \in TakerState, NEW gone, NEW part,
         Progress(makers, side, qty, limit, taken, gone, part),
         ~(taken.unfilled_qty = 0 \/ taken.limit_stopped)
  PROVE  gone = Len(makers) /\ part = 0
<1>1. taken.unfilled_qty \in Nat  BY DEF TakerState
<1>2. part \in Nat  BY DEF Progress
<1>3. part = 0  BY <1>1, <1>2 DEF Progress
<1> QED  BY <1>1, <1>3 DEF Progress

\* One maker more.
LEMMA OneMoreMaker ==
  ASSUME NEW makers \in Seq(Order), NEW side, NEW qty \in Nat, NEW limit,
         NEW taken \in TakerState, NEW gone, NEW part,
         Progress(makers, side, qty, limit, taken, gone, part),
         NEW last \in Order, last.qty > 0, NEW then, then = TakeFrom(taken, last, side, limit)
  PROVE  /\ then \in TakerState
         /\ \E g, p : Progress(Append(makers, last), side, qty, limit, then, g, p)
<1>1. PICK longer : longer = Append(makers, last)  OBVIOUS
<1>2. /\ longer \in Seq(Order) /\ Len(makers) \in Nat /\ DOMAIN makers = 1 .. Len(makers)
      /\ Len(longer) = Len(makers) + 1
      /\ \A i \in 1 .. Len(makers) : longer[i] = makers[i]
      /\ longer[Len(makers) + 1] = last
  BY <1>1, LenProperties, AppendProperties
<1>3. CASE taken.unfilled_qty = 0 \/ taken.limit_stopped
  <2>1. then = taken  BY <1>3 DEF TakeFrom
  <2>2. Progress(longer, side, qty, limit, taken, gone, part)
    BY <1>1, <1>3, MakerNotReached
  <2> QED  BY <1>1, <2>1, <2>2
<1>4. CASE ~(taken.unfilled_qty = 0 \/ taken.limit_stopped)
  <2>1. gone = Len(makers) /\ part = 0  BY <1>4, AllMakersGone
  <2>2. taken.unfilled_qty \in Nat /\ taken.unfilled_qty # 0 /\ ~taken.limit_stopped
        /\ taken.unfilled_qty <= qty
    BY <1>4 DEF TakerState, Progress
  <2>3. SubSeq(makers, 1, Len(makers)) = makers /\ SubSeq(longer, 1, Len(makers)) = makers
    BY <1>2
  <2>4. QtySum(makers) + taken.unfilled_qty = qty
    <3>1. QtySum(SubSeq(makers, 1, gone)) + part + taken.unfilled_qty = qty
      BY DEF Progress
    <3>2. QtySum(makers) + 0 + taken.unfilled_qty = qty  BY ONLY <2>1, <2>3, <3>1
    <3>3. QtySum(makers) \in Nat  BY SumIsNat
    <3> QED  BY ONLY <2>2, <3>2, <3>3
  <2>5. Len(taken.fills) = Len(makers) /\ taken.fills \in Seq(Fill)
    BY <2>1 DEF Progress, TakerState
  <2>6. \A i \in 1 .. Len(makers) : /\ taken.fills[i] = FillDelta(longer[i], longer[i].qty)
                                    /\ limit_allows(side, longer[i].price, limit)
    BY <1>2, <2>1 DEF Progress
  <2>7. CASE ~limit_allows(side, last.price, limit)
    <3>1. then = [taken EXCEPT !.limit_stopped = TRUE]  BY <1>4, <2>7 DEF TakeFrom
    <3>2. /\ then \in TakerState /\ then.fills = taken.fills
          /\ then.unfilled_qty = taken.unfilled_qty /\ then.limit_stopped = TRUE
      BY <3>1 DEF TakerState
    <3>3. QtySum(SubSeq(longer, 1, Len(makers))) + 0 + then.unfilled_qty = qty
      <4>1. QtySum(makers) \in Nat  BY SumIsNat
      <4>2. QtySum(makers) + 0 + taken.unfilled_qty = qty  BY ONLY <2>2, <2>4, <4>1
      <4> QED  BY ONLY <2>3, <3>2, <4>2
    <3>4. /\ Len(makers) \in 0 .. Len(longer) /\ 0 \in Nat /\ ~(0 > 0)
          /\ then.unfilled_qty \in 0 .. qty /\ then.unfilled_qty > 0
          /\ Len(then.fills) = Len(makers) /\ Len(makers) < Len(longer)
          /\ longer[Len(makers) + 1] = last
      BY <1>2, <2>2, <2>5, <3>2
    <3>5. \A i \in 1 .. Len(makers) : /\ then.fills[i] = FillDelta(longer[i], longer[i].qty)
                                      /\ limit_allows(side, longer[i].price, limit)
      BY <2>6, <3>2
    <3>6. Progress(longer, side, qty, limit, then, Len(makers), 0)
      BY <2>7, <3>2, <3>3, <3>4, <3>5 DEF Progress
    <3> QED  BY <1>1, <3>2, <3>6
  <2>8. CASE limit_allows(side, last.price, limit)
    <3>1. PICK filled : filled = IF taken.unfilled_qty < last.qty
                                 THEN taken.unfilled_qty ELSE last.qty
      OBVIOUS
    <3>2. last.qty \in Nat /\ last.price \in Nat
      BY OrderNumbers
    <3>3. filled \in 0 .. last.qty /\ filled > 0 /\ filled <= taken.unfilled_qty /\ filled \in Nat
      BY <2>2, <3>1, <3>2
    <3>4. PICK fill : fill = FillDelta(last, filled)  OBVIOUS
    <3>5. fill \in Fill  BY <3>3, <3>4, FillsAreFills
    <3>6. then = [taken EXCEPT !.fills = Append(@, fill),
                               !.filled_notional = @ + last.price * filled,
                               !.unfilled_qty = @ - filled]
      BY <1>4, <2>8, <3>1, <3>4 DEF TakeFrom
    <3>7. /\ then.fills = Append(taken.fills, fill)
          /\ then.unfilled_qty = taken.unfilled_qty - filled
          /\ then.limit_stopped = FALSE
          /\ then.filled_notional = taken.filled_notional + last.price * filled
          /\ then = [fills |-> then.fills, filled_notional |-> then.filled_notional,
                     unfilled_qty |-> then.unfilled_qty, limit_stopped |-> then.limit_stopped]
      BY <2>2, <3>6 DEF TakerState
    <3>8. then.fills \in Seq(Fill) /\ Len(then.fills) = Len(makers) + 1
          /\ (\A i \in 1 .. Len(makers) : then.fills[i] = taken.fills[i])
          /\ then.fills[Len(makers) + 1] = fill
      BY <1>2, <2>5, <3>5, <3>7, AppendProperties
    <3>9. then.unfilled_qty \in 0 .. qty /\ then.unfilled_qty \in Nat
      BY <2>2, <3>3, <3>7
    <3>10. then.filled_notional \in Nat
      <4>1. taken.filled_notional \in Nat  BY DEF TakerState
      <4>2. \A p, f \in Nat : p * f \in Nat  OBVIOUS
      <4>3. last.price * filled \in Nat  BY <3>2, <3>3, <4>2
      <4> QED  BY <3>7, <4>1, <4>3
    <3>11. then \in TakerState
      BY <3>7, <3>8, <3>9, <3>10 DEF TakerState
    <3>12. \A i \in 1 .. Len(makers) : /\ then.fills[i] = FillDelta(longer[i], longer[i].qty)
                                       /\ limit_allows(side, longer[i].price, limit)
      BY <2>6, <3>8
    <3>13. CASE taken.unfilled_qty < last.qty
      <4>1. filled = taken.unfilled_qty /\ then.unfilled_qty = 0 /\ filled < last.qty
        BY <2>2, <3>1, <3>7, <3>13
      <4>2. QtySum(SubSeq(longer, 1, Len(makers))) + filled + then.unfilled_qty = qty
        <5>1. QtySum(makers) \in Nat  BY SumIsNat
        <5>2. QtySum(makers) + taken.unfilled_qty + 0 = qty  BY ONLY <2>2, <2>4, <5>1
        <5> QED  BY ONLY <2>3, <4>1, <5>2
      <4>3. /\ Len(makers) \in 0 .. Len(longer) /\ Len(makers) < Len(longer)
            /\ longer[Len(makers) + 1] = last
        BY <1>2
      <4>4. Progress(longer, side, qty, limit, then, Len(makers), filled)
        <5>1. Len(then.fills) = Len(makers) + 1 /\ then.fills[Len(makers) + 1] = fill
          BY ONLY <3>8
        <5>2. FillDelta(longer[Len(makers) + 1], filled) = fill
              /\ filled < longer[Len(makers) + 1].qty
              /\ limit_allows(side, longer[Len(makers) + 1].price, limit)
          BY ONLY <2>8, <3>4, <4>1, <4>3
        <5>3. filled \in Nat /\ filled > 0 /\ ~(then.unfilled_qty > 0) /\ then.limit_stopped = FALSE
              /\ then.unfilled_qty \in 0 .. qty /\ then.unfilled_qty = 0
          BY ONLY <3>3, <3>7, <3>9, <4>1
        <5> QED  BY ONLY <3>12, <4>2, <4>3, <5>1, <5>2, <5>3 DEF Progress
      <4> QED  BY <1>1, <3>11, <4>4
    <3>14. CASE ~(taken.unfilled_qty < last.qty)
      <4>1. filled = last.qty /\ then.unfilled_qty + last.qty = taken.unfilled_qty
        BY <2>2, <3>1, <3>2, <3>7, <3>14
      <4>2. SubSeq(longer, 1, Len(longer)) = longer  BY <1>2
      <4>3. QtySum(longer) = QtySum(makers) + last.qty  BY <1>1, SumOnAppend
      <4>4. PICK sum : sum = QtySum(makers)  OBVIOUS
      <4>5. QtySum(SubSeq(longer, 1, Len(longer))) + 0 + then.unfilled_qty = qty
        <5>1. sum + taken.unfilled_qty = qty /\ QtySum(longer) = sum + last.qty
          BY <2>4, <4>3, <4>4
        <5>2. sum \in Nat  BY <4>4, SumIsNat
        <5>3. (sum + last.qty) + 0 + then.unfilled_qty = qty
          BY ONLY <2>2, <3>2, <3>9, <4>1, <5>1, <5>2
        <5> QED  BY ONLY <4>2, <5>1, <5>3
      <4>6. \A i \in 1 .. Len(longer) : /\ then.fills[i] = FillDelta(longer[i], longer[i].qty)
                                        /\ limit_allows(side, longer[i].price, limit)
        <5> SUFFICES ASSUME NEW i \in 1 .. Len(longer)
                     PROVE  /\ then.fills[i] = FillDelta(longer[i], longer[i].qty)
                            /\ limit_allows(side, longer[i].price, limit)
          OBVIOUS
        <5>1. CASE i = Len(makers) + 1  BY <1>2, <2>8, <3>4, <3>8, <4>1, <5>1
        <5>2. CASE i # Len(makers) + 1
          <6>1. i \in 1 .. Len(makers)  BY <1>2, <5>2
          <6> QED  BY <3>12, <6>1
        <5> QED  BY <5>1, <5>2
      <4>7. Progress(longer, side, qty, limit, then, Len(longer), 0)
        <5>1. /\ Len(longer) \in 0 .. Len(longer) /\ 0 \in Nat /\ ~(0 > 0)
              /\ Len(then.fills) = Len(longer)
          BY <1>2, <3>8
        <5> QED  BY <3>7, <3>9, <4>5, <4>6, <5>1 DEF Progress
      <4> QED  BY <1>1, <3>11, <4>7
    <3> QED  BY <3>13, <3>14
  <2> QED  BY <2>7, <2>8
<1> QED  BY <1>3, <1>4

\* How far the walk came, in any list.
LEMMA WalkProgress ==
  ASSUME NEW makers \in Seq(Order), \A i \in DOMAIN makers : makers[i].qty > 0,
         NEW side, NEW qty \in Nat, NEW limit,
         NEW taken, taken = Walk(makers, side, qty, limit)
  PROVE  /\ taken \in TakerState
         /\ \E gone, part : Progress(makers, side, qty, limit, taken, gone, part)
<1> DEFINE Fine(s, w) == /\ w \in TakerState
                         /\ \E g, p : Progress(s, side, qty, limit, w, g, p)
           Pos(s) == \A i \in DOMAIN s : s[i].qty > 0
           T == {s \in Seq(Order) : Pos(s) => Fine(s, Walk(s, side, qty, limit))}
<1>1. <<>> \in T
  <2>1. Walk(<<>>, side, qty, limit) = NothingTaken(qty)  BY MetNothing
  <2>2. PICK w : w = NothingTaken(qty)  OBVIOUS
  <2>3. /\ w \in TakerState /\ w.unfilled_qty = qty /\ w.limit_stopped = FALSE
        /\ Len(w.fills) = 0
    BY <2>2 DEF NothingTaken, TakerState
  <2>4. PICK none : none = <<>>  OBVIOUS
  <2>5. none \in Seq(Order) /\ Len(none) = 0 /\ SubSeq(none, 1, 0) = <<>>  BY <2>4
  <2>6. QtySum(SubSeq(none, 1, 0)) = 0  BY <2>5, SumNothing
  <2>7. Progress(none, side, qty, limit, w, 0, 0)
    <3>1. /\ QtySum(SubSeq(none, 1, 0)) + 0 + w.unfilled_qty = qty
          /\ 0 \in 0 .. Len(none) /\ 0 \in Nat /\ ~(0 > 0) /\ 1 .. 0 = {}
          /\ w.unfilled_qty \in 0 .. qty
      BY <2>3, <2>5, <2>6
    <3> QED  BY ONLY <2>3, <2>5, <3>1 DEF Progress
  <2> QED  BY <2>1, <2>2, <2>3, <2>4, <2>5, <2>7
<1>2. ASSUME NEW s \in Seq(Order), NEW x \in Order, s \in T PROVE Append(s, x) \in T
  <2>1. PICK longer : longer = Append(s, x)  OBVIOUS
  <2>2. /\ longer \in Seq(Order) /\ Len(s) \in Nat /\ DOMAIN s = 1 .. Len(s)
        /\ DOMAIN longer = 1 .. (Len(s) + 1)
        /\ \A i \in 1 .. Len(s) : longer[i] = s[i]
        /\ longer[Len(s) + 1] = x
    BY <2>1, LenProperties, AppendProperties
  <2> SUFFICES ASSUME Pos(longer) PROVE Fine(longer, Walk(longer, side, qty, limit))
    BY <2>1, <2>2
  <2>3. x.qty > 0  BY <2>2
  <2>4. Pos(s)
    <3> SUFFICES ASSUME NEW i \in DOMAIN s PROVE s[i].qty > 0  OBVIOUS
    <3>1. i \in DOMAIN longer /\ longer[i] = s[i]  BY <2>2
    <3> QED  BY <3>1
  <2>5. PICK w : w = Walk(s, side, qty, limit)  OBVIOUS
  <2>6. w \in TakerState /\ \E g, p : Progress(s, side, qty, limit, w, g, p)
    BY <1>2, <2>4, <2>5
  <2>7. PICK g, p : Progress(s, side, qty, limit, w, g, p)  BY <2>6
  <2>8. PICK v : v = TakeFrom(w, x, side, limit)  OBVIOUS
  <2>9. Walk(longer, side, qty, limit) = v  BY <2>1, <2>5, <2>8, MetOnAppend
  <2>10. Fine(Append(s, x), v)  BY <2>3, <2>6, <2>7, <2>8, OneMoreMaker
  <2> QED  BY <2>1, <2>9, <2>10
<1>3. Seq(Order) \subseteq T
  <2> HIDE DEF T
  <2> QED  BY <1>1, <1>2, ListsByInduction
<1>4. Fine(makers, Walk(makers, side, qty, limit))  BY <1>3
<1> QED  BY <1>4

-----------------------------------------------------------------------------
(* The fills, applied *)

\* The book that is left when the first makers of a side are gone.
Cleared(b, side, M, n, call) ==
    /\ call.result = "Ok"
    /\ SoundBook(call.book) /\ IsFiniteSet(RestingIds(call.book))
    /\ RestingIds(call.book) \subseteq RestingIds(b)
    /\ SideOrders(call.book, side) = SubSeq(M, n + 1, Len(M))
    /\ \A k \in Queue : k[1] # side => call.book[k] = b[k]

\* What is left of a list behind a place.
LEMMA WhatIsLeft ==
  ASSUME NEW M \in Seq(Order), NEW n \in 0 .. Len(M), NEW rest, rest = SubSeq(M, n + 1, Len(M))
  PROVE  /\ rest \in Seq(Order) /\ Len(rest) = Len(M) - n
         /\ DOMAIN rest = 1 .. (Len(M) - n)
         /\ \A i \in 1 .. (Len(M) - n) : rest[i] = M[n + i]
<1>1. Len(M) \in Nat /\ n \in Nat /\ n <= Len(M)  BY LenProperties
<1>2. /\ rest \in Seq(Order) /\ Len(rest) = Len(M) - n
      /\ \A i \in 1 .. (Len(M) - n) : rest[i] = M[n + i]
  BY <1>1
<1> QED  BY <1>2, LenProperties

\* What is left of a list without its first.
LEMMA OneFewer ==
  ASSUME NEW M \in Seq(Order), NEW n \in 0 .. (Len(M) - 1), NEW rest,
         rest = SubSeq(M, n + 1, Len(M))
  PROVE  /\ rest \in Seq(Order) /\ rest # <<>> /\ rest[1] = M[n + 1]
         /\ Len(rest) = Len(M) - n
         /\ Tail(rest) = SubSeq(M, (n + 1) + 1, Len(M))
         /\ \A i \in 1 .. (Len(M) - n) : rest[i] = M[n + i]
<1>1. Len(M) \in Nat /\ n \in Nat /\ n + 1 <= Len(M)  BY LenProperties
<1>2. /\ rest \in Seq(Order) /\ Len(rest) = Len(M) - n
      /\ \A i \in 1 .. (Len(M) - n) : rest[i] = M[n + i]
  BY <1>1
<1>3. rest # <<>>  BY <1>1, <1>2
<1>4. rest[1] = M[n + 1]  BY <1>1, <1>2
<1>5. PICK t : t = Tail(rest)  OBVIOUS
<1>6. PICK r : r = SubSeq(M, (n + 1) + 1, Len(M))  OBVIOUS
<1>7. /\ t \in Seq(Order) /\ Len(t) = Len(M) - n - 1
      /\ \A i \in 1 .. (Len(M) - n - 1) : t[i] = M[n + 1 + i]
  <2>1. /\ t \in Seq(Order) /\ Len(t) = Len(rest) - 1
        /\ \A i \in 1 .. Len(t) : t[i] = rest[i + 1]
    BY <1>2, <1>3, <1>5, HeadTailProperties
  <2>2. Len(t) = Len(M) - n - 1  BY <1>1, <1>2, <2>1
  <2>3. ASSUME NEW i \in 1 .. (Len(M) - n - 1) PROVE t[i] = M[n + 1 + i]
    <3>1. t[i] = rest[i + 1]  BY <2>1, <2>2
    <3>2. i + 1 \in 1 .. (Len(M) - n) /\ n + (i + 1) = n + 1 + i  BY <1>1
    <3>3. rest[i + 1] = M[n + (i + 1)]  BY <1>2, <3>2
    <3> QED  BY <3>1, <3>2, <3>3
  <2> QED  BY <2>1, <2>2, <2>3
<1>8. /\ r \in Seq(Order) /\ Len(r) = Len(M) - n - 1
      /\ \A i \in 1 .. (Len(M) - n - 1) : r[i] = M[n + 1 + i]
  BY <1>1, <1>6
<1>9. t = r
  <2>1. \A i \in 1 .. Len(t) : t[i] = r[i]  BY <1>7, <1>8
  <2> QED  BY <1>7, <1>8, <2>1, SeqEqual
<1> QED  BY <1>2, <1>3, <1>4, <1>5, <1>6, <1>9

\* A whole fill removes the maker that is first.
LEMMA OneMoreCleared ==
  ASSUME NEW b, NEW side \in Side, NEW M \in Seq(Order), NEW n \in 0 .. (Len(M) - 1),
         NEW call, Cleared(b, side, M, n, call),
         NEW then, then = FillNext(call, FillDelta(M[n + 1], M[n + 1].qty))
  PROVE  Cleared(b, side, M, n + 1, then)
<1>1. PICK rest : rest = SubSeq(M, n + 1, Len(M))  OBVIOUS
<1>2. /\ rest \in Seq(Order) /\ rest # <<>> /\ rest[1] = M[n + 1]
      /\ Tail(rest) = SubSeq(M, (n + 1) + 1, Len(M))
  BY <1>1, OneFewer
<1>3. PICK c : c = call.book  OBVIOUS
<1>4. /\ call.result = "Ok" /\ SoundBook(c) /\ IsFiniteSet(RestingIds(c))
      /\ RestingIds(c) \subseteq RestingIds(b)
      /\ rest = SideOrders(c, side)
      /\ \A k \in Queue : k[1] # side => c[k] = b[k]
  BY <1>1, <1>3 DEF Cleared
<1>5. then = remove(c, rest[1].id)
  BY <1>2, <1>3, <1>4 DEF FillNext, ApplyFill, FillDelta
<1>6. rest[1].id \in RestingIds(c)
  <2>1. Headed(c, side, rest, rest[1].id)  BY <1>2, <1>4, HeadOfSide
  <2> QED  BY <2>1 DEF Headed
<1>7. PICK d : d = DropOrder(c, rest[1].id)  OBVIOUS
<1>8. then.book = d /\ then.result = "Ok"  BY <1>5, <1>6, <1>7 DEF remove, Done
<1>9. /\ SoundBook(d) /\ IsFiniteSet(RestingIds(d)) /\ RestingIds(d) \subseteq RestingIds(c)
      /\ SideOrders(d, side) = Tail(rest)
      /\ \A k \in Queue : k[1] # side => d[k] = c[k]
  BY <1>2, <1>4, <1>7, HeadDropped
<1>10. /\ RestingIds(d) \subseteq RestingIds(b)
       /\ SideOrders(d, side) = SubSeq(M, (n + 1) + 1, Len(M))
       /\ \A k \in Queue : k[1] # side => d[k] = b[k]
  BY <1>2, <1>4, <1>9
<1> QED  BY <1>8, <1>9, <1>10 DEF Cleared

\* Whole fills of the first makers of a side.
LEMMA FillsClear ==
  ASSUME NEW b, SoundBook(b), IsFiniteSet(RestingIds(b)), NEW side \in Side,
         NEW M, M = SideOrders(b, side), NEW fills \in Seq(Fill), Len(fills) <= Len(M),
         \A i \in 1 .. Len(fills) : fills[i] = FillDelta(M[i], M[i].qty)
  PROVE  Cleared(b, side, M, Len(fills), ApplyFills(b, fills))
<1> DEFINE Whole(s) == /\ Len(s) <= Len(M)
                       /\ \A i \in 1 .. Len(s) : s[i] = FillDelta(M[i], M[i].qty)
           T == {s \in Seq(Fill) : Whole(s) => Cleared(b, side, M, Len(s), ApplyFills(b, s))}
<1>0. M \in Seq(Order) /\ Len(M) \in Nat
  <2>1. Listing(M, b, {side} \X Price)  BY SideIsListed
  <2> QED  BY <2>1, ListedOnce, LenProperties
<1>1. <<>> \in T
  <2>1. ApplyFills(b, <<>>) = Done(b)  BY FilledNothing
  <2>2. SubSeq(M, 0 + 1, Len(M)) = M  BY <1>0
  <2>3. PICK done : done = Done(b)  OBVIOUS
  <2>4. done.book = b /\ done.result = "Ok"  BY <2>3 DEF Done
  <2>5. Cleared(b, side, M, 0, done)  BY <2>2, <2>4 DEF Cleared
  <2>6. PICK none : none = <<>>  OBVIOUS
  <2>7. none \in Seq(Fill) /\ Len(none) = 0  BY <2>6
  <2> QED  BY <2>1, <2>3, <2>5, <2>6, <2>7
<1>2. ASSUME NEW s \in Seq(Fill), NEW x \in Fill, s \in T PROVE Append(s, x) \in T
  <2>1. PICK longer : longer = Append(s, x)  OBVIOUS
  <2>2. /\ longer \in Seq(Fill) /\ Len(s) \in Nat /\ Len(longer) = Len(s) + 1
        /\ \A i \in 1 .. Len(s) : longer[i] = s[i]
        /\ longer[Len(s) + 1] = x
    BY <2>1, LenProperties, AppendProperties
  <2> SUFFICES ASSUME Whole(longer)
               PROVE  Cleared(b, side, M, Len(longer), ApplyFills(b, longer))
    BY <2>1, <2>2
  <2>3. Len(s) + 1 <= Len(M) /\ Len(s) \in 0 .. (Len(M) - 1)  BY <1>0, <2>2
  <2>4. x = FillDelta(M[Len(s) + 1], M[Len(s) + 1].qty)
    <3>1. Len(s) + 1 \in 1 .. Len(longer)  BY <2>2
    <3> QED  BY <2>2, <3>1
  <2>5. Whole(s)
    <3> SUFFICES ASSUME NEW i \in 1 .. Len(s) PROVE s[i] = FillDelta(M[i], M[i].qty)
      BY <1>0, <2>2, <2>3
    <3>1. i \in 1 .. Len(longer) /\ longer[i] = s[i]  BY <2>2
    <3> QED  BY <3>1
  <2>6. PICK call : call = ApplyFills(b, s)  OBVIOUS
  <2>7. Cleared(b, side, M, Len(s), call)  BY <1>2, <2>5, <2>6
  <2>8. PICK then : then = FillNext(call, x)  OBVIOUS
  <2>9. ApplyFills(b, longer) = then  BY <2>1, <2>6, <2>8, FilledOnAppend
  <2>10. Cleared(b, side, M, Len(s) + 1, then)
    BY <1>0, <2>3, <2>4, <2>7, <2>8, OneMoreCleared
  <2> QED  BY <2>2, <2>9, <2>10
<1>3. Seq(Fill) \subseteq T
  <2> HIDE DEF T
  <2> QED  BY <1>1, <1>2, ListsByInduction
<1> QED  BY <1>3

-----------------------------------------------------------------------------
(* What a taker does to the book *)

\* What a taker leaves of a list of makers.
Remainder(M, gone, part) ==
    IF part = 0 THEN SubSeq(M, gone + 1, Len(M))
    ELSE HeadOf(SubSeq(M, gone + 1, Len(M)), M[gone + 1].qty - part)

\* The book after a taker: the makers' side has lost what was taken, the other
\* side is as it was.
Served(b, makers, M, gone, part, call) ==
    /\ call.result = "Ok"
    /\ SoundBook(call.book) /\ IsFiniteSet(RestingIds(call.book))
    /\ RestingIds(call.book) \subseteq RestingIds(b)
    /\ SideOrders(call.book, makers) = Remainder(M, gone, part)
    /\ \A k \in Queue : k[1] # makers => call.book[k] = b[k]

\* The last fill may be partial: the maker becomes smaller where it is.
LEMMA PartialFill ==
  ASSUME NEW b, NEW side \in Side, NEW M \in Seq(Order), NEW n \in 0 .. (Len(M) - 1),
         NEW call, Cleared(b, side, M, n, call), NEW part \in Nat, part > 0,
         part < M[n + 1].qty,
         NEW then, then = FillNext(call, FillDelta(M[n + 1], part))
  PROVE  Served(b, side, M, n, part, then)
<1>1. PICK rest : rest = SubSeq(M, n + 1, Len(M))  OBVIOUS
<1>2. /\ rest \in Seq(Order) /\ rest # <<>> /\ rest[1] = M[n + 1]
  BY <1>1, OneFewer
<1>3. PICK c : c = call.book  OBVIOUS
<1>4. /\ call.result = "Ok" /\ SoundBook(c) /\ IsFiniteSet(RestingIds(c))
      /\ RestingIds(c) \subseteq RestingIds(b)
      /\ rest = SideOrders(c, side)
      /\ \A k \in Queue : k[1] # side => c[k] = b[k]
  BY <1>1, <1>3 DEF Cleared
<1>5. PICK head : head = rest[1]  OBVIOUS
<1>6. head.id \in RestingIds(c) /\ get(c, head.id) = head /\ head \in Order
  <2>1. Headed(c, side, rest, rest[1].id)  BY <1>2, <1>4, HeadOfSide
  <2> QED  BY <1>5, <2>1 DEF Headed
<1>7. PICK new : new = head.qty - part  OBVIOUS
<1>8. head.qty \in Qty /\ head.qty \in Nat /\ part < head.qty
  BY <1>2, <1>5, <1>6, OrderNumbers
<1>9. new \in Qty /\ new > 0 /\ ~(new >= head.qty) /\ new # 0
  BY <1>7, <1>8, QtyLimitAssumption DEF Qty
<1>10. part # head.qty  BY <1>8
<1>11. then = update_size(c, head.id, new)
  BY <1>2, <1>3, <1>4, <1>5, <1>7, <1>10 DEF FillNext, ApplyFill, FillDelta
<1>12. PICK d : d = Resize(c, head.id, new)  OBVIOUS
<1>13. then.book = d /\ then.result = "Ok"
  BY <1>6, <1>9, <1>11, <1>12 DEF update_size, Done
<1>14. /\ SoundBook(d) /\ IsFiniteSet(RestingIds(d)) /\ RestingIds(d) = RestingIds(c)
       /\ SideOrders(d, side) = HeadOf(rest, new)
       /\ \A k \in Queue : k[1] # side => d[k] = c[k]
  BY <1>2, <1>4, <1>5, <1>9, <1>12, HeadResized
<1>15. /\ SideOrders(d, side) = Remainder(M, n, part)
       /\ RestingIds(d) \subseteq RestingIds(b)
       /\ \A k \in Queue : k[1] # side => d[k] = b[k]
  <2>1. part # 0 /\ new = M[n + 1].qty - part  BY <1>2, <1>5, <1>7
  <2>2. Remainder(M, n, part) = HeadOf(rest, new)  BY <1>1, <2>1 DEF Remainder
  <2> QED  BY <1>4, <1>14, <2>2
<1> QED  BY <1>13, <1>14, <1>15 DEF Served

\* The orders of a side have a quantity.
LEMMA SideHasQuantities ==
  ASSUME NEW b, SoundBook(b), IsFiniteSet(RestingIds(b)), NEW side \in Side,
         NEW M, M = SideOrders(b, side)
  PROVE  M \in Seq(Order) /\ \A i \in DOMAIN M : M[i].qty > 0
<1>1. Listing(M, b, {side} \X Price)  BY SideIsListed
<1>2. M \in Seq(Order)  BY <1>1, ListedOnce
<1>3. ASSUME NEW i \in DOMAIN M PROVE M[i].qty > 0
  <2>1. M[i].id \in RestingIds(b) /\ M[i] = get(b, M[i].id)  BY <1>1 DEF Listing
  <2>2. get(b, M[i].id).qty > 0  BY <2>1, RestsSomewhere
  <2> QED  BY <2>1, <2>2
<1> QED  BY <1>2, <1>3

\* A match and its fills, in any sound book.
LEMMA TakerEffect ==
  ASSUME NEW b, SoundBook(b), IsFiniteSet(RestingIds(b)), NEW side \in Side,
         NEW qty \in Nat, NEW limit, NEW M, M = SideOrders(b, Opposite(side)),
         NEW taken, taken = match_taker_order(b, side, qty, limit),
         NEW call, call = ApplyFills(b, taken.fills)
  PROVE  /\ M \in Seq(Order) /\ taken \in TakerState
         /\ \E gone, part : /\ Progress(M, side, qty, limit, taken, gone, part)
                            /\ Served(b, Opposite(side), M, gone, part, call)
<1>1. PICK makers : makers = Opposite(side)  OBVIOUS
<1>2. makers \in Side  BY <1>1 DEF Opposite, Side
<1>3. M \in Seq(Order) /\ \A i \in DOMAIN M : M[i].qty > 0
  BY <1>1, <1>2, SideHasQuantities
<1>4. Len(M) \in Nat  BY <1>3, LenProperties
<1>5. taken = Walk(M, side, qty, limit)  BY DEF match_taker_order
<1>6. taken \in TakerState /\ \E g, p : Progress(M, side, qty, limit, taken, g, p)
  BY <1>3, <1>5, WalkProgress
<1>7. PICK gone, part : Progress(M, side, qty, limit, taken, gone, part)  BY <1>6
<1>8. PICK fills : fills = taken.fills  OBVIOUS
<1>9. fills \in Seq(Fill)  BY <1>6, <1>8 DEF TakerState
<1>10. /\ gone \in 0 .. Len(M) /\ part \in Nat
       /\ Len(fills) = IF part > 0 THEN gone + 1 ELSE gone
       /\ \A i \in 1 .. gone : fills[i] = FillDelta(M[i], M[i].qty)
       /\ part > 0 => /\ gone < Len(M) /\ part < M[gone + 1].qty
                      /\ fills[gone + 1] = FillDelta(M[gone + 1], part)
  BY <1>7, <1>8 DEF Progress
<1>11. PICK full : full = SubSeq(fills, 1, gone)  OBVIOUS
<1>12. /\ full \in Seq(Fill) /\ Len(full) = gone
       /\ \A i \in 1 .. gone : full[i] = fills[i]
  BY <1>4, <1>9, <1>10, <1>11
<1>13. PICK sofar : sofar = ApplyFills(b, full)  OBVIOUS
<1>14. Cleared(b, makers, M, gone, sofar)
  <2>1. Len(full) <= Len(M)  BY <1>4, <1>10, <1>12
  <2>2. \A i \in 1 .. Len(full) : full[i] = FillDelta(M[i], M[i].qty)
    BY <1>10, <1>12
  <2>3. Cleared(b, makers, M, Len(full), ApplyFills(b, full))
    BY <1>1, <1>2, <1>12, <2>1, <2>2, FillsClear
  <2> QED  BY <1>12, <1>13, <2>3
<1>15. CASE part = 0
  <2>1. Len(fills) = gone  BY <1>10, <1>15
  <2>2. full = fills
    <3>1. \A i \in 1 .. Len(full) : full[i] = fills[i]  BY <1>12
    <3> QED  BY <1>9, <1>12, <2>1, <3>1, SeqEqual
  <2>3. call = sofar  BY <1>8, <1>13, <2>2
  <2>4. Served(b, makers, M, gone, part, call)
    BY <1>14, <1>15, <2>3 DEF Cleared, Served, Remainder
  <2> QED  BY <1>1, <1>3, <1>6, <1>7, <2>4
<1>16. CASE part > 0
  <2>1. Len(fills) = gone + 1 /\ gone < Len(M) /\ gone \in 0 .. (Len(M) - 1)
    BY <1>4, <1>10, <1>16
  <2>2. PICK last : last = fills[gone + 1]  OBVIOUS
  <2>3. last \in Fill  BY <1>9, <1>10, <2>1, <2>2, LenProperties, ElementOfSeq
  <2>4. PICK whole : whole = Append(full, last)  OBVIOUS
  <2>5. /\ whole \in Seq(Fill) /\ Len(whole) = gone + 1
        /\ (\A i \in 1 .. gone : whole[i] = full[i]) /\ whole[gone + 1] = last
    BY SMTT(30), <1>12, <2>3, <2>4, AppendProperties
  <2>6. whole = fills
    <3>1. ASSUME NEW i \in 1 .. Len(whole) PROVE whole[i] = fills[i]
      <4>1. CASE i = gone + 1  BY <2>2, <2>5, <4>1
      <4>2. CASE i # gone + 1
        <5>1. i \in 1 .. gone  BY <1>10, <2>5, <4>2
        <5> QED  BY <1>12, <2>5, <5>1
      <4> QED  BY <4>1, <4>2
    <3> QED  BY <1>9, <2>1, <2>5, <3>1, SeqEqual
  <2>7. call = FillNext(sofar, last)
    <3>1. ApplyFills(b, Append(full, last)) = FillNext(ApplyFills(b, full), last)
      BY <1>12, <2>3, FilledOnAppend
    <3> QED  BY <1>8, <1>13, <2>4, <2>6, <3>1
  <2>8. last = FillDelta(M[gone + 1], part) /\ part < M[gone + 1].qty
    BY <1>10, <1>16, <2>2
  <2>9. Served(b, makers, M, gone, part, call)
    BY <1>2, <1>3, <1>10, <1>14, <1>16, <2>1, <2>7, <2>8, PartialFill
  <2> QED  BY <1>1, <1>3, <1>6, <1>7, <2>9
<1>17. part = 0 \/ part > 0  BY <1>10
<1> QED  BY <1>15, <1>16, <1>17

-----------------------------------------------------------------------------
(* What a submission does to the book *)

\* A match and its fills, for a limit order.
Executes(b, order, M, taken, gone, part, call) ==
    /\ M = SideOrders(b, Opposite(order.side)) /\ M \in Seq(Order)
    /\ taken = Matched(b, order)
    /\ Progress(M, order.side, order.qty, order.price, taken, gone, part)
    /\ Served(b, Opposite(order.side), M, gone, part, call)

\* An order that is accepted without a match.
Posted(b, order, policy, step) ==
    /\ policy = "PostOnly" /\ ~limit_order_would_cross(b, order.side, order.price)
    /\ step = Submitted(Done(AppendOrder(b, order)), 0, order.qty)

\* An order that is accepted and filled as far as it goes; what is left of a
\* GTC rests.
Crossed(b, order, policy, step) ==
    \E M, taken, gone, part, call :
        /\ Executes(b, order, M, taken, gone, part, call)
        /\ step.result = "Ok"
        /\ step.filled = order.qty - taken.unfilled_qty
        /\ \/ /\ step.book = call.book /\ step.rested = 0
              /\ policy # "PostOnly" /\ (policy = "Ioc" \/ taken.unfilled_qty = 0)
           \/ /\ policy = "Gtc" /\ taken.unfilled_qty > 0
              /\ step.book = AppendOrder(call.book, [order EXCEPT !.qty = taken.unfilled_qty])
              /\ step.rested = taken.unfilled_qty

\* A taker with a quantity is never refused.
LEMMA TakerServed ==
  ASSUME NEW b, SoundBook(b), IsFiniteSet(RestingIds(b)), NEW order \in Order,
         order.qty # 0, NEW call, call = Executed(b, order)
  PROVE  \E M, taken, gone, part : Executes(b, order, M, taken, gone, part, call)
<1>1. PICK M : M = SideOrders(b, Opposite(order.side))  OBVIOUS
<1>2. PICK taken : taken = Matched(b, order)  OBVIOUS
<1>3. order.side \in Side /\ order.qty \in Nat  BY OrderNumbers DEF Order
<1>4. taken = match_taker_order(b, order.side, order.qty, order.price)
  BY <1>2 DEF Matched
<1>5. call = ApplyFills(b, taken.fills)
  BY <1>4 DEF Executed, apply_taker_order
<1>6. /\ M \in Seq(Order)
      /\ \E gone, part : /\ Progress(M, order.side, order.qty, order.price, taken, gone, part)
                         /\ Served(b, Opposite(order.side), M, gone, part, call)
  BY <1>1, <1>3, <1>4, <1>5, TakerEffect
<1> QED  BY <1>1, <1>2, <1>6 DEF Executes

\* What is left of an order is an order.
LEMMA LeftOver ==
  ASSUME NEW order \in Order, NEW left \in 0 .. order.qty, NEW o, o = [order EXCEPT !.qty = left]
  PROVE  /\ o \in Order /\ o.id = order.id /\ o.side = order.side /\ o.price = order.price
         /\ o.qty = left /\ QueueOf(o) = QueueOf(order)
<1>1. order.qty \in Qty /\ order.qty \in Nat  BY OrderNumbers
<1>2. left \in Qty  BY <1>1, QtyLimitAssumption DEF Qty
<1> QED  BY <1>2 DEF Order, QueueOf

\* The cases of a submission.
LEMMA SubmitCases ==
  ASSUME NEW b, SoundBook(b), IsFiniteSet(RestingIds(b)), NEW order \in Order,
         NEW policy \in LimitOrderPolicy, NEW step, step = submit_limit_order(b, order, policy)
  PROVE  \/ step.result # "Ok" /\ step.book = b
         \/ /\ order.qty > 0 /\ order.id \notin RestingIds(b)
            /\ Posted(b, order, policy, step) \/ Crossed(b, order, policy, step)
<1>0. order.qty \in Nat  BY OrderNumbers
<1>1. CASE order.qty = 0
  BY <1>1 DEF submit_limit_order, Submitted, Fail
<1>2. CASE order.qty # 0 /\ order.id \in RestingIds(b)
  BY <1>2 DEF submit_limit_order, Submitted, Fail
<1>3. CASE order.qty # 0 /\ order.id \notin RestingIds(b)
  <2>1. step = SubmitUnder(b, order, policy)  BY <1>3 DEF submit_limit_order
  <2>2. order.qty > 0  BY <1>0, <1>3
  <2>3. PICK taken : taken = Matched(b, order)  OBVIOUS
  <2>4. PICK call : call = Executed(b, order)  OBVIOUS
  <2>5. \E N, w, g, p : Executes(b, order, N, w, g, p, call)
    BY <1>3, <2>4, TakerServed
  <2>6. PICK M, v, gone, part : Executes(b, order, M, v, gone, part, call)  BY <2>5
  <2>7. Executes(b, order, M, taken, gone, part, call)  BY <2>3, <2>6 DEF Executes
  <2>8. call.result = "Ok" /\ SoundBook(call.book) /\ RestingIds(call.book) \subseteq RestingIds(b)
    BY <2>7 DEF Executes, Served
  <2>9. taken.unfilled_qty \in 0 .. order.qty /\ taken.unfilled_qty \in Nat
    BY <1>0, <2>7 DEF Executes, Progress
  <2>10. FilledBy(b, order) = order.qty - taken.unfilled_qty  BY <2>3 DEF FilledBy
  <2>11. CASE policy = "PostOnly"
    <3>1. step = SubmitPostOnly(b, order)  BY <2>1, <2>11 DEF SubmitUnder
    <3>2. CASE limit_order_would_cross(b, order.side, order.price)
      BY <3>1, <3>2 DEF SubmitPostOnly, Submitted, Fail
    <3>3. CASE ~limit_order_would_cross(b, order.side, order.price)
      <4>1. add(b, order) = Done(AppendOrder(b, order))  BY <1>3 DEF add
      <4> QED  BY <1>3, <2>2, <2>11, <3>1, <3>3, <4>1 DEF SubmitPostOnly, Posted
    <3> QED  BY <3>2, <3>3
  <2>12. CASE policy = "Ioc"
    <3>1. step = SubmitIoc(b, order)  BY <2>1, <2>12 DEF SubmitUnder
    <3>2. /\ step.book = call.book /\ step.result = "Ok" /\ step.rested = 0
          /\ step.filled = order.qty - taken.unfilled_qty
      BY <2>4, <2>8, <2>10, <3>1 DEF SubmitIoc, Submitted
    <3>3. Crossed(b, order, policy, step)  BY <2>7, <2>12, <3>2 DEF Crossed
    <3> QED  BY <1>3, <2>2, <3>3
  <2>13. CASE policy = "Fok"
    <3>1. step = SubmitFok(b, order)  BY <2>1, <2>13 DEF SubmitUnder
    <3>2. CASE ~is_complete(taken)
      BY <2>3, <3>1, <3>2 DEF SubmitFok, Submitted, Fail
    <3>3. CASE is_complete(taken)
      <4>1. taken.unfilled_qty = 0  BY <3>3 DEF is_complete
      <4>2. /\ step.book = call.book /\ step.result = "Ok" /\ step.rested = 0
            /\ step.filled = order.qty
        BY <2>3, <2>4, <2>8, <3>1, <3>3 DEF SubmitFok, Submitted
      <4>3. step.filled = order.qty - taken.unfilled_qty  BY <1>0, <4>1, <4>2
      <4>4. Crossed(b, order, policy, step)  BY <2>7, <2>13, <4>1, <4>2, <4>3 DEF Crossed
      <4> QED  BY <1>3, <2>2, <4>4
    <3> QED  BY <3>2, <3>3
  <2>14. CASE policy = "Gtc"
    <3>1. step = SubmitGtc(b, order)  BY <2>1, <2>14 DEF SubmitUnder
    <3>2. CASE taken.unfilled_qty = 0
      <4>1. /\ step.book = call.book /\ step.result = "Ok" /\ step.rested = 0
            /\ step.filled = order.qty - taken.unfilled_qty
        BY <2>3, <2>4, <2>8, <2>10, <3>1, <3>2 DEF SubmitGtc, Submitted
      <4>2. Crossed(b, order, policy, step)  BY <2>7, <2>14, <3>2, <4>1 DEF Crossed
      <4> QED  BY <1>3, <2>2, <4>2
    <3>3. CASE taken.unfilled_qty # 0
      <4>1. taken.unfilled_qty > 0  BY <2>9, <3>3
      <4>2. PICK o : o = [order EXCEPT !.qty = taken.unfilled_qty]  OBVIOUS
      <4>3. o.id = order.id /\ o.qty = taken.unfilled_qty  BY <2>9, <4>2, LeftOver
      <4>4. add(call.book, o) = Done(AppendOrder(call.book, o))
        BY <1>3, <2>8, <3>3, <4>3 DEF add
      <4>5. step = Submitted(add(call.book, o), FilledBy(b, order), taken.unfilled_qty)
        BY <2>3, <2>4, <2>8, <3>1, <4>1, <4>2 DEF SubmitGtc
      <4>6. /\ step.book = AppendOrder(call.book, o) /\ step.result = "Ok"
            /\ step.rested = taken.unfilled_qty
            /\ step.filled = order.qty - taken.unfilled_qty
        BY <2>10, <4>4, <4>5 DEF Submitted, Done
      <4>7. Crossed(b, order, policy, step)  BY <2>7, <2>14, <4>1, <4>2, <4>6 DEF Crossed
      <4> QED  BY <1>3, <2>2, <4>7
    <3> QED  BY <3>2, <3>3
  <2> QED  BY <2>11, <2>12, <2>13, <2>14 DEF LimitOrderPolicy
<1> QED  BY <1>1, <1>2, <1>3
-----------------------------------------------------------------------------
(* The simulator *)

\* The inductive invariant: every id rests once, in its own queue and with a
\* quantity, and only finitely many rest.
SimulatorInv == SoundBook(book) /\ IsFiniteSet(RestingIds(book))

\* A refused snapshot changes nothing, in any sound book.
LEMMA AtomicInSoundBooks == SimulatorInv => PreserveIsAtomic
<1> SUFFICES ASSUME SimulatorInv, NEW orders \in Snapshot
             PROVE  LET step == apply_snapshot_with_policy(book, orders, "PreserveSynthetic")
                    IN  step.result # "Ok" => step.book = book
  BY DEF PreserveIsAtomic
<1>1. PICK call : call = apply_snapshot_with_policy(book, orders, "PreserveSynthetic")
  OBVIOUS
<1>2. PICK preserved : preserved = synthetic_orders_in_book_order(book)  OBVIOUS
<1>3. orders \in Seq(Order)  BY SnapshotsAreLists
<1>4. \/ call.book = book
      \/ /\ validate_preserve_synthetic_snapshot(orders, preserved) = "Ok"
         /\ call = AddAll(EmptyBook, orders \o preserved)
  BY <1>1, <1>2, SnapshotCases DEF SnapshotPolicy
<1>5. CASE /\ validate_preserve_synthetic_snapshot(orders, preserved) = "Ok"
           /\ call = AddAll(EmptyBook, orders \o preserved)
  <2>1. PICK all : all = orders \o preserved  OBVIOUS
  <2>2. NewOrders(EmptyBook, all)
    BY <1>2, <1>3, <1>5, <2>1, ValidSnapshotsAreNew DEF SimulatorInv
  <2>3. SoundBook(EmptyBook)  BY EmptySound
  <2>4. AddedSoFar(EmptyBook, all, Len(all), AddAll(EmptyBook, all))
    BY <2>2, <2>3, AllAdded
  <2>5. call.result = "Ok"  BY <1>5, <2>1, <2>4 DEF AddedSoFar
  <2> QED  BY <1>1, <2>5
<1> QED  BY <1>1, <1>4, <1>5

\* Local orders go behind the venue's, in any sound book.
LEMMA BehindInSoundBooks == SimulatorInv => LocalOrdersGoBehindTheVenue
<1> SUFFICES ASSUME SimulatorInv, NEW orders \in Snapshot,
                    NEW call, call = apply_snapshot_with_policy(book, orders, "PreserveSynthetic"),
                    call.result = "Ok", NEW k \in Queue
             PROVE  call.book[k] = Those(orders, At(k)) \o Those(book[k], Synthetic)
  BY DEF LocalOrdersGoBehindTheVenue, At
<1>1. PICK preserved : preserved = synthetic_orders_in_book_order(book)  OBVIOUS
<1>2. orders \in Seq(Order)  BY SnapshotsAreLists
<1>3. PICK l : l = book_order(book)  OBVIOUS
<1>4. l \in Seq(Order)  BY <1>3, BookIsListed DEF Listing, SimulatorInv
<1>5. preserved = Those(l, Synthetic) /\ preserved \in Seq(Order)
  BY <1>1, <1>3, <1>4, ThoseAreKept DEF synthetic_orders_in_book_order, Kept
<1>6. \/ call.book = book /\ call.result # "Ok"
      \/ call = AddAll(EmptyBook, orders \o preserved)
  BY <1>1, SnapshotCases DEF SnapshotPolicy
<1>7. PICK all : all = orders \o preserved  OBVIOUS
<1>8. all \in Seq(Order)  BY <1>2, <1>5, <1>7, ConcatProperties
<1>9. Grown(EmptyBook, all, AddAll(EmptyBook, all))
  BY <1>8, AddAllGrows, EmptySound, FS_EmptySet
<1>10. call.book[k] = EmptyBook[k] \o Those(all, At(k))  BY <1>6, <1>7, <1>9 DEF Grown
<1>11. EmptyBook[k] = <<>>  BY DEF EmptyBook
<1>12. <<>> \o Those(all, At(k)) = Those(all, At(k))
  <2>1. Those(all, At(k)) \in Seq(Order)  BY <1>8, ThoseAreKept DEF Kept
  <2> QED  BY <2>1, ConcatEmptySeq
<1>13. Those(all, At(k)) = Those(orders, At(k)) \o Those(preserved, At(k))
  BY <1>2, <1>5, <1>7, ThoseOfBoth
<1>14. Those(preserved, At(k)) = Those(Those(l, At(k)), Synthetic)
  BY <1>4, <1>5, ThoseOfThose
<1>15. Those(l, At(k)) = book[k]  BY <1>3, QueueInBookOrder DEF SimulatorInv
<1> QED  BY <1>10, <1>11, <1>12, <1>13, <1>14, <1>15


\* A snapshot under Replace: whole, or up to its first fault.
LEMMA BeginningStays == RefusedReplaceKeepsTheBeginning
<1> SUFFICES ASSUME NEW orders \in Snapshot, NEW step,
                    step = apply_snapshot_with_policy(book, orders, "Replace"),
                    NEW bad, bad = {n \in DOMAIN orders : Bad(orders, n)}
             PROVE  /\ step.result = "Ok" <=> bad = {}
                    /\ \A n \in bad : (\A i \in bad : n <= i) =>
                         /\ step.result = IF orders[n].qty = 0 THEN "ZeroQty" ELSE "DuplicateOrderId"
                         /\ \A k \in Queue : step.book[k] = Those(SubSeq(orders, 1, n - 1), At(k))
  BY DEF RefusedReplaceKeepsTheBeginning, At
<1>1. orders \in Seq(Order)  BY SnapshotsAreLists
<1>2. step = AddAll(EmptyBook, orders)
  <2>1. orders \o <<>> = orders  BY <1>1, ConcatEmptySeq
  <2>2. "Replace" \in SnapshotPolicy /\ "Replace" # "PreserveSynthetic"  BY DEF SnapshotPolicy
  <2> QED  BY <2>1, <2>2, SnapshotCases
<1>3. bad = {n \in DOMAIN orders : Faulty(orders, n)}  BY DEF Bad, Faulty
<1>4. step.result = "Ok" <=> bad = {}  BY <1>1, <1>2, <1>3, AddsWhole
<1>5. ASSUME NEW n \in bad, \A i \in bad : n <= i
      PROVE  /\ step.result = IF orders[n].qty = 0 THEN "ZeroQty" ELSE "DuplicateOrderId"
             /\ \A k \in Queue : step.book[k] = Those(SubSeq(orders, 1, n - 1), At(k))
  <2>1. Len(orders) \in Nat /\ DOMAIN orders = 1 .. Len(orders)  BY <1>1, LenProperties
  <2>2. n \in 1 .. Len(orders) /\ Faulty(orders, n)  BY <1>3, <2>1
  <2>3. PICK m : m = n - 1  OBVIOUS
  <2>4. m \in Nat /\ m < Len(orders) /\ m + 1 = n  BY <2>1, <2>2, <2>3
  <2>5. FaultlessTo(orders, m)
    <3> SUFFICES ASSUME NEW i \in 1 .. m, Faulty(orders, i) PROVE FALSE  BY DEF FaultlessTo
    <3>1. i \in bad /\ ~(n <= i)  BY <1>3, <2>1, <2>4
    <3> QED  BY <1>5, <3>1
  <2>6. PICK first : first = SubSeq(orders, 1, m)  OBVIOUS
  <2>7. Faulty(orders, m + 1)  BY <2>2, <2>4
  <2>8. /\ AddAll(EmptyBook, first).result = "Ok"
        /\ step.book = AddAll(EmptyBook, first).book
        /\ step.result = IF orders[m + 1].qty = 0 THEN "ZeroQty" ELSE "DuplicateOrderId"
    BY <1>1, <1>2, <2>4, <2>5, <2>6, <2>7, AddingStops
  <2>9. first \in Seq(Order)
    <3>1. m \in 0 .. Len(orders)  BY <2>1, <2>4
    <3> QED  BY <1>1, <2>5, <2>6, <3>1, BeginningIsNew DEF Begins
  <2>10. Grown(EmptyBook, first, AddAll(EmptyBook, first))
    BY <2>9, AddAllGrows, EmptySound, FS_EmptySet
  <2>11. ASSUME NEW k \in Queue PROVE step.book[k] = Those(first, At(k))
    <3>1. step.book[k] = EmptyBook[k] \o Those(first, At(k))  BY <2>8, <2>10 DEF Grown
    <3>2. EmptyBook[k] = <<>>  BY DEF EmptyBook
    <3>3. Those(first, At(k)) \in Seq(Order)  BY <2>9, ThoseAreKept DEF Kept
    <3> QED  BY <3>1, <3>2, <3>3, ConcatEmptySeq
  <2> QED  BY <2>3, <2>4, <2>6, <2>8, <2>11
<1> QED  BY <1>4, <1>5


\* An order more, in a book where its id does not rest.
LEMMA OneMoreRests ==
  ASSUME NEW b, SoundBook(b), IsFiniteSet(RestingIds(b)), NEW order \in Order,
         order.qty > 0, order.id \notin RestingIds(b), NEW c, c = AppendOrder(b, order)
  PROVE  SoundBook(c) /\ IsFiniteSet(RestingIds(c))
<1>1. SoundBook(c) /\ RestingIds(c) = RestingIds(b) \cup {order.id}  BY AppendSound
<1>2. IsFiniteSet(RestingIds(b) \cup {order.id})  BY FS_AddElement
<1> QED  BY <1>1, <1>2

\* Whatever is submitted, the book stays sound.
LEMMA SubmitSound ==
  ASSUME NEW b, SoundBook(b), IsFiniteSet(RestingIds(b)), NEW order \in Order,
         NEW policy \in LimitOrderPolicy, NEW step, step = submit_limit_order(b, order, policy)
  PROVE  SoundBook(step.book) /\ IsFiniteSet(RestingIds(step.book))
<1>1. CASE step.book = b  BY <1>1
<1>2. CASE order.qty > 0 /\ order.id \notin RestingIds(b) /\ Posted(b, order, policy, step)
  <2>1. PICK c : c = AppendOrder(b, order)  OBVIOUS
  <2>2. step.book = c  BY <1>2, <2>1 DEF Posted, Submitted, Done
  <2> QED  BY <1>2, <2>1, <2>2, OneMoreRests
<1>3. CASE order.qty > 0 /\ order.id \notin RestingIds(b) /\ Crossed(b, order, policy, step)
  <2>1. PICK M, taken, gone, part, call :
          /\ Executes(b, order, M, taken, gone, part, call)
          /\ \/ step.book = call.book
             \/ /\ taken.unfilled_qty > 0
                /\ step.book = AppendOrder(call.book, [order EXCEPT !.qty = taken.unfilled_qty])
    BY <1>3 DEF Crossed
  <2>2. PICK c : c = call.book  OBVIOUS
  <2>3. /\ SoundBook(c) /\ IsFiniteSet(RestingIds(c)) /\ RestingIds(c) \subseteq RestingIds(b)
        /\ taken.unfilled_qty \in 0 .. order.qty
    BY <2>1, <2>2 DEF Executes, Served, Progress
  <2>4. PICK o : o = [order EXCEPT !.qty = taken.unfilled_qty]  OBVIOUS
  <2>5. o \in Order /\ o.id = order.id /\ o.qty = taken.unfilled_qty  BY <2>3, <2>4, LeftOver
  <2>6. CASE step.book = c  BY <2>3, <2>6
  <2>7. CASE taken.unfilled_qty > 0 /\ step.book = AppendOrder(c, o)
    BY <1>3, <2>3, <2>5, <2>7, OneMoreRests
  <2> QED  BY <2>1, <2>2, <2>4, <2>6, <2>7
<1> QED  BY <1>1, <1>2, <1>3, SubmitCases

\* A taker order, whatever its quantity, leaves the book sound.
LEMMA TakerSound ==
  ASSUME NEW b, SoundBook(b), IsFiniteSet(RestingIds(b)), NEW side \in Side,
         NEW qty \in Qty, NEW limit, NEW call, call = apply_taker_order(b, side, qty, limit)
  PROVE  SoundBook(call.book) /\ IsFiniteSet(RestingIds(call.book))
<1>0. qty \in Nat  BY QtyLimitAssumption DEF Qty
<1>1. CASE qty = 0  BY <1>1 DEF apply_taker_order, Fail
<1>2. CASE qty # 0
  <2>1. PICK taken : taken = match_taker_order(b, side, qty, limit)  OBVIOUS
  <2>2. PICK M : M = SideOrders(b, Opposite(side))  OBVIOUS
  <2>3. call = ApplyFills(b, taken.fills)  BY <1>2, <2>1 DEF apply_taker_order
  <2>4. PICK gone : \E part : Served(b, Opposite(side), M, gone, part, call)
    BY <1>0, <2>1, <2>2, <2>3, TakerEffect
  <2>5. PICK part : Served(b, Opposite(side), M, gone, part, call)  BY <2>4
  <2> QED  BY <2>5 DEF Served
<1> QED  BY <1>1, <1>2

\* One step of the simulator.
LEMMA SimulatorStep == SimulatorInv /\ [Next]_vars => SimulatorInv'
<1> SUFFICES ASSUME SimulatorInv, [Next]_vars PROVE SimulatorInv'
  OBVIOUS
<1>0. PICK b : b = book  OBVIOUS
<1>1. SoundBook(b) /\ IsFiniteSet(RestingIds(b))  BY <1>0 DEF SimulatorInv
<1>2. PICK c : c = book'  OBVIOUS
<1> SUFFICES SoundBook(c) /\ IsFiniteSet(RestingIds(c))
  BY <1>2 DEF SimulatorInv
<1>3. ASSUME NEW op \in BookOp, ApplyOp(op)
      PROVE  SoundBook(c) /\ IsFiniteSet(RestingIds(c))
  <2>1. c = apply_op(b, op).book  BY <1>0, <1>2, <1>3 DEF ApplyOp, Answers
  <2>2. SoundBook(c) /\ OthersStay(b, c, IdOf(op))  BY <1>1, <2>1, ApplyTouchesOne
  <2>3. IsFiniteSet(RestingIds(c))  BY <1>1, <2>2, StaysFinite
  <2> QED  BY <2>2, <2>3
<1>4. ASSUME NEW side \in Side, NEW qty \in Qty, NEW limit_price \in Price,
             ApplyTakerOrder(side, qty, limit_price)
      PROVE  SoundBook(c) /\ IsFiniteSet(RestingIds(c))
  <2>1. c = apply_taker_order(b, side, qty, limit_price).book
    BY <1>0, <1>2, <1>4 DEF ApplyTakerOrder, Answers
  <2> QED  BY <1>1, <2>1, TakerSound
<1>5. ASSUME NEW order \in Order, NEW policy \in LimitOrderPolicy,
             SubmitLimitOrder(order, policy)
      PROVE  SoundBook(c) /\ IsFiniteSet(RestingIds(c))
  <2>1. c = submit_limit_order(b, order, policy).book
    BY <1>0, <1>2, <1>5 DEF SubmitLimitOrder, Answers
  <2> QED  BY <1>1, <2>1, SubmitSound
<1>6. ASSUME NEW orders \in Snapshot, NEW policy \in SnapshotPolicy,
             ApplySnapshot(orders, policy)
      PROVE  SoundBook(c) /\ IsFiniteSet(RestingIds(c))
  <2>1. c = apply_snapshot_with_policy(b, orders, policy).book
    BY <1>0, <1>2, <1>6 DEF ApplySnapshot, Answers
  <2>2. orders \in Seq(Order)  BY SnapshotsAreLists
  <2> QED  BY <1>1, <2>1, <2>2, SnapshotSound
<1>7. CASE UNCHANGED vars
  <2>1. c = b  BY <1>0, <1>2, <1>7 DEF vars
  <2> QED  BY <1>1, <2>1
<1> QED  BY <1>3, <1>4, <1>5, <1>6, <1>7 DEF Next

\* The simulator's book is sound in every reachable state, whatever a feed,
\* takers, submissions and snapshots do to it: every id rests once, in the
\* queue of its side and price and with a quantity (book.rs:170-864).
THEOREM SimulatorSound == Spec => []SimulatorInv
<1>1. Init => SimulatorInv
  <2> SUFFICES ASSUME Init PROVE SimulatorInv  OBVIOUS
  <2>1. book = EmptyBook  BY DEF Init
  <2> QED  BY <2>1, EmptySound, FS_EmptySet DEF SimulatorInv
<1>2. SimulatorInv /\ [Next]_vars => SimulatorInv'  BY SimulatorStep
<1> QED  BY <1>1, <1>2, PTL DEF Spec

\* A snapshot that is refused changes nothing: the check before the clear
\* foresees every error of the insertions after it (book.rs:181-193).
THEOREM PreserveAtomic == Spec => []PreserveIsAtomic
<1>1. SimulatorInv => PreserveIsAtomic  BY AtomicInSoundBooks
<1> QED  BY <1>1, SimulatorSound, PTL

\* A snapshot that is accepted puts the local orders behind the venue's, at
\* every level and in their order (book.rs:166-193).
THEOREM LocalsGoBehind == Spec => []LocalOrdersGoBehindTheVenue
<1>1. SimulatorInv => LocalOrdersGoBehindTheVenue  BY BehindInSoundBooks
<1> QED  BY <1>1, SimulatorSound, PTL

\* A snapshot refused under Replace leaves the orders ahead of its first bad one,
\* for snapshots of any length (book.rs:184-188).
THEOREM RefusedReplaceIsABeginning == Spec => []RefusedReplaceKeepsTheBeginning
<1>1. SimulatorInv => RefusedReplaceKeepsTheBeginning  BY BeginningStays
<1> QED  BY <1>1, SimulatorSound, PTL

\* No submission fails halfway: a GTC that has taken its makers always finds
\* room for what is left (book.rs:785-864).
THEOREM RefusalsAreWhole == Spec => []RefusalChangesNothing
<1>1. SimulatorInv => RefusalChangesNothing
  <2> SUFFICES ASSUME SimulatorInv, NEW order \in Order, NEW policy \in LimitOrderPolicy,
                      NEW step, step = submit_limit_order(book, order, policy),
                      step.result # "Ok"
               PROVE  step.book = book
    BY DEF RefusalChangesNothing
  <2>1. CASE Posted(book, order, policy, step)
    BY <2>1 DEF Posted, Submitted, Done
  <2>2. CASE Crossed(book, order, policy, step)  BY <2>2 DEF Crossed
  <2> QED  BY <2>1, <2>2, SubmitCases DEF SimulatorInv
<1> QED  BY <1>1, SimulatorSound, PTL

-----------------------------------------------------------------------------
(* No submission rests across the book *)

\* Where the best price is not acceptable, none is.
LEMMA NoneWithinLimit ==
  ASSUME NEW b, SoundBook(b), IsFiniteSet(RestingIds(b)), NEW side \in Side,
         NEW limit \in Nat, NEW M, M = SideOrders(b, Opposite(side)),
         \A n \in DOMAIN M : ~limit_allows(side, M[n].price, limit),
         NEW price \in Price, limit_allows(side, price, limit)
  PROVE  b[<<Opposite(side), price>>] = <<>>
<1>1. PICK k : k = <<Opposite(side), price>>  OBVIOUS
<1>2. k \in Queue /\ Opposite(side) \in Side  BY <1>1 DEF Queue, Opposite, Side
<1>3. SUFFICES ASSUME b[k] # <<>> PROVE FALSE  BY <1>1
<1>4. b[k] \in Seq(Order) /\ DOMAIN b[k] = 1 .. Len(b[k]) /\ Len(b[k]) \in Nat
  BY <1>2, QueuesAreSequences DEF SoundBook
<1>5. 1 \in DOMAIN b[k]
  <2>1. Len(b[k]) # 0  BY <1>3, <1>4, EmptySeq
  <2> QED  BY <1>4, <2>1
<1>6. PICK id : id = b[k][1].id  OBVIOUS
<1>7. id \in RestingIds(b) /\ QueueOf(get(b, id)) = k  BY <1>2, <1>5, <1>6, RestsAt
<1>8. Listing(M, b, {Opposite(side)} \X Price)  BY <1>2, SideIsListed
<1>9. k \in {Opposite(side)} \X Price  BY <1>1
<1>10. PICK n \in DOMAIN M : M[n].id = id  BY <1>7, <1>8, <1>9 DEF Listing
<1>11. M[n] = get(b, id)  BY <1>8, <1>10 DEF Listing
<1>12. M[n].price = price  BY <1>1, <1>7, <1>11 DEF QueueOf
<1> QED  BY <1>10, <1>12

\* The makers beyond one that is not acceptable are not acceptable.
LEMMA NoneBeyond ==
  ASSUME NEW side \in Side, NEW limit \in Nat, NEW p \in Nat, NEW q \in Nat,
         ~limit_allows(side, p, limit), ~Better(Opposite(side), q, p)
  PROVE  ~limit_allows(side, q, limit)
<1>1. CASE side = "Bid"
  <2>1. Opposite(side) = "Ask"  BY <1>1 DEF Opposite
  <2>2. ~(p <= limit) /\ ~(q < p)  BY <1>1, <2>1 DEF limit_allows, Better
  <2>3. ~(q <= limit)  BY <2>2
  <2> QED  BY <1>1, <2>3 DEF limit_allows
<1>2. CASE side = "Ask"
  <2>1. Opposite(side) = "Bid" /\ side # "Bid"  BY <1>2 DEF Opposite
  <2>2. ~(p >= limit) /\ ~(q > p)  BY <2>1 DEF limit_allows, Better
  <2>3. ~(q >= limit)  BY <2>2
  <2> QED  BY <2>1, <2>3 DEF limit_allows
<1> QED  BY <1>1, <1>2 DEF Side

\* Where the first price of a side is not acceptable, none is.
LEMMA UncrossedSide ==
  ASSUME NEW b, SoundBook(b), IsFiniteSet(RestingIds(b)), NEW side \in Side,
         NEW limit \in Nat, ~limit_order_would_cross(b, side, limit),
         NEW price \in Price, limit_allows(side, price, limit)
  PROVE  b[<<Opposite(side), price>>] = <<>>
<1>1. PICK makers : makers = Opposite(side)  OBVIOUS
<1>2. makers \in Side  BY <1>1 DEF Opposite, Side
<1>3. PICK best : best = depth(b, makers)  OBVIOUS
<1>4. BestFirst(best, makers, PricesOf(b, makers))  BY <1>2, <1>3, DepthIsSorted, FinitePrices
<1>5. SUFFICES ASSUME b[<<makers, price>>] # <<>> PROVE FALSE  BY <1>1
<1>6. price \in PricesOf(b, makers)  BY <1>5 DEF PricesOf
<1>7. PICK i \in DOMAIN best : best[i] = price  BY <1>4, <1>6 DEF BestFirst
<1>8. IsFiniteSet(PricesOf(b, makers))  BY <1>2, FinitePrices
<1>9. PICK N : N = Cardinality(PricesOf(b, makers))  OBVIOUS
<1>10. N \in Nat  BY <1>8, <1>9, FS_CardinalityType
<1>11. DOMAIN best = 1 .. N /\ \A m \in 1 .. N : best[m] \in PricesOf(b, makers)
  BY <1>4, <1>9 DEF BestFirst
<1>12. 1 \in DOMAIN best /\ i \in Nat /\ i >= 1  BY <1>7, <1>10, <1>11
<1>13. best # <<>>
  <2>1. best = <<>> => DOMAIN best = {}  OBVIOUS
  <2> QED  BY <1>7, <2>1
<1>14. ~limit_allows(side, best[1], limit)
  BY <1>1, <1>3, <1>13 DEF limit_order_would_cross
<1>15. best[1] \in Nat /\ price \in Nat
  <2>1. best[1] \in Price  BY <1>11, <1>12 DEF PricesOf
  <2> QED  BY <2>1, PriceAssumption
<1>16. ~Better(makers, price, best[1])
  <2>1. CASE i = 1  BY <1>7, <1>15, <2>1 DEF Better
  <2>2. CASE i # 1
    <3>1. 1 < i  BY <1>12, <2>2
    <3>2. Better(makers, best[1], best[i])  BY <1>4, <1>7, <1>12, <3>1 DEF BestFirst
    <3>3. Better(makers, best[1], price)  BY <1>7, <3>2
    <3> QED  BY <1>15, <3>3 DEF Better
  <2> QED  BY <2>1, <2>2
<1> QED  BY <1>1, <1>14, <1>15, <1>16, NoneBeyond

\* A taker that is left unfilled leaves no maker within its limit.
LEMMA NoneLeftWithin ==
  ASSUME NEW M \in Seq(Order), NEW side \in Side, Sorted(M, Opposite(side)),
         NEW qty, NEW limit \in Nat, NEW taken, NEW gone, NEW part,
         Progress(M, side, qty, limit, taken, gone, part), taken.unfilled_qty > 0,
         NEW rest, rest = Remainder(M, gone, part)
  PROVE  /\ rest \in Seq(Order)
         /\ \A n \in DOMAIN rest : ~limit_allows(side, rest[n].price, limit)
<1>1. Len(M) \in Nat /\ DOMAIN M = 1 .. Len(M) /\ \A n \in DOMAIN M : M[n] \in Order
  BY LenProperties, ElementOfSeq
<1>2. gone \in 0 .. Len(M) /\ part \in Nat /\ (part > 0 => taken.unfilled_qty = 0)
  BY DEF Progress
<1>3. part = 0  BY <1>2
<1>4. rest = SubSeq(M, gone + 1, Len(M))  BY <1>3 DEF Remainder
<1>5. /\ rest \in Seq(Order) /\ DOMAIN rest = 1 .. (Len(M) - gone)
      /\ \A n \in 1 .. (Len(M) - gone) : rest[n] = M[gone + n]
  BY <1>2, <1>4, WhatIsLeft
<1>6. ASSUME NEW n \in DOMAIN rest PROVE ~limit_allows(side, rest[n].price, limit)
  <2>1. n \in 1 .. (Len(M) - gone) /\ gone < Len(M) /\ gone # Len(M)  BY <1>1, <1>2, <1>5
  <2>2. taken.limit_stopped  BY <2>1 DEF Progress
  <2>3. ~limit_allows(side, M[gone + 1].price, limit)  BY <2>2 DEF Progress
  <2>4. gone + 1 \in DOMAIN M /\ gone + n \in DOMAIN M
    <3>1. PICK N : N = Len(M)  OBVIOUS
    <3>2. N \in Nat /\ gone \in 0 .. N /\ n \in 1 .. (N - gone)  BY <1>1, <1>2, <2>1, <3>1
    <3>3. gone + 1 \in 1 .. N /\ gone + n \in 1 .. N  BY ONLY <3>2
    <3> QED  BY <1>1, <3>1, <3>3
  <2>5. rest[n] = M[gone + n]  BY <1>5
  <2>6. M[gone + 1].price \in Nat /\ M[gone + n].price \in Nat
    BY <1>1, <2>4, OrderNumbers
  <2>7. ~Better(Opposite(side), M[gone + n].price, M[gone + 1].price)
    <3>1. CASE n = 1  BY <2>6, <3>1 DEF Better
    <3>2. CASE n # 1
      <4>0. gone \in Nat /\ n \in Nat /\ n >= 1
        <5>1. PICK N : N = Len(M)  OBVIOUS
        <5>2. N \in Nat /\ gone \in 0 .. N /\ n \in 1 .. (N - gone)
          BY <1>1, <1>2, <2>1, <5>1
        <5> QED  BY ONLY <5>2
      <4>1. gone + 1 < gone + n  BY ONLY <3>2, <4>0
      <4> QED  BY <2>4, <4>1 DEF Sorted
    <3> QED  BY <3>1, <3>2
  <2> QED  BY <2>3, <2>5, <2>6, <2>7, NoneBeyond
<1> QED  BY <1>5, <1>6

\* Within the limit is what the match allows.
LEMMA AcceptableMeans ==
  ASSUME NEW side \in Side, NEW price, NEW limit
  PROVE  Acceptable(side, price, limit) <=> limit_allows(side, price, limit)
BY DEF Acceptable, limit_allows, Side

\* The two sides are two.
LEMMA OtherSide ==
  ASSUME NEW side \in Side
  PROVE  Opposite(side) \in Side /\ Opposite(side) # side
BY DEF Opposite, Side

\* What rests never crosses, in any sound book.
LEMMA NeverCrossesInSoundBooks == SimulatorInv => RestingNeverCrosses
<1> SUFFICES ASSUME SimulatorInv, NEW order \in Order, NEW policy \in LimitOrderPolicy,
                    NEW step, step = submit_limit_order(book, order, policy),
                    step.result = "Ok", step.rested > 0, NEW price \in Price,
                    Acceptable(order.side, price, order.price)
             PROVE  step.book[<<Opposite(order.side), price>>] = <<>>
  BY DEF RestingNeverCrosses
<1>1. PICK b : b = book  OBVIOUS
<1>2. SoundBook(b) /\ IsFiniteSet(RestingIds(b))  BY <1>1 DEF SimulatorInv
<1>3. PICK side : side = order.side  OBVIOUS
<1>4. side \in Side /\ Opposite(side) \in Side /\ Opposite(side) # side /\ order.price \in Nat
  BY <1>3, OtherSide, OrderNumbers DEF Order
<1>5. limit_allows(side, price, order.price)  BY <1>3, <1>4, AcceptableMeans
<1>6. PICK k : k = <<Opposite(side), price>>  OBVIOUS
<1>7. k \in Queue /\ k # QueueOf(order) /\ QueueOf(order) \in Queue
  BY <1>3, <1>4, <1>6 DEF Queue, QueueOf, Order
<1>8. CASE order.qty > 0 /\ order.id \notin RestingIds(b) /\ Posted(b, order, policy, step)
  <2>1. PICK c : c = AppendOrder(b, order)  OBVIOUS
  <2>2. step.book = c /\ ~limit_order_would_cross(b, side, order.price)
    BY <1>3, <1>8, <2>1 DEF Posted, Submitted, Done
  <2>3. c[k] = b[k]  BY <1>2, <1>7, <2>1, AppendEffect DEF SoundBook
  <2>4. b[k] = <<>>  BY <1>2, <1>4, <1>5, <1>6, <2>2, UncrossedSide
  <2> QED  BY <1>3, <1>6, <2>2, <2>3, <2>4
<1>9. CASE order.qty > 0 /\ order.id \notin RestingIds(b) /\ Crossed(b, order, policy, step)
  <2>1. PICK M, taken, gone, part, call :
          /\ Executes(b, order, M, taken, gone, part, call)
          /\ \/ step.rested = 0
             \/ /\ taken.unfilled_qty > 0
                /\ step.book = AppendOrder(call.book, [order EXCEPT !.qty = taken.unfilled_qty])
    BY <1>9 DEF Crossed
  <2>2. PICK c : c = call.book  OBVIOUS
  <2>3. PICK o : o = [order EXCEPT !.qty = taken.unfilled_qty]  OBVIOUS
  <2>4. taken.unfilled_qty > 0 /\ step.book = AppendOrder(c, o)
    BY <2>1, <2>2, <2>3
  <2>5. /\ M = SideOrders(b, Opposite(side)) /\ M \in Seq(Order)
        /\ Progress(M, side, order.qty, order.price, taken, gone, part)
        /\ SoundBook(c) /\ IsFiniteSet(RestingIds(c))
        /\ SideOrders(c, Opposite(side)) = Remainder(M, gone, part)
    BY <1>3, <2>1, <2>2 DEF Executes, Served
  <2>6. PICK rest : rest = Remainder(M, gone, part)  OBVIOUS
  <2>7. Sorted(M, Opposite(side))  BY <1>2, <1>4, <2>5, SideIsSorted
  <2>8. \A n \in DOMAIN rest : ~limit_allows(side, rest[n].price, order.price)
    BY <1>4, <2>4, <2>5, <2>6, <2>7, NoneLeftWithin
  <2>9. c[k] = <<>>
    BY <1>4, <1>5, <1>6, <2>5, <2>6, <2>8, NoneWithinLimit
  <2>10. taken.unfilled_qty \in 0 .. order.qty  BY <2>5 DEF Progress
  <2>11. o \in Order /\ QueueOf(o) = QueueOf(order)  BY <2>3, <2>10, LeftOver
  <2>12. PICK d : d = AppendOrder(c, o)  OBVIOUS
  <2>13. d[k] = c[k]  BY <1>7, <2>5, <2>11, <2>12, AppendEffect DEF SoundBook
  <2> QED  BY <1>3, <1>6, <2>4, <2>9, <2>12, <2>13
<1>10. \/ Posted(b, order, policy, step)
       \/ Crossed(b, order, policy, step)
       \/ step.result # "Ok"
  BY <1>1, <1>2, SubmitCases
<1> QED  BY <1>1, <1>2, <1>8, <1>9, <1>10, SubmitCases

\* No submission rests across the book, even where a feed left it crossed
\* (book.rs:799-817, 845-862).
THEOREM NeverCrosses == Spec => []RestingNeverCrosses
<1>1. SimulatorInv => RestingNeverCrosses  BY NeverCrossesInSoundBooks
<1> QED  BY <1>1, SimulatorSound, PTL

-----------------------------------------------------------------------------
(* Newcomers *)

\* The place of the order that joined a queue last.
LEMMA LastPlace ==
  ASSUME NEW b, SoundBook(b), NEW order \in Order, order.qty > 0,
         order.id \notin RestingIds(b), NEW c, c = AppendOrder(b, order),
         NEW q, q = QueueOf(order)
  PROVE  queue_position(c, order.id) = Position(b[q], <<>>, c[q])
<1>1. /\ SoundBook(c) /\ get(c, order.id) = order /\ b \in Book
  BY AppendSound, AppendAhead DEF SoundBook
<1>2. /\ q \in Queue
      /\ Len(c[q]) = Len(b[q]) + 1 /\ DOMAIN c[q] = 1 .. (Len(b[q]) + 1)
      /\ \A i \in DOMAIN b[q] : c[q][i] = b[q][i]
      /\ c[q][Len(b[q]) + 1] = order
  BY <1>1, AppendEffect
<1>3. PICK level : level = c[q]  OBVIOUS
<1>4. PICK old : old = b[q]  OBVIOUS
<1>5. /\ level \in Seq(Order) /\ old \in Seq(Order) /\ Len(old) \in Nat
      /\ DOMAIN old = 1 .. Len(old)
  BY <1>1, <1>2, <1>3, <1>4, QueuesAreSequences DEF SoundBook
<1>6. PICK n : n = Len(old) + 1  OBVIOUS
<1>7. /\ n \in DOMAIN level /\ level[n] = order /\ Len(level) = n /\ n \in Nat /\ n - 1 = Len(old)
      /\ \A i \in 1 .. Len(old) : level[i] = old[i]
  BY <1>2, <1>3, <1>4, <1>5, <1>6
<1>8. PlaceIn(level, order.id) = n
  <2>1. n \in DOMAIN c[q] /\ c[q][n].id = order.id  BY <1>3, <1>7
  <2>2. PlaceIn(c[q], order.id) = n  BY <1>1, <1>2, <2>1, RestsAt
  <2> QED  BY <1>3, <2>2
<1>9. SubSeq(level, 1, n - 1) = old
  <2>1. PICK s : s = SubSeq(level, 1, n - 1)  OBVIOUS
  <2>2. s \in Seq(Order) /\ Len(s) = Len(old) /\ \A i \in 1 .. Len(old) : s[i] = level[i]
    BY <1>5, <1>7, <2>1
  <2>3. \A i \in 1 .. Len(s) : s[i] = old[i]  BY <1>7, <2>2
  <2>4. s = old  BY <1>5, <2>2, <2>3, SeqEqual
  <2> QED  BY <2>1, <2>4
<1>10. SubSeq(level, n + 1, Len(level)) = <<>>
  <2>1. PICK s : s = SubSeq(level, n + 1, Len(level))  OBVIOUS
  <2>2. s \in Seq(Order) /\ Len(s) = 0  BY <1>5, <1>7, <2>1
  <2>3. s = <<>>  BY <2>2, EmptySeq
  <2> QED  BY <2>1, <2>3
<1>11. /\ queue_position(c, order.id) =
            Position(SubSeq(level, 1, PlaceIn(level, order.id) - 1),
                     SubSeq(level, PlaceIn(level, order.id) + 1, Len(level)), level)
  BY <1>1, <1>3 DEF queue_position, PlaceIn
<1> QED  BY <1>3, <1>4, <1>8, <1>9, <1>10, <1>11

\* A newcomer finds what was foretold, in any sound book.
LEMMA ForetoldInSoundBooks == SimulatorInv => NewcomersFindWhatWasForetold
<1> SUFFICES ASSUME SimulatorInv, NEW order \in Order, NEW policy \in LimitOrderPolicy,
                    NEW step, step = submit_limit_order(book, order, policy),
                    step.result = "Ok", step.rested > 0,
                    NEW foretold,
                    foretold = queue_position_for_new_order(book, order.side, order.price),
                    NEW found, found = queue_position(step.book, order.id)
             PROVE  /\ found.orders_ahead = foretold.orders_ahead
                    /\ found.qty_ahead = foretold.qty_ahead
                    /\ found.orders_behind = 0
  BY DEF NewcomersFindWhatWasForetold
<1>1. PICK b : b = book  OBVIOUS
<1>2. SoundBook(b) /\ IsFiniteSet(RestingIds(b))  BY <1>1 DEF SimulatorInv
<1>3. PICK q : q = QueueOf(order)  OBVIOUS
<1>4. q \in Queue /\ q[1] = order.side /\ order.side \in Side
  BY <1>3 DEF Queue, QueueOf, Order
<1>5. foretold = Position(b[q], <<>>, b[q])
  BY <1>1, <1>3 DEF queue_position_for_new_order, QueueOf
<1>6. SUFFICES ASSUME NEW o \in Order, o.qty > 0, o.id = order.id, QueueOf(o) = q,
                      NEW c, SoundBook(c), o.id \notin RestingIds(c), c[q] = b[q],
                      step.book = AppendOrder(c, o)
               PROVE  /\ found.orders_ahead = foretold.orders_ahead
                      /\ found.qty_ahead = foretold.qty_ahead
                      /\ found.orders_behind = 0
  <2>1. CASE order.qty > 0 /\ order.id \notin RestingIds(b) /\ Posted(b, order, policy, step)
    <3>1. step.book = AppendOrder(b, order)  BY <2>1 DEF Posted, Submitted, Done
    <3> QED  BY <1>2, <1>3, <1>6, <2>1, <3>1
  <2>2. CASE order.qty > 0 /\ order.id \notin RestingIds(b) /\ Crossed(b, order, policy, step)
    <3>1. PICK M, taken, gone, part, call :
            /\ Executes(b, order, M, taken, gone, part, call)
            /\ \/ step.rested = 0
               \/ /\ taken.unfilled_qty > 0
                  /\ step.book = AppendOrder(call.book, [order EXCEPT !.qty = taken.unfilled_qty])
      BY <2>2 DEF Crossed
    <3>2. PICK c : c = call.book  OBVIOUS
    <3>3. PICK o : o = [order EXCEPT !.qty = taken.unfilled_qty]  OBVIOUS
    <3>4. taken.unfilled_qty > 0 /\ step.book = AppendOrder(c, o)
      BY <3>1, <3>2, <3>3
    <3>5. /\ taken.unfilled_qty \in 0 .. order.qty
          /\ SoundBook(c) /\ RestingIds(c) \subseteq RestingIds(b)
          /\ \A k \in Queue : k[1] # Opposite(order.side) => c[k] = b[k]
      BY <3>1, <3>2 DEF Executes, Served, Progress
    <3>6. /\ o \in Order /\ o.id = order.id /\ o.qty = taken.unfilled_qty
          /\ QueueOf(o) = q
      BY <1>3, <3>3, <3>5, LeftOver
    <3>7. c[q] = b[q]  BY <1>4, <3>5, OtherSide
    <3> QED  BY <1>6, <2>2, <3>4, <3>5, <3>6, <3>7
  <2>3. step.result = "Ok"  OBVIOUS
  <2> QED  BY <1>1, <1>2, <2>1, <2>2, <2>3, SubmitCases
<1>7. PICK d : d = AppendOrder(c, o)  OBVIOUS
<1>8. found = Position(b[q], <<>>, d[q])  BY <1>6, <1>7, LastPlace
<1>9. Len(<<>>) = 0  OBVIOUS
<1> QED  BY <1>5, <1>8, <1>9 DEF Position

\* An order that comes to rest has ahead of it what
\* queue_position_for_new_order said before (book.rs:530-552).
THEOREM NewcomersForetold == Spec => []NewcomersFindWhatWasForetold
<1>1. SimulatorInv => NewcomersFindWhatWasForetold  BY ForetoldInSoundBooks
<1> QED  BY <1>1, SimulatorSound, PTL

-----------------------------------------------------------------------------
(* What a taker and a submission move *)

\* Two lists, one after the other.
Chained(x, y, z) ==
    /\ Len(x) \in Nat /\ Len(y) \in Nat
    /\ z \in Seq(Order) /\ Len(z) = Len(x) + Len(y)
    /\ \A i \in 1 .. (Len(x) + Len(y)) :
         z[i] = IF i <= Len(x) THEN x[i] ELSE y[i - Len(x)]

\* What a concatenation is.
LEMMA BothLists ==
  ASSUME NEW x \in Seq(Order), NEW y \in Seq(Order), NEW z, z = x \o y
  PROVE  Chained(x, y, z)
<1>1. Len(x) \in Nat /\ Len(y) \in Nat  BY LenProperties
<1>2. /\ z \in Seq(Order) /\ Len(z) = Len(x) + Len(y)
      /\ \A i \in 1 .. (Len(x) + Len(y)) :
           z[i] = IF i <= Len(x) THEN x[i] ELSE y[i - Len(x)]
  BY ConcatProperties
<1> QED  BY <1>1, <1>2 DEF Chained

\* A list in two parts.
Parted(M, n, x, y) ==
    /\ x \in Seq(Order) /\ y \in Seq(Order) /\ M = x \o y
    /\ Len(x) = n /\ \A i \in 1 .. n : x[i] = M[i]

\* Any list can be parted at any place.
LEMMA TwoParts ==
  ASSUME NEW M \in Seq(Order), NEW n \in 0 .. Len(M)
  PROVE  Parted(M, n, SubSeq(M, 1, n), SubSeq(M, n + 1, Len(M)))
<1>0. PICK x : x = SubSeq(M, 1, n)  OBVIOUS
<1>9. PICK y : y = SubSeq(M, n + 1, Len(M))  OBVIOUS
<1>1. Len(M) \in Nat /\ n \in Nat /\ n <= Len(M)  BY LenProperties
<1>2. x \in Seq(Order) /\ Len(x) = n /\ \A i \in 1 .. n : x[i] = M[i]
  BY <1>0, <1>1
<1>3. /\ y \in Seq(Order) /\ Len(y) = Len(M) - n
      /\ \A i \in 1 .. (Len(M) - n) : y[i] = M[n + i]
  BY <1>9, WhatIsLeft
<1>4. PICK z : z = x \o y  OBVIOUS
<1>5. Chained(x, y, z)  BY <1>2, <1>3, <1>4, BothLists
<1>6. z \in Seq(Order) /\ Len(z) = Len(M)  BY <1>1, <1>2, <1>3, <1>5 DEF Chained
<1>7. ASSUME NEW i \in 1 .. Len(z) PROVE z[i] = M[i]
  <2>1. PICK N : N = Len(M)  OBVIOUS
  <2>2. N \in Nat /\ n \in Nat /\ n <= N /\ i \in 1 .. N  BY <1>1, <1>6, <2>1
  <2>3. i \in 1 .. (Len(x) + Len(y))  BY <1>2, <1>3, <2>1, <2>2
  <2>4. CASE i <= n
    <3>1. i \in 1 .. n  BY ONLY <2>2, <2>4
    <3>2. z[i] = x[i]  BY <1>2, <1>5, <2>3, <2>4 DEF Chained
    <3> QED  BY <1>2, <3>1, <3>2
  <2>5. CASE ~(i <= n)
    <3>1. i - n \in 1 .. (N - n) /\ n + (i - n) = i  BY ONLY <2>2, <2>5
    <3>2. z[i] = y[i - n]  BY <1>2, <1>5, <2>3, <2>5 DEF Chained
    <3>3. y[i - n] = M[n + (i - n)]  BY <1>3, <2>1, <3>1
    <3> QED  BY <3>1, <3>2, <3>3
  <2> QED  BY <2>4, <2>5
<1>8. z = M  BY <1>6, <1>7, SeqEqual
<1> QED  BY <1>0, <1>2, <1>3, <1>4, <1>8, <1>9 DEF Parted

\* A list and its head, resized: the tail is the same.
LEMMA HeadAndTail ==
  ASSUME NEW y \in Seq(Order), y # <<>>, NEW new_qty \in Qty,
         NEW z, z = HeadOf(y, new_qty)
  PROVE  /\ y[1] \in Order /\ [y[1] EXCEPT !.qty = new_qty] \in Order
         /\ Tail(y) \in Seq(Order)
         /\ y = <<y[1]>> \o Tail(y)
         /\ z = <<[y[1] EXCEPT !.qty = new_qty]>> \o Tail(y)
         /\ z \in Seq(Order) /\ Len(z) = Len(y)
         /\ z[1] = [y[1] EXCEPT !.qty = new_qty]
         /\ \A i \in 1 .. Len(y) : i # 1 => z[i] = y[i]
<1>1. Len(y) \in Nat /\ DOMAIN y = 1 .. Len(y) /\ Len(y) # 0  BY LenProperties, EmptySeq
<1>2. 1 \in DOMAIN y  BY <1>1
<1>3. y[1] \in Order  BY <1>2, ElementOfSeq, LenProperties
<1>4. PICK head : head = [y[1] EXCEPT !.qty = new_qty]  OBVIOUS
<1>5. head \in Order  BY <1>3, <1>4 DEF Order
<1>6. z = [i \in 1 .. Len(y) |-> IF i = 1 THEN head ELSE y[i]]
  BY <1>1, <1>2, <1>4 DEF HeadOf
<1>7. z \in Seq(Order)
  <2>1. \A i \in 1 .. Len(y) : y[i] \in Order  BY <1>1, LenProperties, ElementOfSeq
  <2>2. z \in [1 .. Len(y) -> Order]  BY <1>5, <1>6, <2>1
  <2> QED  BY <1>1, <2>2, SeqDef
<1>8. Len(z) = Len(y)
  <2>1. DOMAIN z = 1 .. Len(y) /\ DOMAIN z = 1 .. Len(z) /\ Len(z) \in Nat
    BY <1>6, <1>7, LenProperties
  <2> QED  BY <1>1, <2>1
<1>9. z[1] = head /\ \A i \in 1 .. Len(y) : i # 1 => z[i] = y[i]
  BY <1>1, <1>2, <1>6
<1>10. PICK t : t = Tail(y)  OBVIOUS
<1>11. t \in Seq(Order) /\ Len(t) = Len(y) - 1 /\ \A i \in 1 .. Len(t) : t[i] = y[i + 1]
  BY <1>10, HeadTailProperties
<1>12. ASSUME NEW h \in Order, NEW s \in Seq(Order), Len(s) = Len(y), s[1] = h,
              \A i \in 1 .. Len(y) : i # 1 => s[i] = y[i]
       PROVE  s = <<h>> \o t
  <2>1. PICK one : one = <<h>>  OBVIOUS
  <2>2. one \in Seq(Order) /\ Len(one) = 1 /\ one[1] = h  BY <2>1
  <2>3. PICK w : w = one \o t  OBVIOUS
  <2>4. /\ w \in Seq(Order) /\ Len(w) = 1 + Len(t)
        /\ \A i \in 1 .. (1 + Len(t)) : w[i] = IF i <= 1 THEN one[i] ELSE t[i - 1]
    <3>1. Chained(one, t, w)  BY <1>11, <2>2, <2>3, BothLists
    <3>2. Len(one) = 1  BY <2>2
    <3> QED  BY ONLY <3>1, <3>2 DEF Chained
  <2>5. Len(w) = Len(s)  BY <1>1, <1>11, <1>12, <2>4
  <2>6. ASSUME NEW i \in 1 .. Len(s) PROVE s[i] = w[i]
    <3>1. i \in 1 .. (1 + Len(t))  BY <2>4, <2>5
    <3>2. CASE i = 1  BY <1>12, <2>2, <2>4, <3>1, <3>2
    <3>3. CASE i # 1
      <4>1. i - 1 \in 1 .. Len(t) /\ (i - 1) + 1 = i /\ ~(i <= 1) /\ i \in 1 .. Len(y)
        BY <1>1, <1>11, <3>1, <3>3
      <4>2. w[i] = t[i - 1]  BY <2>4, <3>1, <4>1
      <4>3. t[i - 1] = y[(i - 1) + 1]  BY <1>11, <4>1
      <4>4. s[i] = y[i]  BY <1>12, <3>3, <4>1
      <4> QED  BY <4>1, <4>2, <4>3, <4>4
    <3> QED  BY <3>2, <3>3
  <2>7. s = w  BY <1>12, <2>4, <2>5, <2>6, SeqEqual
  <2> QED  BY <2>1, <2>3, <2>7
<1>13. z = <<head>> \o t  BY <1>5, <1>7, <1>8, <1>9, <1>12
<1>14. y = <<y[1]>> \o t  BY <1>3, <1>12
<1> QED  BY <1>3, <1>4, <1>5, <1>7, <1>8, <1>9, <1>10, <1>11, <1>13, <1>14

\* One order's quantity, as a sum.
LEMMA SumOfOne ==
  ASSUME NEW o \in Order
  PROVE  <<o>> \in Seq(Order) /\ QtySum(<<o>>) = o.qty
<1>1. PICK none : none = <<>>  OBVIOUS
<1>2. none \in Seq(Order) /\ Append(none, o) = <<o>>  BY <1>1
<1>3. QtySum(Append(none, o)) = QtySum(none) + o.qty  BY <1>2, SumOnAppend
<1>4. QtySum(none) = 0  BY <1>1, SumNothing
<1>5. o.qty \in Nat  BY OrderNumbers
<1> QED  BY <1>2, <1>3, <1>4, <1>5

\* A list behind the makers that are gone, and what is left of it when its
\* first order is filled in part.
PartlyFilled(y, rest, part, head, less, t) ==
    /\ head \in Order /\ less \in Order /\ t \in Seq(Order)
    /\ <<head>> \in Seq(Order) /\ <<less>> \in Seq(Order) /\ rest \in Seq(Order)
    /\ y = <<head>> \o t /\ rest = <<less>> \o t
    /\ head.qty \in Nat /\ less.qty \in Nat /\ less.qty + part = head.qty
    /\ less.price = head.price
    /\ QtySum(<<head>>) = head.qty /\ QtySum(<<less>>) = less.qty

\* A partial fill makes the first order of what is left smaller.
LEMMA PartTaken ==
  ASSUME NEW M \in Seq(Order), NEW gone \in 0 .. Len(M), NEW part \in Nat, part > 0,
         gone < Len(M), part < M[gone + 1].qty,
         NEW y, y = SubSeq(M, gone + 1, Len(M)), NEW rest, rest = Remainder(M, gone, part),
         NEW head, head = M[gone + 1]
  PROVE  \E less, t : PartlyFilled(y, rest, part, head, less, t)
<1>0. Len(M) \in Nat  BY LenProperties
<1>1. gone \in 0 .. (Len(M) - 1)  BY <1>0
<1>2. y \in Seq(Order) /\ y # <<>> /\ y[1] = head  BY <1>1, OneFewer
<1>3. PICK new : new = head.qty - part  OBVIOUS
<1>4. head \in Order
  <2>1. gone + 1 \in 1 .. Len(M)  BY <1>0, <1>1
  <2> QED  BY <2>1, ElementOfSeq
<1>5. head.qty \in Nat /\ head.qty \in Qty /\ part < head.qty
  BY <1>4, OrderNumbers
<1>6. new \in Nat /\ new + part = head.qty /\ new <= head.qty
  <2>1. PICK h : h = head.qty  OBVIOUS
  <2>2. h \in Nat /\ part \in Nat /\ part < h /\ new = h - part  BY <1>3, <1>5, <2>1
  <2>3. new \in Nat /\ new + part = h /\ new <= h  BY ONLY <2>2
  <2> QED  BY <2>1, <2>3
<1>7. new \in Qty  BY <1>5, <1>6, QtyLimitAssumption DEF Qty
<1>8. part # 0  OBVIOUS
<1>9. rest = HeadOf(y, new)  BY <1>2, <1>3, <1>8 DEF Remainder
<1>10. PICK less : less = [y[1] EXCEPT !.qty = new]  OBVIOUS
<1>11. PICK t : t = Tail(y)  OBVIOUS
<1>12. less \in Order /\ t \in Seq(Order)
  BY <1>2, <1>7, <1>9, <1>10, <1>11, HeadAndTail
<1>13. y = <<head>> \o t
  BY <1>2, <1>7, <1>9, <1>11, HeadAndTail
<1>14. rest = <<less>> \o t /\ rest \in Seq(Order)
  BY <1>2, <1>7, <1>9, <1>10, <1>11, HeadAndTail
<1>15. less.qty = new /\ less.price = head.price  BY <1>2, <1>4, <1>10 DEF Order
<1>16. <<head>> \in Seq(Order) /\ QtySum(<<head>>) = head.qty  BY <1>4, SumOfOne
<1>17. <<less>> \in Seq(Order) /\ QtySum(<<less>>) = less.qty  BY <1>12, SumOfOne
<1>18. PartlyFilled(y, rest, part, head, less, t)
  BY <1>4, <1>5, <1>6, <1>12, <1>13, <1>14, <1>15, <1>16, <1>17 DEF PartlyFilled
<1> QED  BY <1>18

\* What a taker leaves is less by what it took.
LEMMA RemainderSum ==
  ASSUME NEW M \in Seq(Order), NEW side, NEW qty \in Nat, NEW limit,
         NEW taken, NEW gone, NEW part,
         Progress(M, side, qty, limit, taken, gone, part),
         NEW rest, rest = Remainder(M, gone, part)
  PROVE  /\ rest \in Seq(Order)
         /\ QtySum(rest) + (qty - taken.unfilled_qty) = QtySum(M)
<1>1. PICK x : x = SubSeq(M, 1, gone)  OBVIOUS
<1>2. PICK y : y = SubSeq(M, gone + 1, Len(M))  OBVIOUS
<1>3. /\ gone \in 0 .. Len(M) /\ part \in Nat /\ taken.unfilled_qty \in 0 .. qty
      /\ QtySum(x) + part + taken.unfilled_qty = qty
      /\ part > 0 => gone < Len(M) /\ part < M[gone + 1].qty
  BY <1>1 DEF Progress
<1>4. x \in Seq(Order) /\ y \in Seq(Order) /\ M = x \o y
  <2>1. M \in Seq(Order) /\ gone \in 0 .. Len(M)  BY <1>3
  <2>2. Parted(M, gone, SubSeq(M, 1, gone), SubSeq(M, gone + 1, Len(M)))
    BY ONLY <2>1, TwoParts
  <2> QED  BY <1>1, <1>2, <2>2 DEF Parted
<1>5. QtySum(M) = QtySum(x) + QtySum(y)  BY <1>4, SumOfBoth
<1>6. QtySum(x) \in Nat /\ QtySum(y) \in Nat  BY <1>4, SumIsNat
<1>7. PICK u : u = taken.unfilled_qty  OBVIOUS
<1>8. u \in Nat /\ QtySum(x) + part + u = qty  BY <1>3, <1>7
<1>9. CASE part = 0
  <2>1. rest = y  BY <1>2, <1>9 DEF Remainder
  <2>2. QtySum(y) + (qty - u) = QtySum(x) + QtySum(y)
    BY ONLY <1>3, <1>6, <1>8, <1>9
  <2> QED  BY <1>4, <1>5, <1>7, <2>1, <2>2
<1>10. CASE part > 0
  <2>1. PICK head : head = M[gone + 1]  OBVIOUS
  <2>2. \E less, t : PartlyFilled(y, rest, part, head, less, t)
    BY <1>2, <1>3, <1>10, <2>1, PartTaken
  <2>3. PICK less, t : PartlyFilled(y, rest, part, head, less, t)  BY <2>2
  <2>4. QtySum(y) = head.qty + QtySum(t) /\ QtySum(rest) = less.qty + QtySum(t)
    BY <2>3, SumOfBoth DEF PartlyFilled
  <2>5. QtySum(t) \in Nat  BY <2>3, SumIsNat DEF PartlyFilled
  <2>6. (less.qty + QtySum(t)) + (qty - u) = QtySum(x) + (head.qty + QtySum(t))
    <3>1. /\ QtySum(x) \in Nat /\ QtySum(t) \in Nat /\ part \in Nat /\ u \in Nat
          /\ less.qty \in Nat /\ head.qty \in Nat /\ qty \in Nat
      BY <1>3, <1>6, <1>8, <2>3, <2>5 DEF PartlyFilled
    <3>2. QtySum(x) + part + u = qty /\ less.qty + part = head.qty
      BY <1>8, <2>3 DEF PartlyFilled
    <3>3. PICK p : p = QtySum(x)  OBVIOUS
    <3>4. PICK z : z = QtySum(t)  OBVIOUS
    <3>5. PICK l : l = less.qty  OBVIOUS
    <3>6. PICK h : h = head.qty  OBVIOUS
    <3>7. /\ p \in Nat /\ z \in Nat /\ l \in Nat /\ h \in Nat
          /\ part \in Nat /\ u \in Nat /\ qty \in Nat
          /\ p + part + u = qty /\ l + part = h
      BY ONLY <3>1, <3>2, <3>3, <3>4, <3>5, <3>6
    <3>8. (l + z) + (qty - u) = p + (h + z)  BY ONLY <3>7
    <3> QED  BY ONLY <3>3, <3>4, <3>5, <3>6, <3>8
  <2>7. rest \in Seq(Order)  BY <2>3 DEF PartlyFilled
  <2> QED  BY <1>5, <1>7, <2>4, <2>6, <2>7
<1> QED  BY <1>3, <1>9, <1>10

\* Where an order belongs in a sorted list: behind those that are as good.
LEMMA PlaceInSorted ==
  ASSUME NEW l \in Seq(Order), NEW side, Sorted(l, side), NEW o \in Order
  PROVE  \E n \in 0 .. Len(l) :
           /\ \A i \in 1 .. n : ~Better(side, o.price, l[i].price)
           /\ \A i \in (n + 1) .. Len(l) : Better(side, o.price, l[i].price)
<1> DEFINE Good(n) == \A i \in 1 .. n : ~Better(side, o.price, l[i].price)
           T == {n \in Nat : n <= Len(l) =>
                   \/ Good(n)
                   \/ \E m \in 0 .. n : /\ Good(m)
                                        /\ m + 1 <= n /\ Better(side, o.price, l[m + 1].price)}
<1>0. Len(l) \in Nat /\ DOMAIN l = 1 .. Len(l) /\ \A i \in 1 .. Len(l) : l[i] \in Order
  BY LenProperties, ElementOfSeq
<1>1. 0 \in T
  <2>1. Good(0)  OBVIOUS
  <2> QED  BY <2>1
<1>2. ASSUME NEW n \in Nat, n \in T PROVE n + 1 \in T
  <2> SUFFICES ASSUME n + 1 <= Len(l)
               PROVE  \/ Good(n + 1)
                      \/ \E m \in 0 .. (n + 1) :
                           /\ Good(m)
                           /\ m + 1 <= n + 1 /\ Better(side, o.price, l[m + 1].price)
    OBVIOUS
  <2>1. n <= Len(l)  BY <1>0
  <2>2. CASE Good(n) /\ Better(side, o.price, l[n + 1].price)
    <3>1. n \in 0 .. (n + 1) /\ n + 1 <= n + 1  OBVIOUS
    <3> QED  BY <2>2, <3>1
  <2>3. CASE Good(n) /\ ~Better(side, o.price, l[n + 1].price)
    <3>1. ASSUME NEW i \in 1 .. (n + 1) PROVE ~Better(side, o.price, l[i].price)
      <4>1. i = n + 1 \/ i \in 1 .. n  OBVIOUS
      <4> QED  BY <2>3, <4>1
    <3> QED  BY <3>1
  <2>4. CASE \E m \in 0 .. n : /\ Good(m)
                               /\ m + 1 <= n /\ Better(side, o.price, l[m + 1].price)
    <3>1. PICK m \in 0 .. n : /\ Good(m)
                              /\ m + 1 <= n /\ Better(side, o.price, l[m + 1].price)
      BY <2>4
    <3>2. m \in 0 .. (n + 1) /\ m + 1 <= n + 1  BY <3>1
    <3> QED  BY <3>1, <3>2
  <2> QED  BY <1>2, <2>1, <2>2, <2>3, <2>4
<1>3. Len(l) \in T
  <2> HIDE DEF T
  <2>1. Nat \subseteq T  BY <1>1, <1>2, NumbersByInduction
  <2> QED  BY <1>0, <2>1
<1>4. CASE Good(Len(l))
  <2>1. Len(l) \in 0 .. Len(l) /\ (Len(l) + 1) .. Len(l) = {}  BY <1>0
  <2> QED  BY <1>4, <2>1
<1>5. CASE \E m \in 0 .. Len(l) : /\ Good(m)
                                  /\ m + 1 <= Len(l) /\ Better(side, o.price, l[m + 1].price)
  <2>1. PICK m \in 0 .. Len(l) : /\ Good(m)
                                 /\ m + 1 <= Len(l) /\ Better(side, o.price, l[m + 1].price)
    BY <1>5
  <2>2. ASSUME NEW i \in (m + 1) .. Len(l) PROVE Better(side, o.price, l[i].price)
    <3>1. m + 1 \in DOMAIN l /\ i \in DOMAIN l  BY <1>0, <2>1
    <3>2. CASE i = m + 1  BY <2>1, <3>2
    <3>3. CASE i # m + 1
      <4>1. m + 1 < i  BY <1>0, <2>1, <3>3
      <4>2. ~Better(side, l[i].price, l[m + 1].price)  BY <3>1, <4>1 DEF Sorted
      <4>3. PICK p : p = l[m + 1].price  OBVIOUS
      <4>4. PICK q : q = l[i].price  OBVIOUS
      <4>5. PICK r : r = o.price  OBVIOUS
      <4>6. p \in Nat /\ q \in Nat /\ r \in Nat
        BY <1>0, <3>1, <4>3, <4>4, <4>5, OrderNumbers
      <4>7. Better(side, r, p) /\ ~Better(side, q, p)  BY <2>1, <4>2, <4>3, <4>4, <4>5
      <4>8. Better(side, r, q)  BY ONLY <4>6, <4>7 DEF Better
      <4> QED  BY <4>4, <4>5, <4>8
    <3> QED  BY <3>2, <3>3
  <2> QED  BY <2>1, <2>2
<1> QED  BY <1>0, <1>3, <1>4, <1>5

\* An order that comes to rest adds its quantity to its side.
LEMMA SideGrows ==
  ASSUME NEW b, SoundBook(b), IsFiniteSet(RestingIds(b)), NEW o \in Order, o.qty > 0,
         o.id \notin RestingIds(b), NEW c, c = AppendOrder(b, o), NEW l, l = SideOrders(b, o.side)
  PROVE  QtySum(SideOrders(c, o.side)) = QtySum(l) + o.qty
<1>1. PICK side : side = o.side  OBVIOUS
<1>2. side \in Side  BY <1>1 DEF Order
<1>3. Listing(l, b, {side} \X Price) /\ Sorted(l, side)  BY <1>1, <1>2, SideIsListed, SideIsSorted
<1>4. l \in Seq(Order) /\ OnceEach(l)  BY <1>3, ListedOnce
<1>5. Len(l) \in Nat /\ DOMAIN l = 1 .. Len(l)  BY <1>4, LenProperties
<1>6. PICK n \in 0 .. Len(l) :
        /\ \A i \in 1 .. n : ~Better(side, o.price, l[i].price)
        /\ \A i \in (n + 1) .. Len(l) : Better(side, o.price, l[i].price)
  BY <1>3, <1>4, PlaceInSorted
<1>7. PICK x : x = SubSeq(l, 1, n)  OBVIOUS
<1>8. PICK y : y = SubSeq(l, n + 1, Len(l))  OBVIOUS
<1>9. /\ x \in Seq(Order) /\ y \in Seq(Order) /\ l = x \o y
      /\ Len(x) = n /\ \A i \in 1 .. n : x[i] = l[i]
  <2>1. Parted(l, n, SubSeq(l, 1, n), SubSeq(l, n + 1, Len(l)))  BY <1>4, TwoParts
  <2> QED  BY <1>7, <1>8, <2>1 DEF Parted
<1>10. /\ Len(y) = Len(l) - n /\ \A i \in 1 .. (Len(l) - n) : y[i] = l[n + i]
  BY <1>4, <1>8, WhatIsLeft
<1>11. PICK r : r = Append(x, o)  OBVIOUS
<1>12. /\ r \in Seq(Order) /\ Len(r) = n + 1 /\ r[n + 1] = o
       /\ \A i \in 1 .. n : r[i] = x[i]
  BY <1>9, <1>11, AppendProperties
<1>13. PICK z : z = r \o y  OBVIOUS
<1>14. z \in Seq(Order) /\ Len(z) = Len(l) + 1
  <2>1. z \in Seq(Order) /\ Len(z) = Len(r) + Len(y)
    BY <1>9, <1>12, <1>13, BothLists DEF Chained
  <2> QED  BY <1>5, <1>10, <1>12, <2>1
<1>15. /\ \A i \in 1 .. n : z[i] = l[i]
       /\ z[n + 1] = o
       /\ \A i \in (n + 1) .. Len(l) : z[i + 1] = l[i]
  <2>1. \A i \in 1 .. (Len(r) + Len(y)) : z[i] = IF i <= Len(r) THEN r[i] ELSE y[i - Len(r)]
    BY <1>9, <1>12, <1>13, BothLists DEF Chained
  <2>2. Len(r) = n + 1 /\ Len(r) + Len(y) = Len(l) + 1  BY <1>5, <1>10, <1>12
  <2>3. \A i \in 1 .. (Len(l) + 1) : z[i] = IF i <= n + 1 THEN r[i] ELSE y[i - (n + 1)]
    BY ONLY <2>1, <2>2
  <2>4. ASSUME NEW i \in 1 .. n PROVE z[i] = l[i]
    <3>1. i \in 1 .. (Len(l) + 1) /\ i <= n + 1  BY <1>5
    <3> QED  BY <1>9, <1>12, <2>3, <3>1
  <2>5. z[n + 1] = o
    <3>1. n + 1 \in 1 .. (Len(l) + 1) /\ n + 1 <= n + 1  BY <1>5
    <3> QED  BY <1>12, <2>3, <3>1
  <2>6. ASSUME NEW i \in (n + 1) .. Len(l) PROVE z[i + 1] = l[i]
    <3>1. i + 1 \in 1 .. (Len(l) + 1) /\ ~(i + 1 <= n + 1)
          /\ (i + 1) - (n + 1) = i - n /\ i - n \in 1 .. (Len(l) - n) /\ n + (i - n) = i
      BY <1>5
    <3>2. z[i + 1] = y[i - n]  BY <2>3, <3>1
    <3>3. y[i - n] = l[n + (i - n)]  BY <1>10, <3>1
    <3> QED  BY <3>1, <3>2, <3>3
  <2> QED  BY <2>4, <2>5, <2>6
<1>16. DOMAIN z = 1 .. (Len(l) + 1)  BY <1>14, LenProperties
<1>17. ASSUME NEW i \in DOMAIN z
       PROVE  \/ i \in 1 .. n /\ i \in DOMAIN l /\ z[i] = l[i]
              \/ i = n + 1 /\ z[i] = o
              \/ i - 1 \in (n + 1) .. Len(l) /\ i - 1 \in DOMAIN l /\ z[i] = l[i - 1]
  <2>1. CASE i \in 1 .. n  BY <1>5, <1>15, <2>1
  <2>2. CASE i = n + 1  BY <1>15, <2>2
  <2>3. CASE i \notin 1 .. n /\ i # n + 1
    <3>1. i - 1 \in (n + 1) .. Len(l) /\ i - 1 \in DOMAIN l /\ (i - 1) + 1 = i
      BY <1>5, <1>16, <2>3
    <3>2. z[(i - 1) + 1] = l[i - 1]  BY <1>15, <3>1
    <3> QED  BY <3>1, <3>2
  <2> QED  BY <2>1, <2>2, <2>3
<1>18. SoundBook(c) /\ RestingIds(c) = RestingIds(b) \cup {o.id} /\ IsFiniteSet(RestingIds(c))
  BY AppendSound, OneMoreRests
<1>19. /\ \A id \in RestingIds(b) : get(c, id) = get(b, id) /\ Ahead(c, id) = Ahead(b, id)
       /\ get(c, o.id) = o /\ Ahead(c, o.id) = Ids(b[QueueOf(o)])
  BY AppendAhead
<1>20. QueueOf(o) \in {side} \X Price /\ QueueOf(o) \in Queue
  BY <1>1, <1>2 DEF QueueOf, Order, Queue
<1>21. \A i \in DOMAIN l : /\ l[i].id \in RestingIds(b) /\ l[i] = get(b, l[i].id)
                           /\ QueueOf(l[i]) \in {side} \X Price /\ l[i].id # o.id
                           /\ l[i].price \in Nat
  <2>1. \A i \in DOMAIN l : /\ l[i].id \in RestingIds(b) /\ l[i] = get(b, l[i].id)
                            /\ QueueOf(l[i]) \in {side} \X Price
    BY <1>3 DEF Listing
  <2>2. \A i \in DOMAIN l : l[i] \in Order  BY <1>4, LenProperties, ElementOfSeq
  <2>3. \A i \in DOMAIN l : l[i].price \in Nat  BY <2>2, OrderNumbers
  <2> QED  BY <2>1, <2>3
<1>22. ASSUME NEW i \in DOMAIN z
       PROVE  /\ z[i].id \in RestingIds(c) /\ z[i] = get(c, z[i].id)
              /\ QueueOf(z[i]) \in {side} \X Price
  BY <1>17, <1>18, <1>19, <1>20, <1>21
<1>23. ASSUME NEW id \in RestingIds(c), QueueOf(get(c, id)) \in {side} \X Price
       PROVE  \E i \in DOMAIN z : z[i].id = id
  <2>1. CASE id = o.id
    <3>1. n + 1 \in DOMAIN z  BY <1>5, <1>16
    <3> QED  BY <1>15, <2>1, <3>1
  <2>2. CASE id # o.id
    <3>1. id \in RestingIds(b) /\ get(c, id) = get(b, id)  BY <1>18, <1>19, <2>2
    <3>2. PICK i \in DOMAIN l : l[i].id = id  BY <1>3, <1>23, <3>1 DEF Listing
    <3>3. CASE i <= n
      <4>1. i \in 1 .. n /\ i \in DOMAIN z  BY <1>5, <1>16, <3>3
      <4> QED  BY <1>15, <3>2, <4>1
    <3>4. CASE ~(i <= n)
      <4>1. i \in (n + 1) .. Len(l) /\ i + 1 \in DOMAIN z  BY <1>5, <1>16, <3>4
      <4> QED  BY <1>15, <3>2, <4>1
    <3> QED  BY <3>3, <3>4
  <2> QED  BY <2>1, <2>2
<1>24. ASSUME NEW i \in DOMAIN l, NEW j \in DOMAIN l, i < j
       PROVE  /\ l[i].id # l[j].id
              /\ QueueOf(l[i]) = QueueOf(l[j]) => l[i].id \in Ahead(c, l[j].id)
              /\ ~Better(side, l[j].price, l[i].price)
  <2>1. /\ l[i].id # l[j].id
        /\ QueueOf(l[i]) = QueueOf(l[j]) => l[i].id \in Ahead(b, l[j].id)
    BY <1>3, <1>24 DEF Listing
  <2>2. ~Better(side, l[j].price, l[i].price)  BY <1>3, <1>24 DEF Sorted
  <2> QED  BY <1>19, <1>21, <2>1, <2>2
<1>25. ASSUME NEW i \in 1 .. n, i \in DOMAIN l
       PROVE  /\ QueueOf(l[i]) = QueueOf(o) => l[i].id \in Ahead(c, o.id)
              /\ ~Better(side, o.price, l[i].price)
  <2>1. ASSUME QueueOf(l[i]) = QueueOf(o) PROVE l[i].id \in Ids(b[QueueOf(o)])
    BY <1>20, <1>21, <1>25, <2>1, QueueHolds
  <2> QED  BY <1>6, <1>19, <2>1
<1>26. ASSUME NEW j \in (n + 1) .. Len(l), j \in DOMAIN l
       PROVE  QueueOf(l[j]) # QueueOf(o) /\ ~Better(side, l[j].price, o.price)
  <2>1. Better(side, o.price, l[j].price)  BY <1>6
  <2>2. o.price \in Nat /\ l[j].price \in Nat  BY <1>21, <1>26, OrderNumbers
  <2>3. o.price # l[j].price /\ ~Better(side, l[j].price, o.price)
    BY ONLY <2>1, <2>2 DEF Better
  <2> QED  BY <2>3 DEF QueueOf
<1>27. ASSUME NEW i \in DOMAIN z, NEW j \in DOMAIN z, i < j
       PROVE  /\ z[i].id # z[j].id
              /\ QueueOf(z[i]) = QueueOf(z[j]) => z[i].id \in Ahead(c, z[j].id)
              /\ ~Better(side, z[j].price, z[i].price)
  <2>0. i \in Nat /\ j \in Nat /\ n \in Nat  BY <1>5, <1>16
  <2>1. CASE i \in 1 .. n /\ i \in DOMAIN l /\ z[i] = l[i]
    <3>1. CASE j \in 1 .. n /\ j \in DOMAIN l /\ z[j] = l[j]
      BY <1>24, <1>27, <2>1, <3>1
    <3>2. CASE j = n + 1 /\ z[j] = o  BY <1>21, <1>25, <2>1, <3>2
    <3>3. CASE j - 1 \in (n + 1) .. Len(l) /\ j - 1 \in DOMAIN l /\ z[j] = l[j - 1]
      <4>1. i < j - 1  BY ONLY <1>27, <2>0, <2>1, <3>3
      <4> QED  BY <1>24, <2>1, <3>3, <4>1
    <3> QED  BY <1>17, <3>1, <3>2, <3>3
  <2>2. CASE i = n + 1 /\ z[i] = o
    <3>1. j - 1 \in (n + 1) .. Len(l) /\ j - 1 \in DOMAIN l /\ z[j] = l[j - 1]
      <4>1. ~(j \in 1 .. n) /\ j # n + 1  BY ONLY <1>27, <2>0, <2>2
      <4> QED  BY <1>17, <4>1
    <3> QED  BY <1>21, <1>26, <2>2, <3>1
  <2>3. CASE i - 1 \in (n + 1) .. Len(l) /\ i - 1 \in DOMAIN l /\ z[i] = l[i - 1]
    <3>1. ~(j \in 1 .. n) /\ j # n + 1 /\ i - 1 < j - 1  BY ONLY <1>27, <2>0, <2>3
    <3>2. j - 1 \in DOMAIN l /\ z[j] = l[j - 1]  BY <1>17, <3>1
    <3> QED  BY <1>24, <2>3, <3>1, <3>2
  <2> QED  BY <1>17, <2>1, <2>2, <2>3
<1>28. Listing(z, c, {side} \X Price)  BY <1>14, <1>22, <1>23, <1>27 DEF Listing
<1>29. Sorted(z, side)  BY <1>27 DEF Sorted
<1>30. SideOrders(c, side) = z  BY <1>2, <1>18, <1>28, <1>29, OnePriority DEF InPriority
<1>31. QtySum(z) = QtySum(r) + QtySum(y) /\ QtySum(l) = QtySum(x) + QtySum(y)
  BY <1>9, <1>12, <1>13, SumOfBoth
<1>32. QtySum(r) = QtySum(x) + o.qty  BY <1>9, <1>11, SumOnAppend
<1>33. QtySum(x) \in Nat /\ QtySum(y) \in Nat /\ o.qty \in Nat  BY <1>9, SumIsNat, OrderNumbers
<1>34. (QtySum(x) + o.qty) + QtySum(y) = (QtySum(x) + QtySum(y)) + o.qty  BY ONLY <1>33
<1> QED  BY <1>1, <1>30, <1>31, <1>32, <1>34

-----------------------------------------------------------------------------
(* Submissions add up *)

\* An order that comes to rest changes its own side alone.
LEMMA OtherSideStays ==
  ASSUME NEW b, SoundBook(b), IsFiniteSet(RestingIds(b)), NEW o \in Order,
         NEW c, c = AppendOrder(b, o), NEW side \in Side, side # o.side
  PROVE  SideOrders(c, side) = SideOrders(b, side)
<1>1. ASSUME NEW p \in Price PROVE c[<<side, p>>] = b[<<side, p>>]
  <2>1. <<side, p>> \in Queue /\ <<side, p>> # QueueOf(o)  BY DEF Queue, QueueOf
  <2> QED  BY <2>1, AppendEffect DEF SoundBook
<1> QED  BY <1>1, SameSide

\* The quantities of both sides, after a submission that was accepted.
AddsUp(b, order, policy, step) ==
    /\ step.filled + step.rested <= order.qty
    /\ policy # "Ioc" => step.filled + step.rested = order.qty
    /\ policy \in {"Ioc", "Fok"} => step.rested = 0
    /\ policy = "PostOnly" => step.filled = 0
    /\ QtySum(SideOrders(step.book, Opposite(order.side)))
         = QtySum(SideOrders(b, Opposite(order.side))) - step.filled
    /\ QtySum(SideOrders(step.book, order.side))
         = QtySum(SideOrders(b, order.side)) + step.rested

\* An order that is accepted without a match rests whole.
LEMMA PostedAddsUp ==
  ASSUME NEW b, SoundBook(b), IsFiniteSet(RestingIds(b)), NEW order \in Order,
         NEW policy, NEW step, order.qty > 0, order.id \notin RestingIds(b),
         Posted(b, order, policy, step)
  PROVE  AddsUp(b, order, policy, step)
<1>1. PICK side : side = order.side  OBVIOUS
<1>2. side \in Side /\ Opposite(side) \in Side /\ Opposite(side) # side /\ order.qty \in Nat
  BY <1>1, OtherSide, OrderNumbers DEF Order
<1>3. PICK c : c = AppendOrder(b, order)  OBVIOUS
<1>4. policy = "PostOnly" /\ step.book = c /\ step.filled = 0 /\ step.rested = order.qty
  BY <1>3 DEF Posted, Submitted, Done
<1>5. PICK own : own = SideOrders(b, side)  OBVIOUS
<1>6. QtySum(SideOrders(c, side)) = QtySum(own) + order.qty
  BY <1>1, <1>3, <1>5, SideGrows
<1>7. PICK M : M = SideOrders(b, Opposite(side))  OBVIOUS
<1>8. SideOrders(c, Opposite(side)) = M
  BY <1>1, <1>2, <1>3, <1>7, OtherSideStays
<1>9. M \in Seq(Order)  BY <1>2, <1>7, SideHasQuantities
<1>10. QtySum(M) \in Nat  BY <1>9, SumIsNat
<1>11. QtySum(M) = QtySum(M) - 0 /\ 0 + order.qty = order.qty /\ order.qty <= order.qty
  BY ONLY <1>2, <1>10
<1> QED  BY <1>1, <1>4, <1>5, <1>6, <1>7, <1>8, <1>11 DEF AddsUp

\* An order that takes first: the makers lose what it filled, and its side
\* gains what rests of it.
LEMMA CrossedAddsUp ==
  ASSUME NEW b, SoundBook(b), IsFiniteSet(RestingIds(b)), NEW order \in Order,
         NEW policy \in LimitOrderPolicy, NEW step, order.qty > 0,
         order.id \notin RestingIds(b), Crossed(b, order, policy, step)
  PROVE  AddsUp(b, order, policy, step)
<1>1. PICK side : side = order.side  OBVIOUS
<1>2. side \in Side /\ Opposite(side) \in Side /\ Opposite(side) # side /\ order.qty \in Nat
  BY <1>1, OtherSide, OrderNumbers DEF Order
<1>3. PICK M, taken, gone, part, call :
        /\ Executes(b, order, M, taken, gone, part, call)
        /\ step.filled = order.qty - taken.unfilled_qty
        /\ \/ /\ step.book = call.book /\ step.rested = 0
              /\ policy # "PostOnly" /\ (policy = "Ioc" \/ taken.unfilled_qty = 0)
           \/ /\ policy = "Gtc" /\ taken.unfilled_qty > 0
              /\ step.book = AppendOrder(call.book, [order EXCEPT !.qty = taken.unfilled_qty])
              /\ step.rested = taken.unfilled_qty
  BY DEF Crossed
<1>4. PICK c : c = call.book  OBVIOUS
<1>5. PICK u : u = taken.unfilled_qty  OBVIOUS
<1>6. PICK rest : rest = Remainder(M, gone, part)  OBVIOUS
<1>7. /\ M = SideOrders(b, Opposite(side)) /\ M \in Seq(Order)
      /\ Progress(M, side, order.qty, order.price, taken, gone, part)
      /\ SoundBook(c) /\ IsFiniteSet(RestingIds(c)) /\ RestingIds(c) \subseteq RestingIds(b)
      /\ SideOrders(c, Opposite(side)) = rest
      /\ \A k \in Queue : k[1] # Opposite(side) => c[k] = b[k]
  BY <1>1, <1>3, <1>4, <1>6 DEF Executes, Served
<1>8. u \in 0 .. order.qty /\ u \in Nat  BY <1>2, <1>5, <1>7 DEF Progress
<1>9. rest \in Seq(Order) /\ QtySum(rest) + (order.qty - u) = QtySum(M)
  BY <1>2, <1>5, <1>6, <1>7, RemainderSum
<1>10. QtySum(rest) \in Nat /\ QtySum(M) \in Nat  BY <1>7, <1>9, SumIsNat
<1>11. PICK own : own = SideOrders(b, side)  OBVIOUS
<1>12. SideOrders(c, side) = own
  <2>1. ASSUME NEW p \in Price PROVE c[<<side, p>>] = b[<<side, p>>]
    <3>1. PICK k : k = <<side, p>>  OBVIOUS
    <3>2. k \in Queue /\ k[1] # Opposite(side)  BY <1>2, <3>1 DEF Queue
    <3> QED  BY <1>7, <3>1, <3>2
  <2> QED  BY <1>2, <1>11, <2>1, SameSide
<1>13. own \in Seq(Order)  BY <1>2, <1>11, SideHasQuantities
<1>14. QtySum(own) \in Nat  BY <1>13, SumIsNat
<1>15. PICK f : f = order.qty - u  OBVIOUS
<1>16. f \in Nat /\ f <= order.qty /\ (u = 0 => f = order.qty) /\ f + u = order.qty
       /\ f + 0 = f /\ QtySum(rest) = QtySum(M) - f
  BY ONLY <1>2, <1>8, <1>9, <1>10, <1>15
<1>17. CASE /\ step.book = c /\ step.rested = 0
            /\ policy # "PostOnly" /\ (policy = "Ioc" \/ u = 0)
  <2>1. step.filled = f  BY <1>3, <1>5, <1>15
  <2>2. QtySum(own) = QtySum(own) + 0  BY ONLY <1>14
  <2>3. step.filled + step.rested = f  BY <1>16, <1>17, <2>1
  <2>4. policy # "Ioc" => f = order.qty  BY <1>16, <1>17
  <2>5. QtySum(SideOrders(step.book, Opposite(order.side)))
          = QtySum(SideOrders(b, Opposite(order.side))) - step.filled
    BY <1>1, <1>7, <1>16, <1>17, <2>1
  <2>6. QtySum(SideOrders(step.book, order.side))
          = QtySum(SideOrders(b, order.side)) + step.rested
    BY <1>1, <1>11, <1>12, <1>17, <2>2
  <2> QED  BY <1>16, <1>17, <2>3, <2>4, <2>5, <2>6 DEF AddsUp
<1>18. CASE /\ policy = "Gtc" /\ u > 0 /\ step.rested = u
            /\ step.book = AppendOrder(c, [order EXCEPT !.qty = u])
  <2>1. PICK o : o = [order EXCEPT !.qty = u]  OBVIOUS
  <2>2. o \in Order /\ o.id = order.id /\ o.side = side /\ o.qty = u
    BY <1>1, <1>8, <2>1, LeftOver
  <2>3. PICK d : d = AppendOrder(c, o)  OBVIOUS
  <2>4. step.book = d /\ o.qty > 0 /\ o.id \notin RestingIds(c)
    BY <1>7, <1>18, <2>1, <2>2, <2>3
  <2>5. QtySum(SideOrders(d, side)) = QtySum(own) + u
    <3>1. own = SideOrders(c, o.side)  BY <1>12, <2>2
    <3>2. QtySum(SideOrders(d, o.side)) = QtySum(own) + o.qty
      BY <1>7, <2>2, <2>3, <2>4, <3>1, SideGrows
    <3> QED  BY <2>2, <3>2
  <2>6. SideOrders(d, Opposite(side)) = rest
    <3>1. Opposite(side) # o.side  BY <1>2, <2>2
    <3>2. SideOrders(d, Opposite(side)) = SideOrders(c, Opposite(side))
      BY <1>2, <1>7, <2>2, <2>3, <3>1, OtherSideStays
    <3> QED  BY <1>7, <3>2
  <2>7. step.filled = f /\ step.filled + step.rested = order.qty
    BY <1>3, <1>5, <1>15, <1>16, <1>18
  <2>8. QtySum(SideOrders(step.book, Opposite(order.side)))
          = QtySum(SideOrders(b, Opposite(order.side))) - step.filled
    BY <1>1, <1>7, <1>16, <2>4, <2>6, <2>7
  <2>9. QtySum(SideOrders(step.book, order.side))
          = QtySum(SideOrders(b, order.side)) + step.rested
    BY <1>1, <1>11, <1>18, <2>4, <2>5
  <2>10. order.qty <= order.qty  BY <1>2
  <2> QED  BY <1>18, <2>7, <2>8, <2>9, <2>10 DEF AddsUp
<1> QED  BY <1>3, <1>4, <1>5, <1>17, <1>18

\* A submission accounts for its quantity, whatever the policy: what it filled
\* is what the makers lost, what it rested is what its side gained, and only an
\* IOC leaves the two short of the order (book.rs:786-864).
THEOREM QuantitiesAddUp == Spec => []SubmissionsAddUp
<1>1. SimulatorInv => SubmissionsAddUp
  <2> SUFFICES ASSUME SimulatorInv, NEW order \in Order, NEW policy \in LimitOrderPolicy,
                      NEW step, step = submit_limit_order(book, order, policy),
                      step.result = "Ok"
               PROVE  AddsUp(book, order, policy, step)
    BY DEF SubmissionsAddUp, AddsUp
  <2>1. SoundBook(book) /\ IsFiniteSet(RestingIds(book))  BY DEF SimulatorInv
  <2>2. /\ order.qty > 0 /\ order.id \notin RestingIds(book)
        /\ Posted(book, order, policy, step) \/ Crossed(book, order, policy, step)
    BY <2>1, SubmitCases
  <2> QED  BY <2>1, <2>2, PostedAddsUp, CrossedAddsUp
<1> QED  BY <1>1, SimulatorSound, PTL

-----------------------------------------------------------------------------
(* Nobody is traded through *)

\* Of a list all of a kind, all are kept.
LEMMA AllOfAKind ==
  ASSUME NEW orders \in Seq(Order), NEW kind, \A n \in DOMAIN orders : orders[n] \in kind
  PROVE  Those(orders, kind) = orders
<1> DEFINE All(s) == \A n \in DOMAIN s : s[n] \in kind
           T == {s \in Seq(Order) : All(s) => Those(s, kind) = s}
<1>1. <<>> \in T
  <2>1. Those(<<>>, kind) = <<>> /\ <<>> \in Seq(Order)  BY KeptNothing
  <2> QED  BY <2>1
<1>2. ASSUME NEW s \in Seq(Order), NEW x \in Order, s \in T PROVE Append(s, x) \in T
  <2>1. PICK longer : longer = Append(s, x)  OBVIOUS
  <2>2. /\ longer \in Seq(Order) /\ Len(s) \in Nat /\ DOMAIN s = 1 .. Len(s)
        /\ DOMAIN longer = 1 .. (Len(s) + 1)
        /\ \A i \in 1 .. Len(s) : longer[i] = s[i]
        /\ longer[Len(s) + 1] = x
    BY <2>1, LenProperties, AppendProperties
  <2>3. Those(longer, kind) = KeepNext(Those(s, kind), x, kind)  BY <2>1, KeptOnAppend
  <2>4. ASSUME All(longer) PROVE Those(longer, kind) = longer
    <3>1. All(s)  BY <2>2, <2>4
    <3>2. x \in kind
      <4>1. Len(s) + 1 \in DOMAIN longer  BY <2>2
      <4> QED  BY <2>2, <2>4, <4>1
    <3>3. Those(s, kind) = s  BY <1>2, <3>1
    <3> QED  BY <2>1, <2>3, <3>2, <3>3 DEF KeepNext
  <2> QED  BY <2>1, <2>2, <2>4
<1>3. Seq(Order) \subseteq T
  <2> HIDE DEF T
  <2> QED  BY <1>1, <1>2, ListsByInduction
<1> QED  BY <1>3

\* Of a list with none of a kind, none is kept.
LEMMA NoneOfAKind ==
  ASSUME NEW orders \in Seq(Order), NEW kind, \A n \in DOMAIN orders : orders[n] \notin kind
  PROVE  Those(orders, kind) = <<>>
<1>1. PICK kept : kept = Those(orders, kind)  OBVIOUS
<1>2. Kept(kept, orders, kind)  BY <1>1, ThoseAreKept
<1>3. kept \in Seq(Order) /\ \A i \in DOMAIN kept : FALSE  BY <1>2 DEF Kept
<1>4. DOMAIN kept = 1 .. Len(kept) /\ Len(kept) \in Nat  BY <1>3, LenProperties
<1>5. Len(kept) = 0
  <2>1. Len(kept) # 0 => 1 \in DOMAIN kept  BY <1>4
  <2> QED  BY <1>3, <2>1
<1> QED  BY <1>1, <1>3, <1>5, EmptySeq

\* A beginning of the list is gone, at most the next order is smaller, and the
\* rest is as it was.
LeftInPlace(before, after, gone) ==
    /\ after \in Seq(Order) /\ gone \in Nat /\ gone = Len(before) - Len(after)
    /\ \A i \in DOMAIN after :
         /\ after[i].qty <= before[gone + i].qty
         /\ after[i] = [before[gone + i] EXCEPT !.qty = after[i].qty]
         /\ i > 1 => after[i] = before[gone + i]

\* An order, its quantity replaced by its own.
LEMMA SameQty ==
  ASSUME NEW o \in Order
  PROVE  [o EXCEPT !.qty = o.qty] = o /\ o.qty <= o.qty
<1>1. o.qty \in Nat  BY OrderNumbers
<1> QED  BY <1>1 DEF Order

\* What a taker leaves is in its place.
LEMMA RemainderInPlace ==
  ASSUME NEW M \in Seq(Order), NEW side, NEW qty \in Nat, NEW limit,
         NEW taken, NEW gone, NEW part,
         Progress(M, side, qty, limit, taken, gone, part),
         NEW rest, rest = Remainder(M, gone, part)
  PROVE  LeftInPlace(M, rest, gone)
<1>1. PICK y : y = SubSeq(M, gone + 1, Len(M))  OBVIOUS
<1>2. /\ gone \in 0 .. Len(M) /\ part \in Nat /\ Len(M) \in Nat
      /\ part > 0 => gone < Len(M) /\ part < M[gone + 1].qty
  BY LenProperties DEF Progress
<1>3. /\ y \in Seq(Order) /\ Len(y) = Len(M) - gone
      /\ DOMAIN y = 1 .. (Len(M) - gone)
      /\ \A i \in 1 .. (Len(M) - gone) : y[i] = M[gone + i]
  BY <1>1, <1>2, WhatIsLeft
<1>4. \A i \in DOMAIN y : y[i] \in Order  BY <1>3, LenProperties, ElementOfSeq
<1>5. gone \in Nat /\ gone = Len(M) - Len(y)  BY <1>2, <1>3
<1>6. CASE part = 0
  <2>1. rest = y  BY <1>1, <1>6 DEF Remainder
  <2>2. ASSUME NEW i \in DOMAIN y
        PROVE  /\ y[i].qty <= M[gone + i].qty
               /\ y[i] = [M[gone + i] EXCEPT !.qty = y[i].qty]
               /\ y[i] = M[gone + i]
    <3>1. y[i] = M[gone + i] /\ y[i] \in Order  BY <1>3, <1>4
    <3> QED  BY <3>1, SameQty
  <2> QED  BY <1>3, <1>5, <2>1, <2>2 DEF LeftInPlace
<1>7. CASE part > 0
  <2>1. gone \in 0 .. (Len(M) - 1)  BY <1>2, <1>7
  <2>2. y # <<>> /\ y[1] = M[gone + 1]  BY <1>1, <2>1, OneFewer
  <2>3. PICK new : new = M[gone + 1].qty - part  OBVIOUS
  <2>4. 1 \in DOMAIN y  BY <1>3, <2>1
  <2>5. y[1] \in Order /\ y[1].qty \in Nat /\ y[1].qty \in Qty
    BY <1>4, <2>4, OrderNumbers
  <2>6. new \in Qty /\ new \in Nat /\ new <= y[1].qty
    BY <1>2, <1>7, <2>2, <2>3, <2>5, QtyLimitAssumption DEF Qty
  <2>7. part # 0  BY <1>7
  <2>8. rest = HeadOf(y, new)  BY <1>1, <2>3, <2>7 DEF Remainder
  <2>9. /\ rest \in Seq(Order) /\ Len(rest) = Len(y)
        /\ rest[1] = [y[1] EXCEPT !.qty = new]
        /\ \A i \in 1 .. Len(y) : i # 1 => rest[i] = y[i]
    <3>1. y \in Seq(Order) /\ y # <<>> /\ new \in Qty /\ rest = HeadOf(y, new)
      BY <1>3, <2>2, <2>6, <2>8
    <3>2. rest \in Seq(Order) /\ Len(rest) = Len(y)  BY ONLY <3>1, ZenonT(60), HeadAndTail
    <3>3. rest[1] = [y[1] EXCEPT !.qty = new]  BY ONLY <3>1, ZenonT(60), HeadAndTail
    <3>4. ASSUME NEW i \in 1 .. Len(y), i # 1 PROVE rest[i] = y[i]
      <4>1. DOMAIN y = 1 .. Len(y)  BY <3>1, LenProperties
      <4> QED  BY <3>1, <3>4, <4>1 DEF HeadOf
    <3> QED  BY <3>2, <3>3, <3>4
  <2>10. DOMAIN rest = DOMAIN y  BY <1>3, <2>9, LenProperties
  <2>11. rest[1].qty = new  BY <2>5, <2>9 DEF Order
  <2>12. ASSUME NEW i \in DOMAIN rest
         PROVE  /\ rest[i].qty <= M[gone + i].qty
                /\ rest[i] = [M[gone + i] EXCEPT !.qty = rest[i].qty]
                /\ i > 1 => rest[i] = M[gone + i]
    <3>1. y[i] = M[gone + i] /\ y[i] \in Order  BY <1>3, <1>4, <2>10
    <3>2. CASE i = 1
      <4>1. rest[1] = [M[gone + 1] EXCEPT !.qty = rest[1].qty]  BY <2>2, <2>9, <2>11
      <4>2. rest[1].qty <= M[gone + 1].qty  BY <2>2, <2>6, <2>11
      <4> QED  BY <3>2, <4>1, <4>2
    <3>3. CASE i # 1
      <4>1. rest[i] = y[i]  BY <1>3, <2>9, <2>10, <3>3
      <4> QED  BY <3>1, <4>1, SameQty
    <3> QED  BY <3>2, <3>3
  <2> QED  BY <1>5, <2>9, <2>12 DEF LeftInPlace
<1> QED  BY <1>2, <1>6, <1>7

\* What a taker took was within its limit: those within it lost as much.
LEMMA WithinLost ==
  ASSUME NEW M \in Seq(Order), NEW side \in Side, NEW qty \in Nat, NEW limit,
         NEW taken, NEW gone, NEW part,
         Progress(M, side, qty, limit, taken, gone, part),
         NEW rest, rest = Remainder(M, gone, part),
         NEW W, W = {o \in Order : Acceptable(side, o.price, limit)}
  PROVE  /\ Those(rest, W) \in Seq(Order) /\ Those(M, W) \in Seq(Order)
         /\ QtySum(Those(rest, W)) + (qty - taken.unfilled_qty) = QtySum(Those(M, W))
<1>1. PICK x : x = SubSeq(M, 1, gone)  OBVIOUS
<1>2. PICK y : y = SubSeq(M, gone + 1, Len(M))  OBVIOUS
<1>3. /\ gone \in 0 .. Len(M) /\ part \in Nat /\ taken.unfilled_qty \in 0 .. qty
      /\ QtySum(x) + part + taken.unfilled_qty = qty
      /\ part > 0 => /\ gone < Len(M) /\ part < M[gone + 1].qty
                     /\ limit_allows(side, M[gone + 1].price, limit)
      /\ \A i \in 1 .. gone : limit_allows(side, M[i].price, limit)
  BY <1>1 DEF Progress
<1>4. /\ x \in Seq(Order) /\ y \in Seq(Order) /\ M = x \o y
      /\ Len(x) = gone /\ \A i \in 1 .. gone : x[i] = M[i]
  <2>1. M \in Seq(Order) /\ gone \in 0 .. Len(M)  BY <1>3
  <2>2. Parted(M, gone, SubSeq(M, 1, gone), SubSeq(M, gone + 1, Len(M)))
    BY ONLY <2>1, TwoParts
  <2> QED  BY <1>1, <1>2, <2>2 DEF Parted
<1>5. Those(x, W) = x
  <2>1. ASSUME NEW n \in DOMAIN x PROVE x[n] \in W
    <3>1. n \in 1 .. gone /\ x[n] \in Order  BY <1>4, LenProperties, ElementOfSeq
    <3>2. limit_allows(side, x[n].price, limit)  BY <1>3, <1>4, <3>1
    <3> QED  BY <3>1, <3>2, AcceptableMeans
  <2> QED  BY <1>4, <2>1, AllOfAKind
<1>6. PICK v : v = Those(y, W)  OBVIOUS
<1>7. v \in Seq(Order) /\ Those(M, W) \in Seq(Order)
  BY <1>4, <1>6, ThoseAreKept DEF Kept
<1>8. Those(M, W) = x \o v
  <2>1. Those(x \o y, W) = Those(x, W) \o Those(y, W)  BY <1>4, ThoseOfBoth
  <2> QED  BY <1>4, <1>5, <1>6, <2>1
<1>9. QtySum(Those(M, W)) = QtySum(x) + QtySum(v)  BY <1>4, <1>7, <1>8, SumOfBoth
<1>10. QtySum(x) \in Nat /\ QtySum(v) \in Nat  BY <1>4, <1>7, SumIsNat
<1>11. PICK u : u = taken.unfilled_qty  OBVIOUS
<1>12. u \in Nat /\ QtySum(x) + part + u = qty  BY <1>3, <1>11
<1>13. CASE part = 0
  <2>1. rest = y  BY <1>2, <1>13 DEF Remainder
  <2>2. QtySum(v) + (qty - u) = QtySum(x) + QtySum(v)
    BY ONLY <1>3, <1>10, <1>12, <1>13
  <2> QED  BY <1>6, <1>7, <1>9, <1>11, <2>1, <2>2
<1>14. CASE part > 0
  <2>1. PICK head : head = M[gone + 1]  OBVIOUS
  <2>2. \E less, t : PartlyFilled(y, rest, part, head, less, t)
    BY <1>2, <1>3, <1>14, <2>1, PartTaken
  <2>3. PICK less, t : PartlyFilled(y, rest, part, head, less, t)  BY <2>2
  <2>4. head \in W /\ less \in W
    <3>1. limit_allows(side, head.price, limit)  BY <1>3, <1>14, <2>1
    <3> QED  BY <2>3, <3>1, AcceptableMeans DEF PartlyFilled
  <2>5. PICK one : one = <<head>>  OBVIOUS
  <2>6. PICK two : two = <<less>>  OBVIOUS
  <2>7. /\ one \in Seq(Order) /\ two \in Seq(Order) /\ t \in Seq(Order) /\ rest \in Seq(Order)
        /\ y = one \o t /\ rest = two \o t
        /\ QtySum(one) = head.qty /\ QtySum(two) = less.qty
    BY <2>3, <2>5, <2>6 DEF PartlyFilled
  <2>8. Those(one, W) = one
    <3>1. \A n \in DOMAIN one : one[n] \in W  BY <2>4, <2>5
    <3> QED  BY ONLY <2>7, <3>1, AllOfAKind
  <2>9. Those(two, W) = two
    <3>1. \A n \in DOMAIN two : two[n] \in W  BY <2>4, <2>6
    <3> QED  BY ONLY <2>7, <3>1, AllOfAKind
  <2>10. PICK w : w = Those(t, W)  OBVIOUS
  <2>11. w \in Seq(Order) /\ Those(rest, W) \in Seq(Order)
    BY <2>7, <2>10, ThoseAreKept DEF Kept
  <2>12. v = one \o w
    <3>1. Those(one \o t, W) = Those(one, W) \o Those(t, W)
      BY ONLY <2>7, SMTT(30), ThoseOfBoth
    <3> QED  BY <1>6, <2>7, <2>8, <2>10, <3>1
  <2>13. Those(rest, W) = two \o w
    <3>1. Those(two \o t, W) = Those(two, W) \o Those(t, W)
      BY ONLY <2>7, SMTT(30), ThoseOfBoth
    <3> QED  BY <2>7, <2>9, <2>10, <3>1
  <2>14. QtySum(v) = head.qty + QtySum(w)  BY <2>7, <2>11, <2>12, SumOfBoth
  <2>15. QtySum(Those(rest, W)) = less.qty + QtySum(w)  BY <2>7, <2>11, <2>13, SumOfBoth
  <2>16. QtySum(w) \in Nat  BY <2>11, SumIsNat
  <2>17. (less.qty + QtySum(w)) + (qty - u) = QtySum(x) + (head.qty + QtySum(w))
    <3>1. /\ QtySum(x) \in Nat /\ QtySum(w) \in Nat /\ part \in Nat /\ u \in Nat
          /\ less.qty \in Nat /\ head.qty \in Nat /\ qty \in Nat
      BY <1>3, <1>10, <1>12, <2>3, <2>16 DEF PartlyFilled
    <3>2. QtySum(x) + part + u = qty /\ less.qty + part = head.qty
      BY <1>12, <2>3 DEF PartlyFilled
    <3>3. PICK p : p = QtySum(x)  OBVIOUS
    <3>4. PICK z : z = QtySum(w)  OBVIOUS
    <3>5. PICK l : l = less.qty  OBVIOUS
    <3>6. PICK h : h = head.qty  OBVIOUS
    <3>7. /\ p \in Nat /\ z \in Nat /\ l \in Nat /\ h \in Nat
          /\ part \in Nat /\ u \in Nat /\ qty \in Nat
          /\ p + part + u = qty /\ l + part = h
      BY ONLY <3>1, <3>2, <3>3, <3>4, <3>5, <3>6
    <3>8. (l + z) + (qty - u) = p + (h + z)  BY ONLY <3>7
    <3> QED  BY ONLY <3>3, <3>4, <3>5, <3>6, <3>8
  <2> QED  BY <1>7, <1>9, <1>11, <2>11, <2>14, <2>15, <2>17
<1> QED  BY <1>3, <1>13, <1>14

\* A taker that ran out of makers is one that left none.
LEMMA ExhaustedMeans ==
  ASSUME NEW M \in Seq(Order), NEW side, NEW qty \in Nat, NEW limit,
         NEW taken, NEW gone, NEW part,
         Progress(M, side, qty, limit, taken, gone, part),
         NEW rest, rest = Remainder(M, gone, part)
  PROVE  exhausted_book(taken) <=> taken.unfilled_qty > 0 /\ rest = <<>>
<1>1. CASE ~(taken.unfilled_qty > 0)  BY <1>1 DEF exhausted_book
<1>2. CASE taken.unfilled_qty > 0
  <2>1. /\ gone \in 0 .. Len(M) /\ part \in Nat /\ (part > 0 => taken.unfilled_qty = 0)
        /\ (~taken.limit_stopped => gone = Len(M))
        /\ (taken.limit_stopped => gone < Len(M))
        /\ taken.limit_stopped \in BOOLEAN
    BY <1>2 DEF Progress
  <2>2. part = 0  BY <1>2, <2>1
  <2>3. rest = SubSeq(M, gone + 1, Len(M))  BY <2>2 DEF Remainder
  <2>4. rest \in Seq(Order) /\ Len(rest) = Len(M) - gone  BY <2>1, <2>3, WhatIsLeft
  <2>5. Len(M) \in Nat  BY LenProperties
  <2>6. rest = <<>> <=> Len(rest) = 0  BY <2>4, EmptySeq
  <2>7. rest = <<>> <=> gone = Len(M)  BY <2>1, <2>4, <2>5, <2>6
  <2>8. gone = Len(M) <=> ~taken.limit_stopped  BY <2>1, <2>5
  <2> QED  BY <1>2, <2>7, <2>8 DEF exhausted_book
<1> QED  BY <1>1, <1>2

\* What is promised of a taker: its match, the makers' side before and after,
\* and its own side before and after.
Faithful(side, qty, limit, taken, before, after, own_before, own_after) ==
    LET gone == Len(before) - Len(after)
        within(orders) == Those(orders, {o \in Order : Acceptable(side, o.price, limit)})
    IN  /\ gone >= 0
        /\ \A i \in DOMAIN after :
             /\ after[i].qty <= before[gone + i].qty
             /\ after[i] = [before[gone + i] EXCEPT !.qty = after[i].qty]
             /\ i > 1 => after[i] = before[gone + i]
        /\ QtySum(before) - QtySum(after) = qty - taken.unfilled_qty
        /\ QtySum(before) - QtySum(after) = QtySum(within(before)) - QtySum(within(after))
        /\ taken.unfilled_qty > 0 => within(after) = <<>>
        /\ exhausted_book(taken) <=> taken.unfilled_qty > 0 /\ after = <<>>
        /\ own_after = own_before

\* A taker is faithful, in any sound book.
LEMMA TakerIsFaithful ==
  ASSUME NEW b, SoundBook(b), IsFiniteSet(RestingIds(b)), NEW side \in Side,
         NEW qty \in Nat, qty # 0, NEW limit \in Nat,
         NEW taken, taken = match_taker_order(b, side, qty, limit),
         NEW c, c = apply_taker_order(b, side, qty, limit).book
  PROVE  Faithful(side, qty, limit, taken, SideOrders(b, Opposite(side)),
                  SideOrders(c, Opposite(side)), SideOrders(b, side), SideOrders(c, side))
<1>1. PICK M : M = SideOrders(b, Opposite(side))  OBVIOUS
<1>2. PICK call : call = ApplyFills(b, taken.fills)  OBVIOUS
<1>3. c = call.book  BY <1>2 DEF apply_taker_order
<1>4. /\ M \in Seq(Order)
      /\ \E gone, part : /\ Progress(M, side, qty, limit, taken, gone, part)
                         /\ Served(b, Opposite(side), M, gone, part, call)
  BY <1>1, <1>2, TakerEffect
<1>5. PICK gone, part : /\ Progress(M, side, qty, limit, taken, gone, part)
                        /\ Served(b, Opposite(side), M, gone, part, call)
  BY <1>4
<1>6. PICK rest : rest = Remainder(M, gone, part)  OBVIOUS
<1>7. SideOrders(c, Opposite(side)) = rest /\ \A k \in Queue : k[1] # Opposite(side) => c[k] = b[k]
  BY <1>3, <1>5, <1>6 DEF Served
<1>8. Opposite(side) \in Side /\ Opposite(side) # side  BY OtherSide
<1>9. SideOrders(c, side) = SideOrders(b, side)
  <2>1. ASSUME NEW p \in Price PROVE c[<<side, p>>] = b[<<side, p>>]
    <3>1. PICK k : k = <<side, p>>  OBVIOUS
    <3>2. k \in Queue /\ k[1] # Opposite(side)  BY <1>8, <3>1 DEF Queue
    <3> QED  BY <1>7, <3>1, <3>2
  <2> QED  BY <2>1, SameSide
<1>10. LeftInPlace(M, rest, gone)  BY <1>4, <1>5, <1>6, RemainderInPlace
<1>11. PICK W : W = {o \in Order : Acceptable(side, o.price, limit)}  OBVIOUS
<1>12. rest \in Seq(Order) /\ QtySum(rest) + (qty - taken.unfilled_qty) = QtySum(M)
  BY <1>4, <1>5, <1>6, RemainderSum
<1>13. /\ Those(rest, W) \in Seq(Order) /\ Those(M, W) \in Seq(Order)
       /\ QtySum(Those(rest, W)) + (qty - taken.unfilled_qty) = QtySum(Those(M, W))
  BY <1>4, <1>5, <1>6, <1>11, WithinLost
<1>14. /\ QtySum(M) \in Nat /\ QtySum(rest) \in Nat
       /\ QtySum(Those(M, W)) \in Nat /\ QtySum(Those(rest, W)) \in Nat
  BY <1>4, <1>12, <1>13, SumIsNat
<1>15. PICK d : d = qty - taken.unfilled_qty  OBVIOUS
<1>16. d \in Nat
  <2>1. taken.unfilled_qty \in 0 .. qty  BY <1>5 DEF Progress
  <2> QED  BY <1>15, <2>1
<1>17. /\ QtySum(M) - QtySum(rest) = d
       /\ QtySum(Those(M, W)) - QtySum(Those(rest, W)) = d
  <2>1. QtySum(rest) + d = QtySum(M) /\ QtySum(Those(rest, W)) + d = QtySum(Those(M, W))
    BY <1>12, <1>13, <1>15
  <2>2. \A p, q, r \in Nat : p + q = r => r - p = q  OBVIOUS
  <2> QED  BY ONLY <1>14, <1>16, <2>1, <2>2
<1>18. taken.unfilled_qty > 0 => Those(rest, W) = <<>>
  <2> SUFFICES ASSUME taken.unfilled_qty > 0 PROVE Those(rest, W) = <<>>  OBVIOUS
  <2>1. Sorted(M, Opposite(side))  BY <1>1, <1>8, SideIsSorted
  <2>2. \A n \in DOMAIN rest : ~limit_allows(side, rest[n].price, limit)
    BY <1>4, <1>5, <1>6, <2>1, NoneLeftWithin
  <2>3. \A n \in DOMAIN rest : rest[n] \notin W  BY <1>11, <2>2, AcceptableMeans
  <2> QED  BY <1>12, <2>3, NoneOfAKind
<1>19. exhausted_book(taken) <=> taken.unfilled_qty > 0 /\ rest = <<>>
  BY <1>4, <1>5, <1>6, ExhaustedMeans
<1>20. /\ gone = Len(M) - Len(rest) /\ gone >= 0
       /\ \A i \in DOMAIN rest :
            /\ rest[i].qty <= M[gone + i].qty
            /\ rest[i] = [M[gone + i] EXCEPT !.qty = rest[i].qty]
            /\ i > 1 => rest[i] = M[gone + i]
  BY <1>10 DEF LeftInPlace
<1>21. Faithful(side, qty, limit, taken, M, rest, SideOrders(b, side), SideOrders(c, side))
  BY <1>9, <1>11, <1>15, <1>17, <1>18, <1>19, <1>20 DEF Faithful
<1> QED  BY <1>1, <1>7, <1>21

\* A taker trades through nobody, in every reachable state: the makers go from
\* the front, one at most is hit in part, what they lose is what was matched
\* and within the limit, and the taker's side is untouched (book.rs:689-780).
THEOREM NobodyTradedThrough == Spec => []NobodyIsTradedThrough
<1>1. SimulatorInv => NobodyIsTradedThrough
  <2> SUFFICES ASSUME SimulatorInv, NEW side \in Side, NEW qty \in Qty \ {0},
                      NEW limit_price \in Price
               PROVE  Faithful(side, qty, limit_price,
                        match_taker_order(book, side, qty, limit_price),
                        SideOrders(book, Opposite(side)),
                        SideOrders(apply_taker_order(book, side, qty, limit_price).book,
                                   Opposite(side)),
                        SideOrders(book, side),
                        SideOrders(apply_taker_order(book, side, qty, limit_price).book, side))
    BY DEF NobodyIsTradedThrough, Faithful
  <2>1. SoundBook(book) /\ IsFiniteSet(RestingIds(book))  BY DEF SimulatorInv
  <2>2. qty \in Nat /\ qty # 0 /\ limit_price \in Nat
    BY QtyLimitAssumption, PriceAssumption DEF Qty
  <2> QED  BY <2>1, <2>2, TakerIsFaithful
<1> QED  BY <1>1, SimulatorSound, PTL

-----------------------------------------------------------------------------
(* Totals *)

\* The totals of the first n quantities, as a level counts them.
TotalUpTo(n, run, orders) ==
    /\ run = [i \in 0 .. n |-> run[i]]
    /\ run[0] = 0
    /\ \A i \in 1 .. n : run[i] = (run[i - 1] + orders[i].qty) % QtyLimit

\* The definition of total_qty, unfolded.
LEMMA TotalRuns ==
  ASSUME NEW S, NEW orders \in Seq(S)
  PROVE  \E run : /\ TotalUpTo(Len(orders), run, orders)
                  /\ total_qty(orders) = run[Len(orders)]
<1> DEFINE N == Len(orders)
           T == {n \in Nat : \E f : TotalUpTo(n, f, orders)}
<1>0. N \in Nat  OBVIOUS
<1>1. 0 \in T
  <2>1. PICK f : f = [i \in 0 .. 0 |-> 0]  OBVIOUS
  <2>2. f = [i \in 0 .. 0 |-> f[i]] /\ f[0] = 0  BY <2>1
  <2>3. TotalUpTo(0, f, orders)  BY <2>2 DEF TotalUpTo
  <2> QED  BY <2>3
<1>2. ASSUME NEW n \in Nat, n \in T PROVE n + 1 \in T
  <2>1. PICK f : TotalUpTo(n, f, orders)  BY <1>2
  <2>2. PICK m : m = (f[n] + orders[n + 1].qty) % QtyLimit  OBVIOUS
  <2>3. PICK g : g = [i \in 0 .. (n + 1) |-> IF i = n + 1 THEN m ELSE f[i]]  OBVIOUS
  <2>4. \A i \in 0 .. n : g[i] = f[i]
    <3> SUFFICES ASSUME NEW i \in 0 .. n PROVE g[i] = f[i]  OBVIOUS
    <3>1. i \in 0 .. (n + 1) /\ i # n + 1  OBVIOUS
    <3> QED  BY <2>3, <3>1
  <2>5. g[n + 1] = m  BY <2>3
  <2>6. ASSUME NEW i \in 1 .. (n + 1) PROVE g[i] = (g[i - 1] + orders[i].qty) % QtyLimit
    <3>1. CASE i = n + 1
      <4>1. i - 1 = n /\ g[i - 1] = f[n]  BY <2>4, <3>1
      <4> QED  BY <2>2, <2>5, <3>1, <4>1
    <3>2. CASE i # n + 1
      <4>1. i \in 1 .. n /\ i \in 0 .. n /\ i - 1 \in 0 .. n  BY <3>2
      <4>2. g[i] = f[i] /\ g[i - 1] = f[i - 1]  BY <2>4, <4>1
      <4> QED  BY <2>1, <4>1, <4>2 DEF TotalUpTo
    <3> QED  BY <3>1, <3>2
  <2>7. g = [i \in 0 .. (n + 1) |-> g[i]]  BY <2>3
  <2>8. g[0] = 0  BY <2>1, <2>4 DEF TotalUpTo
  <2>9. TotalUpTo(n + 1, g, orders)  BY <2>6, <2>7, <2>8 DEF TotalUpTo
  <2> QED  BY <2>9
<1>3. N \in T
  <2> HIDE DEF T
  <2>1. Nat \subseteq T  BY <1>1, <1>2, NumbersByInduction
  <2> QED  BY <1>0, <2>1
<1>4. PICK f : TotalUpTo(N, f, orders)  BY <1>3
<1> HIDE DEF T
<1> DEFINE Recurs(h) ==
             h = [n \in 0 .. Len(orders) |-> IF n = 0 THEN 0 ELSE (h[n - 1] + orders[n].qty) % QtyLimit]
           upto == CHOOSE h : Recurs(h)
<1>5. total_qty(orders) = upto[Len(orders)]  BY DEF total_qty
<1>6. Recurs(f)
  <2>1. ASSUME NEW n \in 0 .. N
        PROVE  f[n] = IF n = 0 THEN 0 ELSE (f[n - 1] + orders[n].qty) % QtyLimit
    <3>1. CASE n = 0  BY <1>4, <3>1 DEF TotalUpTo
    <3>2. CASE n # 0
      <4>1. n \in 1 .. N  BY <1>0, <3>2
      <4> QED  BY <1>4, <3>2, <4>1 DEF TotalUpTo
    <3> QED  BY <3>1, <3>2
  <2>2. f = [i \in 0 .. N |-> f[i]]  BY <1>4 DEF TotalUpTo
  <2> QED  BY <2>1, <2>2
<1>7. Recurs(upto)
  <2> HIDE DEF Recurs
  <2> QED  BY <1>6
<1>8. PICK h : h = upto  OBVIOUS
<1> HIDE DEF upto
<1>9. Recurs(h)
  <2> HIDE DEF Recurs
  <2> QED  BY <1>7, <1>8
<1>10. \A n \in 0 .. N : h[n] = IF n = 0 THEN 0 ELSE (h[n - 1] + orders[n].qty) % QtyLimit
  BY <1>9
<1>11. h = [i \in 0 .. N |-> h[i]]  BY <1>9
<1> HIDE DEF Recurs, N
<1>12. h[0] = 0
  <2>1. 0 \in 0 .. N  BY <1>0
  <2> QED  BY <1>10, <2>1, Zenon
<1>13. ASSUME NEW i \in 1 .. N PROVE h[i] = (h[i - 1] + orders[i].qty) % QtyLimit
  <2>1. i \in 0 .. N /\ i # 0  BY <1>0
  <2> QED  BY <1>10, <2>1
<1>14. TotalUpTo(N, h, orders)  BY <1>11, <1>12, <1>13 DEF TotalUpTo
<1> QED  BY <1>5, <1>8, <1>14 DEF N

\* One more order adds its quantity to the total.
LEMMA TotalOnAppend ==
  ASSUME NEW S, NEW orders \in Seq(S), NEW last \in S
  PROVE  total_qty(Append(orders, last)) = (total_qty(orders) + last.qty) % QtyLimit
<1>1. PICK longer : longer = Append(orders, last)  OBVIOUS
<1>2. /\ longer \in Seq(S) /\ Len(orders) \in Nat /\ Len(longer) = Len(orders) + 1
      /\ \A i \in 1 .. Len(orders) : longer[i] = orders[i]
      /\ longer[Len(orders) + 1] = last
  BY <1>1
<1>3. PICK N : N = Len(orders)  OBVIOUS
<1>4. PICK f : TotalUpTo(N, f, orders) /\ total_qty(orders) = f[N]  BY <1>3, TotalRuns
<1>5. PICK g : /\ TotalUpTo(N + 1, g, longer)
               /\ total_qty(longer) = g[N + 1]
  <2>1. \E g : /\ TotalUpTo(Len(longer), g, longer)
                /\ total_qty(longer) = g[Len(longer)]
    BY <1>2, TotalRuns
  <2> QED  BY <1>2, <1>3, <2>1
<1>6. N \in Nat  BY <1>2, <1>3
<1> DEFINE T == {n \in Nat : n <= N => g[n] = f[n]}
<1>7. 0 \in T  BY <1>4, <1>5 DEF TotalUpTo
<1>8. ASSUME NEW n \in Nat, n \in T PROVE n + 1 \in T
  <2> SUFFICES ASSUME n + 1 <= N PROVE g[n + 1] = f[n + 1]  OBVIOUS
  <2>1. n <= N /\ n + 1 \in 1 .. N /\ n + 1 \in 1 .. (N + 1) /\ (n + 1) - 1 = n  BY <1>6
  <2>2. g[n] = f[n]  BY <1>8, <2>1
  <2>3. longer[n + 1] = orders[n + 1]  BY <1>2, <1>3, <2>1
  <2>4. f[n + 1] = (f[(n + 1) - 1] + orders[n + 1].qty) % QtyLimit  BY <1>4, <2>1 DEF TotalUpTo
  <2>5. g[n + 1] = (g[(n + 1) - 1] + longer[n + 1].qty) % QtyLimit  BY <1>5, <2>1 DEF TotalUpTo
  <2> QED  BY <2>1, <2>2, <2>3, <2>4, <2>5
<1>9. g[N] = f[N]
  <2> HIDE DEF T
  <2>1. Nat \subseteq T  BY <1>7, <1>8, NumbersByInduction
  <2>2. N \in T /\ N <= N  BY <1>6, <2>1
  <2> QED  BY <2>2 DEF T
<1>10. N + 1 \in 1 .. (N + 1) /\ (N + 1) - 1 = N  BY <1>6
<1>11. g[N + 1] = (g[(N + 1) - 1] + longer[N + 1].qty) % QtyLimit  BY <1>5, <1>10 DEF TotalUpTo
<1> QED  BY <1>1, <1>2, <1>3, <1>4, <1>5, <1>9, <1>10, <1>11

\* Nothing has a total of zero.
LEMMA TotalNothing == total_qty(<<>>) = 0
<1>1. PICK none : none = <<>>  OBVIOUS
<1>2. none \in Seq({}) /\ Len(none) = 0  BY <1>1
<1>3. PICK f : TotalUpTo(0, f, none) /\ total_qty(none) = f[0]
  <2>1. \E f : TotalUpTo(Len(none), f, none) /\ total_qty(none) = f[Len(none)]
    BY <1>2, TotalRuns
  <2> QED  BY <1>2, <2>1
<1> QED  BY <1>1, <1>3 DEF TotalUpTo

\* Where a total cannot wrap it is the sum.
LEMMA TotalIsSum ==
  ASSUME NEW orders \in Seq(Order), QtySum(orders) < QtyLimit
  PROVE  total_qty(orders) = QtySum(orders)
<1> DEFINE T == {s \in Seq(Order) : QtySum(s) < QtyLimit => total_qty(s) = QtySum(s)}
<1>1. <<>> \in T
  <2>1. <<>> \in Seq(Order)  OBVIOUS
  <2> QED  BY <2>1, SumNothing, TotalNothing
<1>2. ASSUME NEW s \in Seq(Order), NEW x \in Order, s \in T PROVE Append(s, x) \in T
  <2>1. Append(s, x) \in Seq(Order)  OBVIOUS
  <2>2. PICK p : p = QtySum(s)  OBVIOUS
  <2>3. PICK q : q = x.qty  OBVIOUS
  <2>4. PICK L : L = QtyLimit  OBVIOUS
  <2>5. p \in Nat /\ q \in Nat /\ L \in Nat
    BY <2>2, <2>3, <2>4, SumIsNat, OrderNumbers, QtyLimitAssumption
  <2>6. QtySum(Append(s, x)) = p + q  BY <2>2, <2>3, SumOnAppend
  <2>7. ASSUME p + q < L PROVE total_qty(Append(s, x)) = p + q
    <3>1. p < L /\ (p + q) % L = p + q  BY ONLY <2>5, <2>7
    <3>2. total_qty(s) = p  BY <1>2, <2>2, <2>4, <3>1
    <3>3. total_qty(Append(s, x)) = (total_qty(s) + x.qty) % QtyLimit  BY TotalOnAppend
    <3> QED  BY <2>3, <2>4, <3>1, <3>2, <3>3
  <2> QED  BY <2>1, <2>4, <2>6, <2>7
<1>3. Seq(Order) \subseteq T
  <2> HIDE DEF T
  <2> QED  BY <1>1, <1>2, ListsByInduction
<1> QED  BY <1>3

-----------------------------------------------------------------------------
(* A side, price by price *)

\* A side is its queues, one after the other, best price first: run[n] has the
\* orders of the first n prices.
InTurn(b, side, best, run) ==
    /\ Len(best) \in Nat /\ Len(best) # 0 /\ DOMAIN best = 1 .. Len(best)
    /\ \A i \in DOMAIN best : best[i] \in Price
    /\ \A i, j \in DOMAIN best : i < j => Better(side, best[i], best[j])
    /\ \A i \in DOMAIN best :
         /\ b[<<side, best[i]>>] \in Seq(Order)
         /\ \A m \in DOMAIN b[<<side, best[i]>>] : b[<<side, best[i]>>][m].price = best[i]
    /\ run[1] = b[<<side, best[1]>>]
    /\ \A i \in 1 .. (Len(best) - 1) : run[i + 1] = run[i] \o b[<<side, best[i + 1]>>]
    /\ SideOrders(b, side) = run[Len(best)]

\* A side that is not empty is laid out so.
LEMMA QueuesInTurn ==
  ASSUME NEW b, SoundBook(b), IsFiniteSet(RestingIds(b)), NEW side \in Side,
         NEW best, best = depth(b, side), best # <<>>
  PROVE  \E run : InTurn(b, side, best, run)
<1>1. PICK T : T = PricesOf(b, side)  OBVIOUS
<1>2. PICK n : n = Cardinality(T)  OBVIOUS
<1>3. IsFiniteSet(T) /\ T \subseteq Price  BY <1>1, FinitePrices DEF PricesOf
<1>4. n \in Nat  BY <1>2, <1>3, FS_CardinalityType
<1>5. BestFirst(best, side, T)  BY <1>1, <1>3, DepthIsSorted
<1>6. best \in [1 .. n -> T]  BY <1>2, <1>5 DEF BestFirst
<1>7. best \in Seq(Price) /\ DOMAIN best = 1 .. n /\ \A i \in 1 .. n : best[i] \in Price
  <2>1. best \in [1 .. n -> Price]  BY <1>3, <1>6
  <2> QED  BY <1>4, <2>1, SeqDef
<1>8. Len(best) = n
  <2>1. DOMAIN best = 1 .. Len(best) /\ Len(best) \in Nat  BY <1>7, LenProperties
  <2> QED  BY <1>4, <1>7, <2>1
<1>9. n # 0  BY <1>7, <1>8, EmptySeq
<1>10. PICK seqs : seqs = [i \in DOMAIN best |-> b[<<side, best[i]>>]]  OBVIOUS
<1>11. ASSUME NEW i \in DOMAIN best
       PROVE  /\ seqs[i] = b[<<side, best[i]>>] /\ seqs[i] \in Seq(Order)
              /\ \A m \in DOMAIN seqs[i] : seqs[i][m].price = best[i]
  <2>1. PICK k : k = <<side, best[i]>>  OBVIOUS
  <2>2. k \in Queue /\ k[2] = best[i]  BY <1>7, <2>1 DEF Queue
  <2>3. b[k] \in Seq(Order) /\ \A m \in DOMAIN b[k] : b[k][m].price = k[2]
    BY <2>2, QueueIsSorted
  <2> QED  BY <1>10, <2>1, <2>2, <2>3
<1>12. seqs \in Seq(Seq(Order)) /\ Len(seqs) = n
  <2>1. seqs \in [1 .. n -> Seq(Order)]  BY <1>7, <1>10, <1>11
  <2>2. seqs \in Seq(Seq(Order))  BY <1>4, <2>1, SeqDef
  <2>3. DOMAIN seqs = 1 .. n /\ DOMAIN seqs = 1 .. Len(seqs) /\ Len(seqs) \in Nat
    BY <2>1, <2>2, LenProperties
  <2> QED  BY <1>4, <2>2, <2>3
<1>13. PICK run : JoinedUpTo(n, run, seqs) /\ Lists!FlattenSeq(seqs) = run[n]
  <2>1. \E run : JoinedUpTo(Len(seqs), run, seqs) /\ Lists!FlattenSeq(seqs) = run[Len(seqs)]
    BY <1>9, <1>12, FlattenJoins
  <2> QED  BY <1>12, <2>1
<1>14. SideOrders(b, side) = run[n]  BY <1>10, <1>13 DEF SideOrders
<1>15. run[1] = b[<<side, best[1]>>]
  <2>1. 1 \in DOMAIN best  BY <1>4, <1>7, <1>9
  <2> QED  BY <1>11, <1>13, <2>1 DEF JoinedUpTo
<1>16. ASSUME NEW i \in 1 .. (n - 1) PROVE run[i + 1] = run[i] \o b[<<side, best[i + 1]>>]
  <2>1. i + 1 \in DOMAIN best  BY <1>4, <1>7
  <2>2. run[i + 1] = run[i] \o seqs[i + 1]  BY <1>13 DEF JoinedUpTo
  <2> QED  BY <1>11, <2>1, <2>2
<1>17. \A i, j \in DOMAIN best : i < j => Better(side, best[i], best[j])
  BY <1>2, <1>5, <1>7 DEF BestFirst
<1>18. \A i \in DOMAIN best :
         /\ b[<<side, best[i]>>] \in Seq(Order)
         /\ \A m \in DOMAIN b[<<side, best[i]>>] : b[<<side, best[i]>>][m].price = best[i]
  BY <1>11
<1>19. InTurn(b, side, best, run)
  BY <1>4, <1>7, <1>8, <1>9, <1>14, <1>15, <1>16, <1>17, <1>18 DEF InTurn
<1> QED  BY <1>19

\* Whatever is in two lists is in one of them.
LEMMA EitherList ==
  ASSUME NEW x \in Seq(Order), NEW y \in Seq(Order), NEW z, z = x \o y, NEW m \in DOMAIN z
  PROVE  (\E i \in DOMAIN x : z[m] = x[i]) \/ (\E i \in DOMAIN y : z[m] = y[i])
<1>1. Chained(x, y, z)  BY BothLists
<1>2. /\ Len(x) \in Nat /\ Len(y) \in Nat
      /\ DOMAIN x = 1 .. Len(x) /\ DOMAIN y = 1 .. Len(y)
  BY LenProperties
<1>3. DOMAIN z = 1 .. (Len(x) + Len(y))  BY <1>1, LenProperties DEF Chained
<1>4. z[m] = IF m <= Len(x) THEN x[m] ELSE y[m - Len(x)]  BY <1>1, <1>3 DEF Chained
<1>5. CASE m <= Len(x)
  <2>1. m \in DOMAIN x  BY <1>2, <1>3, <1>5
  <2> QED  BY <1>4, <1>5, <2>1
<1>6. CASE ~(m <= Len(x))
  <2>1. m - Len(x) \in DOMAIN y  BY <1>2, <1>3, <1>6
  <2> QED  BY <1>4, <1>6, <2>1
<1> QED  BY <1>5, <1>6

\* The first n prices.
LEMMA FirstTurns ==
  ASSUME NEW b, NEW side, NEW best, NEW run, InTurn(b, side, best, run),
         NEW n \in 1 .. Len(best)
  PROVE  /\ run[n] \in Seq(Order)
         /\ \A m \in DOMAIN run[n] : \E i \in 1 .. n : run[n][m].price = best[i]
<1> DEFINE Fine(k, l) == /\ l \in Seq(Order)
                         /\ \A m \in DOMAIN l : \E i \in 1 .. k : l[m].price = best[i]
           T == {k \in Nat : k + 1 <= Len(best) => Fine(k + 1, run[k + 1])}
<1>0. Len(best) \in Nat /\ DOMAIN best = 1 .. Len(best)  BY DEF InTurn
<1>1. 0 \in T
  <2>1. PICK l : l = run[1]  OBVIOUS
  <2>2. 1 \in DOMAIN best  BY <1>0 DEF InTurn
  <2>3. l = b[<<side, best[1]>>]  BY <2>1 DEF InTurn
  <2>4. l \in Seq(Order) /\ \A m \in DOMAIN l : l[m].price = best[1]
    BY <2>2, <2>3 DEF InTurn
  <2>5. 1 \in 1 .. 1 /\ 0 + 1 = 1  OBVIOUS
  <2>6. Fine(1, l)  BY <2>4, <2>5
  <2> QED  BY <2>1, <2>5, <2>6
<1>2. ASSUME NEW k \in Nat, k \in T PROVE k + 1 \in T
  <2> SUFFICES ASSUME (k + 1) + 1 <= Len(best) PROVE Fine((k + 1) + 1, run[(k + 1) + 1])
    OBVIOUS
  <2>1. k + 1 \in 1 .. (Len(best) - 1) /\ k + 1 <= Len(best) /\ (k + 1) + 1 \in DOMAIN best
    BY <1>0
  <2>2. PICK h : h = (k + 1) + 1  OBVIOUS
  <2>3. PICK x : x = run[k + 1]  OBVIOUS
  <2>4. PICK y : y = b[<<side, best[h]>>]  OBVIOUS
  <2>5. PICK z : z = x \o y  OBVIOUS
  <2>6. Fine(k + 1, x)  BY <1>2, <2>1, <2>3
  <2>7. run[h] = z  BY <2>1, <2>2, <2>3, <2>4, <2>5 DEF InTurn
  <2>8. y \in Seq(Order) /\ \A m \in DOMAIN y : y[m].price = best[h]
    BY <2>1, <2>2, <2>4 DEF InTurn
  <2>9. z \in Seq(Order)  BY <2>5, <2>6, <2>8, ConcatProperties
  <2>10. ASSUME NEW m \in DOMAIN z PROVE \E i \in 1 .. h : z[m].price = best[i]
    <3>1. CASE \E i \in DOMAIN x : z[m] = x[i]
      <4>1. PICK i \in 1 .. (k + 1) : z[m].price = best[i]  BY <2>6, <3>1
      <4>2. i \in 1 .. h  BY <2>2
      <4> QED  BY <4>1, <4>2
    <3>2. CASE \E i \in DOMAIN y : z[m] = y[i]
      <4>1. h \in 1 .. h  BY <2>2
      <4> QED  BY <2>8, <3>2, <4>1
    <3>3. x \in Seq(Order) /\ y \in Seq(Order)  BY <2>6, <2>8
    <3>4. (\E i \in DOMAIN x : z[m] = x[i]) \/ (\E i \in DOMAIN y : z[m] = y[i])
      BY ONLY <2>5, <3>3, m \in DOMAIN z, EitherList
    <3> QED  BY <3>1, <3>2, <3>4
  <2>11. Fine(h, z)  BY <2>9, <2>10
  <2> HIDE DEF Fine
  <2> QED  BY <2>2, <2>7, <2>11
<1>3. Fine(n, run[n])
  <2> HIDE DEF T, Fine
  <2>1. Nat \subseteq T  BY <1>1, <1>2, NumbersByInduction
  <2>2. n - 1 \in Nat /\ (n - 1) + 1 = n /\ n <= Len(best)  BY <1>0
  <2>3. n - 1 \in T  BY <2>1, <2>2
  <2>4. (n - 1) + 1 <= Len(best) => Fine((n - 1) + 1, run[(n - 1) + 1])  BY <2>3 DEF T
  <2> QED  BY <2>2, <2>4
<1> QED  BY <1>3

\* A side ends with the orders of the prices after the first n.
EndsWith(b, side, best, run, n, y) ==
    /\ y \in Seq(Order) /\ SideOrders(b, side) = run[n] \o y
    /\ \A m \in DOMAIN y : \E i \in (n + 1) .. Len(best) : y[m].price = best[i]

\* The prices after the first n.
LEMMA LastTurns ==
  ASSUME NEW b, NEW side, NEW best, NEW run, InTurn(b, side, best, run),
         NEW n \in 1 .. Len(best)
  PROVE  \E y : EndsWith(b, side, best, run, n, y)
<1> DEFINE Rest(k, y) == /\ y \in Seq(Order) /\ run[k] = run[n] \o y
                         /\ \A m \in DOMAIN y : \E i \in (n + 1) .. k : y[m].price = best[i]
           T == {k \in Nat : n + k <= Len(best) => \E y : Rest(n + k, y)}
<1>0. Len(best) \in Nat /\ DOMAIN best = 1 .. Len(best) /\ n \in Nat /\ n >= 1
  BY DEF InTurn
<1>a. run[n] \in Seq(Order)  BY FirstTurns
<1>1. 0 \in T
  <2>1. PICK none : none = <<>>  OBVIOUS
  <2>2. none \in Seq(Order) /\ DOMAIN none = {}  BY <2>1
  <2>3. run[n] = run[n] \o none  BY <1>a, <2>1, ConcatEmptySeq
  <2>4. n + 0 = n  BY <1>0
  <2>5. Rest(n + 0, none)  BY <2>2, <2>3, <2>4
  <2> QED  BY <2>5
<1>2. ASSUME NEW k \in Nat, k \in T PROVE k + 1 \in T
  <2> SUFFICES ASSUME n + (k + 1) <= Len(best) PROVE \E y : Rest(n + (k + 1), y)
    OBVIOUS
  <2>1. PICK h : h = n + k  OBVIOUS
  <2>2. h \in 1 .. (Len(best) - 1) /\ n + (k + 1) = h + 1 /\ h + 1 \in DOMAIN best
        /\ h \in Nat /\ h >= n
    BY <1>0, <2>1
  <2>3. PICK x : Rest(h, x)
    <3>1. n + k <= Len(best)  BY <1>0, <2>1, <2>2
    <3>2. \E y : Rest(n + k, y)  BY <1>2, <3>1
    <3> QED  BY <2>1, <3>2
  <2>4. PICK l : l = b[<<side, best[h + 1]>>]  OBVIOUS
  <2>5. l \in Seq(Order) /\ \A m \in DOMAIN l : l[m].price = best[h + 1]
    BY <2>2, <2>4 DEF InTurn
  <2>6. PICK y : y = x \o l  OBVIOUS
  <2>7. x \in Seq(Order) /\ run[h] = run[n] \o x  BY <2>3
  <2>8. run[h + 1] = run[n] \o y
    <3>1. run[h + 1] = run[h] \o l  BY <2>2, <2>4 DEF InTurn
    <3>2. PICK p : p = run[n]  OBVIOUS
    <3>3. p \in Seq(Order) /\ x \in Seq(Order) /\ l \in Seq(Order)
      BY <1>a, <2>5, <2>7, <3>2
    <3>4. (p \o x) \o l = p \o (x \o l)  BY ONLY <3>3, ConcatAssociative
    <3> QED  BY <2>6, <2>7, <3>1, <3>2, <3>4
  <2>9. y \in Seq(Order)  BY <2>5, <2>6, <2>7, ConcatProperties
  <2>10. ASSUME NEW m \in DOMAIN y PROVE \E i \in (n + 1) .. (h + 1) : y[m].price = best[i]
    <3>1. CASE \E i \in DOMAIN x : y[m] = x[i]
      <4>1. PICK i \in (n + 1) .. h : y[m].price = best[i]  BY <2>3, <3>1
      <4>2. i \in (n + 1) .. (h + 1)  BY <1>0, <2>2
      <4> QED  BY <4>1, <4>2
    <3>2. CASE \E i \in DOMAIN l : y[m] = l[i]
      <4>1. h + 1 \in (n + 1) .. (h + 1)  BY <1>0, <2>2
      <4> QED  BY <2>5, <3>2, <4>1
    <3> QED  BY <2>5, <2>6, <2>7, <3>1, <3>2, EitherList
  <2>11. Rest(h + 1, y)  BY <2>8, <2>9, <2>10
  <2> HIDE DEF Rest
  <2> QED  BY <2>2, <2>11
<1>3. \E y : Rest(Len(best), y)
  <2> HIDE DEF T, Rest
  <2>1. Nat \subseteq T  BY <1>1, <1>2, NumbersByInduction
  <2>2. Len(best) - n \in Nat /\ n + (Len(best) - n) = Len(best)  BY <1>0
  <2>3. Len(best) - n \in T  BY <2>1, <2>2
  <2> QED  BY <1>0, <2>2, <2>3 DEF T
<1>4. PICK y : Rest(Len(best), y)  BY <1>3
<1>5. SideOrders(b, side) = run[Len(best)]  BY DEF InTurn
<1>6. EndsWith(b, side, best, run, n, y)  BY <1>4, <1>5 DEF EndsWith
<1> QED  BY <1>6

\* A side is parted by a price that has orders: those at better prices, the
\* queue of the price, those at worse prices.
PartedAt(M, side, price, level, x, y) ==
    /\ x \in Seq(Order) /\ level \in Seq(Order) /\ y \in Seq(Order)
    /\ M = (x \o level) \o y
    /\ \A m \in DOMAIN x : Better(side, x[m].price, price)
    /\ \A m \in DOMAIN level : level[m].price = price
    /\ \A m \in DOMAIN y : Better(side, price, y[m].price)

\* Every price that has orders parts its side so.
LEMMA PartedAtPrice ==
  ASSUME NEW b, SoundBook(b), IsFiniteSet(RestingIds(b)), NEW side \in Side,
         NEW price \in Price, NEW level, level = b[<<side, price>>], level # <<>>,
         NEW M, M = SideOrders(b, side)
  PROVE  \E x, y : PartedAt(M, side, price, level, x, y)
<1>1. PICK T : T = PricesOf(b, side)  OBVIOUS
<1>2. PICK best : best = depth(b, side)  OBVIOUS
<1>3. IsFiniteSet(T) /\ price \in T  BY <1>1, FinitePrices DEF PricesOf
<1>4. BestFirst(best, side, T)  BY <1>1, <1>2, <1>3, DepthIsSorted
<1>5. PICK n \in DOMAIN best : best[n] = price  BY <1>3, <1>4 DEF BestFirst
<1>6. best # <<>>
  <2>1. DOMAIN <<>> = {}  OBVIOUS
  <2> QED  BY <1>5, <2>1
<1>7. PICK run : InTurn(b, side, best, run)  BY <1>2, <1>6, QueuesInTurn
<1>8. /\ Len(best) \in Nat /\ DOMAIN best = 1 .. Len(best) /\ n \in 1 .. Len(best)
      /\ \A i, j \in DOMAIN best : i < j => Better(side, best[i], best[j])
      /\ level \in Seq(Order) /\ \A m \in DOMAIN level : level[m].price = price
  BY <1>5, <1>7 DEF InTurn
<1>9. PICK y \in Seq(Order) :
        /\ SideOrders(b, side) = run[n] \o y
        /\ \A m \in DOMAIN y : \E i \in (n + 1) .. Len(best) : y[m].price = best[i]
  <2>1. n \in 1 .. Len(best)  BY <1>8
  <2>2. \E y : EndsWith(b, side, best, run, n, y)  BY <1>7, <2>1, LastTurns
  <2> QED  BY <2>2 DEF EndsWith
<1>10. ASSUME NEW m \in DOMAIN y PROVE Better(side, price, y[m].price)
  <2>1. PICK i \in (n + 1) .. Len(best) : y[m].price = best[i]  BY <1>9
  <2>2. i \in DOMAIN best /\ n < i  BY <1>8, <2>1
  <2>3. Better(side, best[n], best[i])  BY <1>8, <2>2
  <2> QED  BY <1>5, <2>1, <2>3
<1>11. \E x : /\ x \in Seq(Order) /\ run[n] = x \o level
              /\ \A m \in DOMAIN x : Better(side, x[m].price, price)
  <2>1. CASE n = 1
    <3>1. PICK none : none = <<>>  OBVIOUS
    <3>2. none \in Seq(Order) /\ DOMAIN none = {}  BY <3>1
    <3>3. none \o level = level  BY <1>8, <3>1, ConcatEmptySeq
    <3>4. run[n] = level  BY <1>5, <1>7, <2>1 DEF InTurn
    <3> QED  BY <3>2, <3>3, <3>4
  <2>2. CASE n # 1
    <3>1. PICK p : p = n - 1  OBVIOUS
    <3>2. p \in 1 .. (Len(best) - 1) /\ p \in 1 .. Len(best) /\ p + 1 = n /\ p < n
      BY <1>8, <2>2, <3>1
    <3>3. PICK x : x = run[p]  OBVIOUS
    <3>4. run[n] = x \o level  BY <1>5, <1>7, <3>2, <3>3 DEF InTurn
    <3>5. /\ run[p] \in Seq(Order)
          /\ \A m \in DOMAIN run[p] : \E i \in 1 .. p : run[p][m].price = best[i]
      BY <1>7, <3>2, FirstTurns
    <3>6. ASSUME NEW m \in DOMAIN x PROVE Better(side, x[m].price, price)
      <4>1. PICK i \in 1 .. p : x[m].price = best[i]  BY <3>3, <3>5
      <4>2. i \in DOMAIN best /\ i < n  BY <1>8, <3>2, <4>1
      <4>3. Better(side, best[i], best[n])  BY <1>8, <4>2
      <4> QED  BY <1>5, <4>1, <4>3
    <3> QED  BY <3>3, <3>4, <3>5, <3>6
  <2> QED  BY <2>1, <2>2
<1>12. PICK x : /\ x \in Seq(Order) /\ run[n] = x \o level
                /\ \A m \in DOMAIN x : Better(side, x[m].price, price)
  BY <1>11
<1>13. M = (x \o level) \o y  BY <1>9, <1>12
<1>14. PartedAt(M, side, price, level, x, y)  BY <1>8, <1>9, <1>10, <1>12, <1>13 DEF PartedAt
<1> QED  BY <1>14

-----------------------------------------------------------------------------
(* The first orders of a list *)

FirstOf(M, n) == SubSeq(M, 1, n)

\* One order more.
LEMMA SumOfOneMore ==
  ASSUME NEW M \in Seq(Order), NEW n \in 0 .. (Len(M) - 1)
  PROVE  QtySum(FirstOf(M, n + 1)) = QtySum(FirstOf(M, n)) + M[n + 1].qty
<1>1. /\ Len(M) \in Nat /\ DOMAIN M = 1 .. Len(M)
      /\ n \in 0 .. Len(M) /\ n + 1 \in 0 .. Len(M) /\ n \in Nat /\ n + 1 \in DOMAIN M
  BY LenProperties
<1>2. PICK x : x = FirstOf(M, n)  OBVIOUS
<1>3. PICK z : z = FirstOf(M, n + 1)  OBVIOUS
<1>4. PICK o : o = M[n + 1]  OBVIOUS
<1>5. o \in Order  BY <1>1, <1>4, ElementOfSeq
<1>6. x \in Seq(Order) /\ Len(x) = n /\ \A i \in 1 .. n : x[i] = M[i]
  <2>1. Parted(M, n, SubSeq(M, 1, n), SubSeq(M, n + 1, Len(M)))  BY ONLY M \in Seq(Order), <1>1, TwoParts
  <2> QED  BY <1>2, <2>1 DEF Parted, FirstOf
<1>7. z \in Seq(Order) /\ Len(z) = n + 1 /\ \A i \in 1 .. (n + 1) : z[i] = M[i]
  <2>1. PICK k : k = n + 1  OBVIOUS
  <2>2. k \in 0 .. Len(M)  BY <1>1, <2>1
  <2>3. Parted(M, k, SubSeq(M, 1, k), SubSeq(M, k + 1, Len(M)))  BY ONLY M \in Seq(Order), <2>2, TwoParts
  <2> QED  BY <1>3, <2>1, <2>3 DEF Parted, FirstOf
<1>8. PICK w : w = Append(x, o)  OBVIOUS
<1>9. /\ w \in Seq(Order) /\ Len(w) = n + 1 /\ \A i \in 1 .. n : w[i] = x[i]
      /\ w[n + 1] = o
  BY <1>1, <1>5, <1>6, <1>8, AppendProperties
<1>10. ASSUME NEW i \in 1 .. Len(z) PROVE z[i] = w[i]
  <2>1. CASE i \in 1 .. n  BY <1>1, <1>6, <1>7, <1>9, <2>1
  <2>2. CASE i = n + 1  BY <1>1, <1>4, <1>7, <1>9, <2>2
  <2> QED  BY <1>1, <1>7, <2>1, <2>2
<1>11. z = w  BY <1>7, <1>9, <1>10, SeqEqual
<1>12. QtySum(Append(x, o)) = QtySum(x) + o.qty  BY <1>5, <1>6, SumOnAppend
<1> QED  BY <1>2, <1>3, <1>4, <1>8, <1>11, <1>12

\* The more orders, the more quantity.
LEMMA SumsGrow ==
  ASSUME NEW M \in Seq(Order), NEW m \in Nat, NEW n \in 0 .. Len(M), m <= n
  PROVE  /\ QtySum(FirstOf(M, m)) \in Nat /\ QtySum(FirstOf(M, n)) \in Nat
         /\ QtySum(FirstOf(M, m)) <= QtySum(FirstOf(M, n))
<1>1. Len(M) \in Nat  BY LenProperties
<1>2. ASSUME NEW i \in 0 .. Len(M) PROVE QtySum(FirstOf(M, i)) \in Nat
  <2>1. Parted(M, i, SubSeq(M, 1, i), SubSeq(M, i + 1, Len(M)))
    BY ONLY M \in Seq(Order), i \in 0 .. Len(M), TwoParts
  <2>2. FirstOf(M, i) \in Seq(Order)  BY <2>1 DEF Parted, FirstOf
  <2> QED  BY <2>2, SumIsNat
<1> DEFINE T == {k \in Nat : m + k <= Len(M) =>
                               QtySum(FirstOf(M, m)) <= QtySum(FirstOf(M, m + k))}
<1>3. 0 \in T
  <2>1. m \in 0 .. Len(M) /\ m + 0 = m  BY <1>1
  <2>2. QtySum(FirstOf(M, m)) \in Nat  BY <1>2, <2>1
  <2> QED  BY <2>1, <2>2
<1>4. ASSUME NEW k \in Nat, k \in T PROVE k + 1 \in T
  <2> SUFFICES ASSUME m + (k + 1) <= Len(M)
               PROVE  QtySum(FirstOf(M, m)) <= QtySum(FirstOf(M, m + (k + 1)))
    OBVIOUS
  <2>1. PICK h : h = m + k  OBVIOUS
  <2>2. /\ h \in 0 .. (Len(M) - 1) /\ h \in 0 .. Len(M) /\ m + (k + 1) = h + 1
        /\ m \in 0 .. Len(M) /\ h + 1 \in 1 .. Len(M)
    BY <1>1, <2>1
  <2>3. PICK p : p = QtySum(FirstOf(M, m))  OBVIOUS
  <2>4. PICK q : q = QtySum(FirstOf(M, h))  OBVIOUS
  <2>5. PICK r : r = M[h + 1].qty  OBVIOUS
  <2>6. p <= q
    <3>1. m + k <= Len(M)  BY <1>1, <2>1, <2>2
    <3> QED  BY <1>4, <2>1, <2>3, <2>4, <3>1
  <2>7. QtySum(FirstOf(M, h + 1)) = q + r  BY <2>2, <2>4, <2>5, SumOfOneMore
  <2>8. p \in Nat /\ q \in Nat  BY <1>2, <2>2, <2>3, <2>4
  <2>9. M[h + 1] \in Order  BY <2>2, LenProperties, ElementOfSeq
  <2>10. r \in Nat  BY <2>5, <2>9, OrderNumbers
  <2>11. p <= q + r  BY ONLY <2>6, <2>8, <2>10
  <2> QED  BY <2>2, <2>3, <2>7, <2>11
<1>5. n - m \in T
  <2> HIDE DEF T
  <2>1. Nat \subseteq T  BY <1>3, <1>4, NumbersByInduction
  <2>2. n - m \in Nat  BY <1>1
  <2> QED  BY <2>1, <2>2
<1>6. m + (n - m) = n /\ n <= Len(M) /\ m \in 0 .. Len(M)  BY <1>1
<1> QED  BY <1>2, <1>5, <1>6

\* Which makers a taker hits: those whose predecessors hold less than it wants.
HitsInTurn(M, side, qty, limit, fills) ==
    /\ Len(fills) \in Nat /\ Len(fills) <= Len(M)
    /\ DOMAIN fills = 1 .. Len(fills)
    /\ \A i \in 1 .. Len(fills) : fills[i].maker_order_id = M[i].id
    /\ \A n \in 1 .. Len(M) :
         (\A i \in 1 .. n : limit_allows(side, M[i].price, limit)) =>
           (n <= Len(fills) <=> qty > QtySum(FirstOf(M, n - 1)))

\* A match hits them in turn.
LEMMA MatchHitsInTurn ==
  ASSUME NEW M \in Seq(Order), \A i \in DOMAIN M : M[i].qty > 0,
         NEW side, NEW qty \in Nat, NEW limit,
         NEW fills, fills = Walk(M, side, qty, limit).fills
  PROVE  HitsInTurn(M, side, qty, limit, fills)
<1>1. PICK taken : taken = Walk(M, side, qty, limit)  OBVIOUS
<1>2. /\ taken \in TakerState
      /\ \E gone, part : Progress(M, side, qty, limit, taken, gone, part)
  BY <1>1, WalkProgress
<1>3. PICK gone, part : Progress(M, side, qty, limit, taken, gone, part)  BY <1>2
<1>4. PICK u : u = taken.unfilled_qty  OBVIOUS
<1>5. /\ fills = taken.fills /\ fills \in Seq(Fill)
      /\ Len(M) \in Nat /\ DOMAIN M = 1 .. Len(M)
  BY <1>1, <1>2, LenProperties DEF TakerState
<1>6. /\ gone \in 0 .. Len(M) /\ part \in Nat /\ u \in Nat
      /\ QtySum(FirstOf(M, gone)) + part + u = qty
      /\ Len(fills) = (IF part > 0 THEN gone + 1 ELSE gone)
      /\ part > 0 => gone < Len(M) /\ part < M[gone + 1].qty /\ u = 0
      /\ u > 0 /\ ~taken.limit_stopped => gone = Len(M)
      /\ taken.limit_stopped => gone < Len(M) /\ ~limit_allows(side, M[gone + 1].price, limit)
  <2>1. /\ gone \in 0 .. Len(M) /\ part \in Nat /\ u \in Nat
        /\ Len(fills) = (IF part > 0 THEN gone + 1 ELSE gone)
        /\ part > 0 => gone < Len(M) /\ part < M[gone + 1].qty /\ u = 0
    <3>1. /\ gone \in 0 .. Len(M) /\ part \in Nat /\ taken.unfilled_qty \in 0 .. qty
          /\ Len(taken.fills) = (IF part > 0 THEN gone + 1 ELSE gone)
          /\ part > 0 => gone < Len(M) /\ part < M[gone + 1].qty /\ taken.unfilled_qty = 0
      BY <1>3, Zenon DEF Progress
    <3> QED  BY <1>4, <1>5, <3>1
  <2>2. QtySum(FirstOf(M, gone)) + part + u = qty
    BY <1>3, <1>4, Zenon DEF Progress, FirstOf
  <2>3. u > 0 /\ ~taken.limit_stopped => gone = Len(M)
    BY <1>3, <1>4, Zenon DEF Progress
  <2>4. taken.limit_stopped => gone < Len(M) /\ ~limit_allows(side, M[gone + 1].price, limit)
    BY <1>3, Zenon DEF Progress
  <2> QED  BY <2>1, <2>2, <2>3, <2>4
<1>7. /\ Len(fills) \in Nat /\ Len(fills) <= Len(M) /\ DOMAIN fills = 1 .. Len(fills)
      /\ gone \in Nat
  <2>1. PICK f : f = Len(fills)  OBVIOUS
  <2>2. PICK l : l = Len(M)  OBVIOUS
  <2>3. /\ f \in Nat /\ l \in Nat /\ gone \in 0 .. l /\ part \in Nat
        /\ f = (IF part > 0 THEN gone + 1 ELSE gone) /\ (part > 0 => gone < l)
        /\ DOMAIN fills = 1 .. f
    <3>1. DOMAIN fills = 1 .. Len(fills) /\ Len(fills) \in Nat
      BY ONLY <1>5, LenProperties
    <3> QED  BY <1>5, <1>6, <2>1, <2>2, <3>1, Zenon
  <2>4. f <= l /\ gone \in Nat  BY ONLY <2>3
  <2> QED  BY <2>1, <2>2, <2>3, <2>4, Zenon
<1>8. ASSUME NEW i \in 1 .. Len(fills) PROVE fills[i].maker_order_id = M[i].id
  <2>1. i \in 1 .. gone \/ (part > 0 /\ i = gone + 1)  BY <1>6, <1>7
  <2>2. CASE i \in 1 .. gone
    <3>1. fills[i] = FillDelta(M[i], M[i].qty)  BY <1>3, <1>5, <2>2 DEF Progress
    <3> QED  BY <3>1 DEF FillDelta
  <2>3. CASE part > 0 /\ i = gone + 1
    <3>1. fills[i] = FillDelta(M[i], part)  BY <1>3, <1>5, <2>3 DEF Progress
    <3> QED  BY <3>1 DEF FillDelta
  <2> QED  BY <2>1, <2>2, <2>3
<1>9. ASSUME NEW n \in 1 .. Len(M), \A i \in 1 .. n : limit_allows(side, M[i].price, limit)
      PROVE  n <= Len(fills) <=> qty > QtySum(FirstOf(M, n - 1))
  <2>1. PICK m : m = n - 1  OBVIOUS
  <2>2. PICK a : a = QtySum(FirstOf(M, m))  OBVIOUS
  <2>3. PICK s : s = QtySum(FirstOf(M, gone))  OBVIOUS
  <2>4. m \in 0 .. (Len(M) - 1) /\ m \in 0 .. Len(M) /\ m \in Nat /\ m + 1 = n /\ n \in 0 .. Len(M)
    BY <1>5, <2>1
  <2>5. s \in Nat /\ a \in Nat
    <3>1. gone \in 0 .. Len(M) /\ gone <= gone /\ m <= m  BY <1>6, <1>7, <2>4
    <3> QED  BY <1>7, <2>2, <2>3, <2>4, <3>1, SumsGrow
  <2>6. CASE n <= gone
    <3>1. PICK q : q = M[m + 1].qty  OBVIOUS
    <3>2. n \in DOMAIN M  BY <1>5
    <3>3. q > 0 /\ q \in Nat
      <4>1. M[n] \in Order /\ M[n].qty > 0  BY <3>2, ElementOfSeq, <1>5
      <4> QED  BY <2>4, <3>1, <4>1, OrderNumbers
    <3>4. QtySum(FirstOf(M, n)) = a + q  BY <2>2, <2>4, <3>1, SumOfOneMore
    <3>5. QtySum(FirstOf(M, n)) <= s
      <4>1. n \in Nat /\ gone \in 0 .. Len(M)  BY <1>6, <2>4
      <4> QED  BY <2>3, <2>6, <4>1, SumsGrow
    <3>6. s + part + u = qty  BY <1>6, <2>3
    <3>7. PICK t : t = QtySum(FirstOf(M, n))  OBVIOUS
    <3>8. t = a + q /\ t <= s  BY <3>4, <3>5, <3>7
    <3>9. qty > a  BY ONLY <1>6, <2>5, <3>3, <3>6, <3>8
    <3>10. n <= Len(fills)  BY <1>6, <1>7, <2>4, <2>6
    <3> QED  BY <2>1, <2>2, <3>9, <3>10
  <2>7. CASE ~(n <= gone) /\ part > 0
    <3>1. s + part = qty  BY <1>6, <2>3, <2>5, <2>7
    <3>2. CASE n = gone + 1
      <4>1. m = gone  BY <1>7, <2>4, <3>2
      <4>2. a = s  BY <2>2, <2>3, <4>1
      <4>3. qty > a  BY ONLY <1>6, <2>5, <2>7, <3>1, <4>2
      <4>4. n <= Len(fills)  BY <1>6, <2>7, <3>2, <2>4
      <4> QED  BY <2>1, <2>2, <4>3, <4>4
    <3>3. CASE n # gone + 1
      <4>1. gone + 1 <= m /\ gone \in 0 .. (Len(M) - 1) /\ gone + 1 \in Nat /\ ~(n <= Len(fills))
        BY <1>5, <1>6, <1>7, <2>4, <2>7, <3>3
      <4>2. PICK q : q = M[gone + 1].qty  OBVIOUS
      <4>3. QtySum(FirstOf(M, gone + 1)) = s + q  BY <2>3, <4>1, <4>2, SumOfOneMore
      <4>4. QtySum(FirstOf(M, gone + 1)) <= a  BY <2>2, <2>4, <4>1, SumsGrow
      <4>5. part < q  BY <1>6, <2>7, <4>2
      <4>6. q \in Nat
        <5>1. gone + 1 \in DOMAIN M  BY <1>5, <4>1
        <5>2. M[gone + 1] \in Order  BY <1>5, <5>1, ElementOfSeq
        <5> QED  BY <4>2, <5>2, OrderNumbers
      <4>7. s + q <= a  BY <4>3, <4>4
      <4>8. ~(qty > a)  BY ONLY <1>6, <2>5, <3>1, <4>5, <4>6, <4>7
      <4> QED  BY <2>1, <2>2, <4>1, <4>8
    <3> QED  BY <3>2, <3>3
  <2>8. CASE ~(n <= gone) /\ ~(part > 0)
    <3>1. PICK l : l = Len(M)  OBVIOUS
    <3>2. PICK f : f = Len(fills)  OBVIOUS
    <3>3. /\ l \in Nat /\ n \in 1 .. l /\ gone \in 0 .. l /\ part \in Nat /\ u \in Nat
          /\ f = (IF part > 0 THEN gone + 1 ELSE gone)
      BY <1>5, <1>6, <3>1, <3>2
    <3>4. /\ part = 0 /\ f = gone /\ gone < n /\ gone < l /\ gone + 1 \in 1 .. n
          /\ gone <= m
      BY ONLY <2>1, <2>8, <3>3
    <3>8. limit_allows(side, M[gone + 1].price, limit)  BY <1>9, <3>4
    <3>9. ~taken.limit_stopped  BY <1>6, <3>8
    <3>10. ~(u > 0)  BY <1>6, <3>1, <3>3, <3>4, <3>9
    <3>11. u = 0  BY ONLY <3>3, <3>10
    <3>5. s = qty  BY <1>6, <2>3, <2>5, <3>4, <3>11
    <3>6. s <= a  BY <1>7, <2>2, <2>3, <2>4, <3>4, SumsGrow
    <3>7. ~(qty > a) /\ ~(n <= f)
      BY ONLY <2>5, <3>3, <3>4, <3>5, <3>6
    <3> QED  BY <2>1, <2>2, <3>2, <3>7
  <2> QED  BY <2>6, <2>7, <2>8
<1> QED  BY <1>7, <1>8, <1>9 DEF HitsInTurn

-----------------------------------------------------------------------------
(* Places in the queue foretell the fills *)

\* The beginning of a side that is parted in three: the better prices, then
\* the orders of the price up to a place.
UpToPlace(x, level, M, place) ==
    /\ M \in Seq(Order) /\ Len(x) + place \in DOMAIN M
    /\ M[Len(x) + place] = level[place]
    /\ FirstOf(M, Len(x) + (place - 1)) = x \o FirstOf(level, place - 1)
    /\ \A i \in 1 .. (Len(x) + place) :
         \/ \E j \in DOMAIN x : M[i] = x[j]
         \/ \E j \in DOMAIN level : M[i] = level[j]

\* Where the parts are known, so are the places in them.
LEMMA PlacesInParts ==
  ASSUME NEW x \in Seq(Order), NEW level \in Seq(Order), NEW y \in Seq(Order),
         NEW M, M = (x \o level) \o y, NEW place \in DOMAIN level
  PROVE  UpToPlace(x, level, M, place)
<1>1. PICK z : z = x \o level  OBVIOUS
<1>2. Chained(x, level, z) /\ z \in Seq(Order)  BY <1>1, BothLists DEF Chained
<1>3. Chained(z, y, M)  BY <1>1, <1>2, BothLists
<1>4. PICK a : a = Len(x)  OBVIOUS
<1>5. PICK c : c = Len(level)  OBVIOUS
<1>6. PICK d : d = Len(y)  OBVIOUS
<1>7. /\ a \in Nat /\ c \in Nat /\ d \in Nat /\ Len(z) = a + c
      /\ M \in Seq(Order) /\ Len(M) = (a + c) + d
      /\ DOMAIN level = 1 .. c /\ DOMAIN x = 1 .. a
  BY <1>2, <1>3, <1>4, <1>5, <1>6, LenProperties DEF Chained
<1>8. place \in 1 .. c /\ DOMAIN M = 1 .. Len(M)  BY <1>7, LenProperties
<1>9. ASSUME NEW i \in 1 .. a PROVE M[i] = x[i]
  <2>1. i \in 1 .. (a + c) /\ i <= a /\ i <= a + c /\ i \in 1 .. ((a + c) + d)
    BY ONLY <1>7
  <2>2. z[i] = x[i]  BY <1>2, <1>4, <1>5, <2>1 DEF Chained
  <2>3. M[i] = z[i]  BY <1>3, <1>6, <1>7, <2>1 DEF Chained
  <2> QED  BY <2>2, <2>3
<1>10. ASSUME NEW j \in 1 .. c PROVE M[a + j] = level[j]
  <2>1. PICK i : i = a + j  OBVIOUS
  <2>2. /\ i \in 1 .. (a + c) /\ ~(i <= a) /\ i <= a + c /\ i \in 1 .. ((a + c) + d)
        /\ i - a = j
    BY ONLY <1>7, <2>1
  <2>3. z[i] = level[i - a]  BY <1>2, <1>4, <1>5, <2>2 DEF Chained
  <2>4. M[i] = z[i]  BY <1>3, <1>6, <1>7, <2>2 DEF Chained
  <2> QED  BY <2>1, <2>2, <2>3, <2>4
<1>11. PICK p : p = place - 1  OBVIOUS
<1>12. p \in 0 .. c /\ a + p \in 0 .. Len(M) /\ a + place \in DOMAIN M
  BY <1>7, <1>8, <1>11
<1>13. FirstOf(M, a + p) = x \o FirstOf(level, p)
  <2>1. PICK l : l = FirstOf(level, p)  OBVIOUS
  <2>2. PICK f : f = FirstOf(M, a + p)  OBVIOUS
  <2>3. l \in Seq(Order) /\ Len(l) = p /\ \A i \in 1 .. p : l[i] = level[i]
    <3>1. level \in Seq(Order) /\ p \in 0 .. Len(level)  BY <1>5, <1>12
    <3>2. Parted(level, p, SubSeq(level, 1, p), SubSeq(level, p + 1, Len(level)))
      BY ONLY <3>1, TwoParts
    <3> QED  BY <2>1, <3>2 DEF Parted, FirstOf
  <2>4. f \in Seq(Order) /\ Len(f) = a + p /\ \A i \in 1 .. (a + p) : f[i] = M[i]
    <3>1. PICK n : n = a + p  OBVIOUS
    <3>2. M \in Seq(Order) /\ n \in 0 .. Len(M)  BY <1>7, <1>12, <3>1
    <3>3. Parted(M, n, SubSeq(M, 1, n), SubSeq(M, n + 1, Len(M)))
      BY ONLY <3>2, TwoParts
    <3> QED  BY <2>2, <3>1, <3>3 DEF Parted, FirstOf
  <2>5. PICK w : w = x \o l  OBVIOUS
  <2>6. Chained(x, l, w)  BY <2>3, <2>5, BothLists
  <2>7. w \in Seq(Order) /\ Len(w) = a + p  BY <1>4, <2>3, <2>6 DEF Chained
  <2>8. ASSUME NEW i \in 1 .. Len(w) PROVE w[i] = f[i]
    <3>1. i \in 1 .. (a + p) /\ f[i] = M[i]  BY <2>4, <2>7
    <3>2. w[i] = IF i <= a THEN x[i] ELSE l[i - a]
      BY <1>4, <2>3, <2>6, <3>1 DEF Chained
    <3>3. CASE i <= a
      <4>1. i \in 1 .. a  BY <1>7, <1>12, <3>1, <3>3
      <4> QED  BY <1>9, <3>1, <3>2, <3>3, <4>1
    <3>4. CASE ~(i <= a)
      <4>1. PICK j : j = i - a  OBVIOUS
      <4>2. j \in 1 .. p /\ j \in 1 .. c /\ a + j = i
        BY ONLY <1>7, <1>12, <3>1, <3>4, <4>1
      <4>3. l[j] = level[j]  BY <2>3, <4>2
      <4>4. M[a + j] = level[j]  BY <1>10, <4>2
      <4> QED  BY <3>1, <3>2, <3>4, <4>1, <4>2, <4>3, <4>4
    <3> QED  BY <3>3, <3>4
  <2>9. w = f  BY <2>4, <2>7, <2>8, SeqEqual
  <2> QED  BY <2>1, <2>2, <2>5, <2>9
<1>14. ASSUME NEW i \in 1 .. (a + place)
       PROVE  (\E j \in DOMAIN x : M[i] = x[j]) \/ (\E j \in DOMAIN level : M[i] = level[j])
  <2>1. CASE i <= a
    <3>1. i \in 1 .. a  BY <1>7, <2>1
    <3> QED  BY <1>7, <1>9, <3>1
  <2>2. CASE ~(i <= a)
    <3>1. PICK j : j = i - a  OBVIOUS
    <3>2. j \in 1 .. c /\ a + j = i  BY ONLY <1>7, <1>8, <2>2, <3>1
    <3>3. M[a + j] = level[j]  BY <1>10, <3>2
    <3> QED  BY <1>7, <3>2, <3>3
  <2> QED  BY <2>1, <2>2
<1>15. M[a + place] = level[place]  BY <1>8, <1>10
<1> QED  BY <1>4, <1>7, <1>11, <1>12, <1>13, <1>14, <1>15 DEF UpToPlace

\* What queue_position counts ahead of an order, where the total of its level
\* cannot wrap.
LEMMA PositionCounts ==
  ASSUME NEW b, SoundBook(b), NEW id \in RestingIds(b),
         NEW k, k = HomeOf(b, id), NEW level, level = b[k],
         NEW place, place = PlaceIn(level, id), QtySum(level) < QtyLimit,
         NEW position, position = queue_position(b, id)
  PROVE  /\ position.orders_ahead = place - 1
         /\ position.qty_ahead = QtySum(FirstOf(level, place - 1))
         /\ position.qty_ahead \in Nat
<1>1. /\ k \in Queue /\ place \in DOMAIN b[k] /\ QueueOf(get(b, id)) = k
  BY RestsSomewhere
<1>2. level \in Seq(Order) /\ place \in 1 .. Len(level) /\ Len(level) \in Nat
  BY <1>1, QueuesAreSequences DEF SoundBook
<1>3. PICK ahead : ahead = SubSeq(level, 1, place - 1)  OBVIOUS
<1>4. PICK behind : behind = SubSeq(level, place + 1, Len(level))  OBVIOUS
<1>5. position = Position(ahead, behind, level)
  <2>1. place = CHOOSE i \in DOMAIN level : level[i].id = id  BY DEF PlaceIn
  <2> QED  BY <1>1, <1>3, <1>4, <2>1 DEF queue_position
<1>6. PICK n : n = place - 1  OBVIOUS
<1>7. n \in 0 .. Len(level) /\ n \in Nat /\ Len(level) \in 0 .. Len(level) /\ n <= Len(level)
  BY <1>2, <1>6
<1>8. ahead \in Seq(Order) /\ Len(ahead) = n
  <2>1. Parted(level, n, SubSeq(level, 1, n), SubSeq(level, n + 1, Len(level)))
    BY ONLY <1>2, <1>7, TwoParts
  <2> QED  BY <1>3, <1>6, <2>1 DEF Parted
<1>9. QtySum(ahead) < QtyLimit /\ QtySum(ahead) \in Nat
  <2>1. /\ QtySum(FirstOf(level, n)) \in Nat /\ QtySum(FirstOf(level, Len(level))) \in Nat
        /\ QtySum(FirstOf(level, n)) <= QtySum(FirstOf(level, Len(level)))
    BY <1>2, <1>7, SumsGrow
  <2>2. FirstOf(level, Len(level)) = level
    <3>1. PICK l : l = SubSeq(level, 1, Len(level))  OBVIOUS
    <3>2. Parted(level, Len(level), SubSeq(level, 1, Len(level)),
                 SubSeq(level, Len(level) + 1, Len(level)))
      BY ONLY <1>2, <1>7, TwoParts
    <3>3. l \in Seq(Order) /\ Len(l) = Len(level) /\ \A i \in 1 .. Len(l) : l[i] = level[i]
      BY <3>1, <3>2 DEF Parted
    <3>4. l = level  BY <1>2, <3>3, SeqEqual
    <3> QED  BY <3>1, <3>4 DEF FirstOf
  <2>3. PICK s : s = QtySum(ahead)  OBVIOUS
  <2>4. PICK t : t = QtySum(level)  OBVIOUS
  <2>5. s \in Nat /\ t \in Nat /\ s <= t
    BY <1>3, <1>6, <2>1, <2>2, <2>3, <2>4 DEF FirstOf
  <2>6. t < QtyLimit /\ QtyLimit \in Nat  BY <2>4, QtyLimitAssumption
  <2>7. s < QtyLimit  BY ONLY <2>5, <2>6
  <2> QED  BY <2>3, <2>5, <2>7
<1>10. total_qty(ahead) = QtySum(ahead)  BY <1>8, <1>9, TotalIsSum
<1>11. position.orders_ahead = Len(ahead) /\ position.qty_ahead = total_qty(ahead)
  BY <1>5 DEF Position
<1> QED  BY <1>3, <1>6, <1>8, <1>9, <1>10, <1>11 DEF FirstOf

\* The side that an order rests on is the other side of the takers it meets.
LEMMA OtherSideTwice ==
  ASSUME NEW side \in Side
  PROVE  Opposite(Opposite(side)) = side
BY DEF Opposite, Side

\* A taker that would pay or take a price takes the better ones.
LEMMA BetterIsAllowed ==
  ASSUME NEW side \in Side, NEW p \in Nat, NEW price \in Nat
  PROVE  /\ Better(side, p, price) => /\ limit_allows(Opposite(side), p, price)
                                      /\ p # price
         /\ limit_allows(Opposite(side), price, price)
         /\ Better(side, price, p) => ~limit_allows(Opposite(side), p, price)
BY DEF Better, limit_allows, Opposite, Side

\* What a place promises of the makers that a taker of qty hits.
Foretells(qty, id, position, hit, better) ==
    /\ (\E i \in DOMAIN hit : hit[i].maker_order_id = id)
         <=> qty > QtySum(better) + position.qty_ahead
    /\ \A i \in DOMAIN hit :
         hit[i].maker_order_id = id => i = Len(better) + position.orders_ahead + 1

\* It keeps the promise in any sound book.
LEMMA PlaceForetells ==
  ASSUME NEW b, SoundBook(b), IsFiniteSet(RestingIds(b)), NEW id \in RestingIds(b),
         NEW qty \in Nat, NEW order, order = get(b, id),
         NEW taker, taker = Opposite(order.side),
         QtySum(b[<<Opposite(taker), order.price>>]) < QtyLimit
  PROVE  Foretells(qty, id, queue_position(b, id),
                   match_taker_order(b, taker, qty, order.price).fills,
                   Those(SideOrders(b, order.side),
                         {o \in Order : /\ o.price # order.price
                                        /\ Acceptable(taker, o.price, order.price)}))
<1>1. PICK k : k = HomeOf(b, id)  OBVIOUS
<1>2. PICK level : level = b[k]  OBVIOUS
<1>3. PICK place : place = PlaceIn(level, id)  OBVIOUS
<1>4. PICK side : side = order.side  OBVIOUS
<1>5. PICK price : price = order.price  OBVIOUS
<1>6. /\ k \in Queue /\ place \in DOMAIN level /\ level[place].id = id
      /\ order = level[place] /\ order \in Order /\ QueueOf(order) = k
  <2>1. /\ HomeOf(b, id) \in Queue /\ PlaceIn(b[HomeOf(b, id)], id) \in DOMAIN b[HomeOf(b, id)]
        /\ b[HomeOf(b, id)][PlaceIn(b[HomeOf(b, id)], id)].id = id
        /\ get(b, id) = b[HomeOf(b, id)][PlaceIn(b[HomeOf(b, id)], id)]
        /\ get(b, id) \in Order /\ QueueOf(get(b, id)) = HomeOf(b, id)
    BY RestsSomewhere
  <2> QED  BY <1>1, <1>2, <1>3, <2>1
<1>7. /\ k = <<side, price>> /\ side \in Side /\ price \in Price /\ price \in Nat
  BY <1>4, <1>5, <1>6, OrderNumbers DEF QueueOf, Order
<1>8. Opposite(taker) = side /\ taker \in Side /\ taker = Opposite(side)
  BY <1>4, <1>7, OtherSide, OtherSideTwice
<1>9. PICK M : M = SideOrders(b, side)  OBVIOUS
<1>10. level # <<>>
  <2>1. DOMAIN <<>> = {}  OBVIOUS
  <2> QED  BY <1>6, <2>1
<1>11. PICK x, y : PartedAt(M, side, price, level, x, y)
  <2>1. level = b[<<side, price>>]  BY <1>2, <1>7
  <2> QED  BY <1>7, <1>9, <1>10, <2>1, PartedAtPrice
<1>12. /\ x \in Seq(Order) /\ level \in Seq(Order) /\ y \in Seq(Order)
       /\ M = (x \o level) \o y
       /\ \A m \in DOMAIN x : Better(side, x[m].price, price)
       /\ \A m \in DOMAIN level : level[m].price = price
       /\ \A m \in DOMAIN y : Better(side, price, y[m].price)
  BY <1>11 DEF PartedAt
<1>13. PICK n : n = Len(x) + place  OBVIOUS
<1>14. UpToPlace(x, level, M, place)  BY <1>6, <1>12, PlacesInParts
<1>15. PICK m : m = n - 1  OBVIOUS
<1>16. PICK ahead : ahead = FirstOf(level, place - 1)  OBVIOUS
<1>17. /\ Len(x) \in Nat /\ place \in Nat /\ place \in 1 .. Len(level) /\ n \in Nat
       /\ m = Len(x) + (place - 1) /\ Len(level) \in Nat
  <2>1. Len(x) \in Nat /\ Len(level) \in Nat /\ DOMAIN level = 1 .. Len(level)
    BY ONLY <1>12, LenProperties
  <2>2. place \in 1 .. Len(level)  BY ONLY <1>6, <2>1
  <2> QED  BY ONLY <1>13, <1>15, <2>1, <2>2
<1>18. /\ M \in Seq(Order) /\ n \in DOMAIN M /\ DOMAIN M = 1 .. Len(M) /\ M[n] = order
       /\ FirstOf(M, m) = x \o ahead
  BY <1>6, <1>13, <1>14, <1>16, <1>17, LenProperties DEF UpToPlace
<1>19. ASSUME NEW i \in 1 .. n PROVE limit_allows(taker, M[i].price, price)
  <2>1. (\E j \in DOMAIN x : M[i] = x[j]) \/ (\E j \in DOMAIN level : M[i] = level[j])
    BY <1>13, <1>14 DEF UpToPlace
  <2>2. CASE \E j \in DOMAIN x : M[i] = x[j]
    <3>1. PICK j \in DOMAIN x : M[i] = x[j]  BY <2>2
    <3>2. x[j] \in Order  BY <1>12, <3>1, LenProperties, ElementOfSeq
    <3>3. x[j].price \in Nat  BY <3>2, OrderNumbers
    <3>4. Better(side, x[j].price, price)  BY <1>12
    <3>5. limit_allows(Opposite(side), x[j].price, price)
      BY <1>7, <3>3, <3>4, BetterIsAllowed
    <3> QED  BY <1>8, <3>1, <3>5
  <2>3. CASE \E j \in DOMAIN level : M[i] = level[j]
    <3>1. M[i].price = price  BY <1>12, <2>3
    <3>2. limit_allows(Opposite(side), price, price)  BY <1>7, BetterIsAllowed
    <3> QED  BY <1>8, <3>1, <3>2
  <2> QED  BY <2>1, <2>2, <2>3
<1>20. PICK hit : hit = match_taker_order(b, taker, qty, price).fills  OBVIOUS
<1>21. HitsInTurn(M, taker, qty, price, hit)
  <2>1. hit = Walk(M, taker, qty, price).fills
    BY <1>8, <1>9, <1>20 DEF match_taker_order
  <2>2. \A i \in DOMAIN M : M[i].qty > 0  BY <1>7, <1>9, SideHasQuantities
  <2> QED  BY <1>18, <2>1, <2>2, MatchHitsInTurn
<1>22. n \in 1 .. Len(M) /\ n - 1 = m  BY <1>15, <1>18
<1>23. n <= Len(hit) <=> qty > QtySum(x \o ahead)
  BY <1>18, <1>19, <1>21, <1>22 DEF HitsInTurn
<1>24. OnceEach(M)  BY <1>7, <1>9, SideIsListed, ListedOnce
<1>25. ASSUME NEW i \in DOMAIN hit PROVE hit[i].maker_order_id = id <=> i = n
  <2>1. i \in 1 .. Len(hit) /\ i \in DOMAIN M /\ i \in Nat /\ hit[i].maker_order_id = M[i].id
    BY <1>18, <1>21 DEF HitsInTurn
  <2>2. M[n].id = id  BY <1>6, <1>18
  <2>3. ASSUME M[i].id = id PROVE i = n
    <3>1. ~(i < n) /\ ~(n < i)  BY <1>18, <1>24, <2>1, <2>2, <2>3 DEF OnceEach
    <3> QED  BY <1>17, <2>1, <3>1
  <2> QED  BY <2>1, <2>2, <2>3
<1>26. (\E i \in DOMAIN hit : hit[i].maker_order_id = id) <=> n <= Len(hit)
  <2>1. Len(hit) \in Nat /\ DOMAIN hit = 1 .. Len(hit)  BY <1>21 DEF HitsInTurn
  <2>2. n \in DOMAIN hit <=> n <= Len(hit)  BY <1>22, <2>1
  <2> QED  BY <1>25, <2>2
<1>27. PICK K : K = {o \in Order : o.price # price /\ Acceptable(taker, o.price, price)}
  OBVIOUS
<1>28. Those(M, K) = x
  <2>1. \A j \in DOMAIN x : x[j] \in K
    <3> SUFFICES ASSUME NEW j \in DOMAIN x PROVE x[j] \in K  OBVIOUS
    <3>1. x[j] \in Order  BY <1>12, LenProperties, ElementOfSeq
    <3>2. x[j].price \in Nat  BY <3>1, OrderNumbers
    <3>3. Better(side, x[j].price, price)  BY <1>12
    <3>4. limit_allows(Opposite(side), x[j].price, price) /\ x[j].price # price
      BY <1>7, <3>2, <3>3, BetterIsAllowed
    <3> QED  BY <1>8, <1>27, <3>1, <3>4, AcceptableMeans
  <2>2. \A j \in DOMAIN level : level[j] \notin K  BY <1>12, <1>27
  <2>3. \A j \in DOMAIN y : y[j] \notin K
    <3> SUFFICES ASSUME NEW j \in DOMAIN y PROVE y[j] \notin K  OBVIOUS
    <3>1. y[j] \in Order  BY <1>12, LenProperties, ElementOfSeq
    <3>2. y[j].price \in Nat  BY <3>1, OrderNumbers
    <3>3. Better(side, price, y[j].price)  BY <1>12
    <3>4. ~limit_allows(Opposite(side), y[j].price, price)
      BY <1>7, <3>2, <3>3, BetterIsAllowed
    <3> QED  BY <1>8, <1>27, <3>4, AcceptableMeans
  <2>4. Those(x, K) = x /\ Those(level, K) = <<>> /\ Those(y, K) = <<>>
    BY <1>12, <2>1, <2>2, <2>3, AllOfAKind, NoneOfAKind
  <2>5. PICK z : z = x \o level  OBVIOUS
  <2>6. z \in Seq(Order)  BY <1>12, <2>5, ConcatProperties
  <2>7. Those(x \o level, K) = Those(x, K) \o Those(level, K)  BY <1>12, ThoseOfBoth
  <2>8. Those(z \o y, K) = Those(z, K) \o Those(y, K)
    <3>1. y \in Seq(Order)  BY ONLY <1>12
    <3> QED  BY ONLY <2>6, <3>1, ThoseOfBoth
  <2>9. x \o <<>> = x  BY <1>12, ConcatEmptySeq
  <2> QED  BY <1>12, <2>4, <2>5, <2>7, <2>8, <2>9
<1>29. PICK position : position = queue_position(b, id)  OBVIOUS
<1>30. QtySum(level) < QtyLimit  BY <1>2, <1>5, <1>7, <1>8
<1>31. /\ position.orders_ahead = place - 1
       /\ position.qty_ahead = QtySum(ahead)
  BY <1>1, <1>2, <1>3, <1>16, <1>29, <1>30, PositionCounts
<1>32. QtySum(x \o ahead) = QtySum(x) + QtySum(ahead)
  <2>1. PICK p : p = place - 1  OBVIOUS
  <2>2. p \in 0 .. Len(level)  BY <1>17, <2>1
  <2>3. Parted(level, p, SubSeq(level, 1, p), SubSeq(level, p + 1, Len(level)))
    BY ONLY <1>12, <2>2, TwoParts
  <2>4. ahead \in Seq(Order)  BY <1>16, <2>1, <2>3 DEF Parted, FirstOf
  <2> QED  BY <1>12, <2>4, SumOfBoth
<1>33. n = Len(x) + (place - 1) + 1  BY <1>13, <1>17
<1>34. Foretells(qty, id, position, hit, x)
  BY <1>23, <1>25, <1>26, <1>31, <1>32, <1>33 DEF Foretells
<1> QED  BY <1>4, <1>5, <1>9, <1>20, <1>27, <1>28, <1>29, <1>34

\* The place that queue_position gives an order says when it is filled, in
\* every reachable state: by the takers that want more than what rests at
\* better prices and ahead of it, after as many makers as it counts
\* (book.rs:479-528 against 689-758).
THEOREM PlacesForetellFills == Spec => []QueuePositionForetellsTheFill
<1>1. SimulatorInv => QueuePositionForetellsTheFill
  <2> SUFFICES ASSUME SimulatorInv, NEW id \in RestingIds(book), NEW qty \in Qty,
                      QtySum(Makers(Opposite(get(book, id).side), get(book, id).price)) < QtyLimit
               PROVE  Foretells(qty, id, queue_position(book, id),
                        match_taker_order(book, Opposite(get(book, id).side), qty,
                                          get(book, id).price).fills,
                        Those(SideOrders(book, get(book, id).side),
                              {o \in Order : /\ o.price # get(book, id).price
                                             /\ Acceptable(Opposite(get(book, id).side), o.price,
                                                           get(book, id).price)}))
    BY Zenon DEF QueuePositionForetellsTheFill, Foretells
  <2>1. SoundBook(book) /\ IsFiniteSet(RestingIds(book))  BY DEF SimulatorInv
  <2>2. qty \in Nat  BY QtyLimitAssumption DEF Qty
  <2>3. PICK order : order = get(book, id)  OBVIOUS
  <2>4. PICK taker : taker = Opposite(order.side)  OBVIOUS
  <2>5. QtySum(book[<<Opposite(taker), order.price>>]) < QtyLimit  BY <2>3, <2>4 DEF Makers
  <2>6. Foretells(qty, id, queue_position(book, id),
                  match_taker_order(book, taker, qty, order.price).fills,
                  Those(SideOrders(book, order.side),
                        {o \in Order : /\ o.price # order.price
                                       /\ Acceptable(taker, o.price, order.price)}))
    BY <2>1, <2>2, <2>3, <2>4, <2>5, PlaceForetells
  <2> QED  BY <2>3, <2>4, <2>6, Zenon
<1> QED  BY <1>1, SimulatorSound, PTL

-----------------------------------------------------------------------------
(* The first levels *)

\* The orders of the first prices, as the list of their queues has them.
LEMMA FlattenedTurns ==
  ASSUME NEW b, NEW side, NEW best, NEW run, InTurn(b, side, best, run),
         NEW n \in 1 .. Len(best),
         NEW seqs, seqs = [i \in 1 .. n |-> b[<<side, best[i]>>]]
  PROVE  Lists!FlattenSeq(seqs) = run[n]
<1>1. /\ Len(best) \in Nat /\ DOMAIN best = 1 .. Len(best) /\ n \in Nat /\ n # 0
      /\ \A i \in DOMAIN best : b[<<side, best[i]>>] \in Seq(Order)
      /\ run[1] = b[<<side, best[1]>>]
      /\ \A i \in 1 .. (Len(best) - 1) : run[i + 1] = run[i] \o b[<<side, best[i + 1]>>]
  <2>1. Len(best) \in Nat /\ DOMAIN best = 1 .. Len(best)  BY DEF InTurn
  <2>2. /\ \A i \in DOMAIN best : b[<<side, best[i]>>] \in Seq(Order)
        /\ run[1] = b[<<side, best[1]>>]
        /\ \A i \in 1 .. (Len(best) - 1) : run[i + 1] = run[i] \o b[<<side, best[i + 1]>>]
    BY Zenon DEF InTurn
  <2>3. n \in Nat /\ n # 0  BY ONLY <2>1, n \in 1 .. Len(best)
  <2> QED  BY <2>1, <2>2, <2>3, Zenon
<1>2. seqs \in Seq(Seq(Order)) /\ Len(seqs) = n
  <2>1. ASSUME NEW i \in 1 .. n PROVE b[<<side, best[i]>>] \in Seq(Order)
    <3>1. i \in DOMAIN best  BY ONLY <1>1, n \in 1 .. Len(best), i \in 1 .. n
    <3> QED  BY <1>1, <3>1, Zenon
  <2>2. seqs \in [1 .. n -> Seq(Order)]  BY <2>1
  <2>3. seqs \in Seq(Seq(Order))  BY ONLY <1>1, <2>2, SeqDef
  <2>4. DOMAIN seqs = 1 .. n /\ DOMAIN seqs = 1 .. Len(seqs) /\ Len(seqs) \in Nat
    BY <2>2, <2>3, LenProperties
  <2> QED  BY <1>1, <2>3, <2>4
<1>3. PICK f : JoinedUpTo(n, f, seqs) /\ Lists!FlattenSeq(seqs) = f[n]
  <2>1. \E f : JoinedUpTo(Len(seqs), f, seqs) /\ Lists!FlattenSeq(seqs) = f[Len(seqs)]
    BY <1>1, <1>2, FlattenJoins
  <2> QED  BY <1>2, <2>1
<1>4. /\ f[1] = seqs[1]
      /\ \A i \in 1 .. (n - 1) : f[i + 1] = f[i] \o seqs[i + 1]
  BY <1>3 DEF JoinedUpTo
<1> DEFINE T == {k \in Nat : k + 1 <= n => f[k + 1] = run[k + 1]}
<1>5. 0 \in T
  <2>1. 1 \in 1 .. n /\ 0 + 1 = 1  BY <1>1
  <2>2. seqs[1] = b[<<side, best[1]>>]  BY <2>1
  <2> QED  BY <1>1, <1>4, <2>1, <2>2
<1>6. ASSUME NEW k \in Nat, k \in T PROVE k + 1 \in T
  <2> SUFFICES ASSUME (k + 1) + 1 <= n PROVE f[(k + 1) + 1] = run[(k + 1) + 1]  OBVIOUS
  <2>1. PICK h : h = k + 1  OBVIOUS
  <2>2. h \in 1 .. (n - 1) /\ h \in 1 .. (Len(best) - 1) /\ h <= n /\ h + 1 \in 1 .. n
    BY <1>1, <2>1
  <2>3. f[h] = run[h]  BY <1>6, <2>1, <2>2
  <2>4. f[h + 1] = f[h] \o seqs[h + 1]  BY <1>4, <2>2
  <2>5. seqs[h + 1] = b[<<side, best[h + 1]>>]  BY <2>2
  <2>6. run[h + 1] = run[h] \o b[<<side, best[h + 1]>>]  BY <1>1, <2>2
  <2> QED  BY <2>1, <2>3, <2>4, <2>5, <2>6
<1>7. f[n] = run[n]
  <2> HIDE DEF T
  <2>1. Nat \subseteq T  BY <1>5, <1>6, NumbersByInduction
  <2>2. n - 1 \in Nat /\ (n - 1) + 1 = n /\ n <= n  BY <1>1
  <2>3. n - 1 \in T  BY <2>1, <2>2
  <2>4. (n - 1) + 1 <= n => f[(n - 1) + 1] = run[(n - 1) + 1]  BY <2>3 DEF T
  <2> QED  BY <2>2, <2>4
<1> QED  BY <1>3, <1>7

\* What the first levels add up to, where none of their totals can wrap.
LEMMA TotalsOfTurns ==
  ASSUME NEW b, NEW side, NEW best, NEW run, InTurn(b, side, best, run),
         NEW n \in 1 .. Len(best), QtySum(run[n]) < QtyLimit,
         NEW S, NEW totals, totals \in Seq(S), Len(totals) = n,
         \A i \in 1 .. n : totals[i].qty = total_qty(b[<<side, best[i]>>])
  PROVE  QtySum(totals) = QtySum(run[n])
<1>1. /\ Len(best) \in Nat /\ DOMAIN best = 1 .. Len(best) /\ n \in Nat /\ n # 0
      /\ \A i \in DOMAIN best : b[<<side, best[i]>>] \in Seq(Order)
      /\ run[1] = b[<<side, best[1]>>]
      /\ \A i \in 1 .. (Len(best) - 1) : run[i + 1] = run[i] \o b[<<side, best[i + 1]>>]
  <2>1. Len(best) \in Nat /\ DOMAIN best = 1 .. Len(best)  BY DEF InTurn
  <2>2. /\ \A i \in DOMAIN best : b[<<side, best[i]>>] \in Seq(Order)
        /\ run[1] = b[<<side, best[1]>>]
        /\ \A i \in 1 .. (Len(best) - 1) : run[i + 1] = run[i] \o b[<<side, best[i + 1]>>]
    BY Zenon DEF InTurn
  <2>3. n \in Nat /\ n # 0  BY ONLY <2>1, n \in 1 .. Len(best)
  <2> QED  BY <2>1, <2>2, <2>3, Zenon
<1>2. PICK f : SumUpTo(n, f, totals) /\ QtySum(totals) = f[n]
  <2>1. \E f : SumUpTo(Len(totals), f, totals) /\ QtySum(totals) = f[Len(totals)]
    BY SumRuns
  <2> QED  BY <2>1
<1>3. f[0] = 0 /\ \A i \in 1 .. n : f[i] = f[i - 1] + totals[i].qty
  BY <1>2 DEF SumUpTo
<1> DEFINE T == {k \in Nat : k + 1 <= n /\ QtySum(run[k + 1]) < QtyLimit =>
                               f[k + 1] = QtySum(run[k + 1])}
<1>4. ASSUME NEW i \in 1 .. n, QtySum(b[<<side, best[i]>>]) < QtyLimit
      PROVE  totals[i].qty = QtySum(b[<<side, best[i]>>])
  <2>1. PICK l : l = b[<<side, best[i]>>]  OBVIOUS
  <2>2. l \in Seq(Order)
    <3>1. i \in DOMAIN best  BY <1>1
    <3> QED  BY <1>1, <2>1, <3>1
  <2>3. total_qty(l) = QtySum(l)  BY <1>4, <2>1, <2>2, TotalIsSum
  <2> QED  BY <2>1, <2>3
<1>5. 0 \in T
  <2> SUFFICES ASSUME QtySum(run[1]) < QtyLimit PROVE f[1] = QtySum(run[1])  OBVIOUS
  <2>1. PICK l : l = run[1]  OBVIOUS
  <2>2. 1 \in 1 .. n /\ l \in Seq(Order)  BY <1>1, <2>1
  <2>3. QtySum(l) \in Nat  BY <2>2, SumIsNat
  <2>4. totals[1].qty = QtySum(l)  BY <1>1, <1>4, <2>1, <2>2
  <2>5. f[1] = f[1 - 1] + totals[1].qty  BY <1>3, <2>2
  <2>6. f[1 - 1] = 0  BY <1>3
  <2> QED  BY <2>1, <2>3, <2>4, <2>5, <2>6
<1>6. ASSUME NEW k \in Nat, k \in T PROVE k + 1 \in T
  <2>1. PICK h : h = k + 1  OBVIOUS
  <2> SUFFICES ASSUME h + 1 <= n, QtySum(run[h + 1]) < QtyLimit
               PROVE  f[h + 1] = QtySum(run[h + 1])
    BY <2>1
  <2>2. /\ h \in 1 .. n /\ h \in 1 .. Len(best) /\ h \in 1 .. (Len(best) - 1) /\ h <= n
        /\ h + 1 \in 1 .. n /\ (h + 1) - 1 = h /\ h + 1 \in DOMAIN best
    BY <1>1, <2>1
  <2>3. PICK x : x = run[h]  OBVIOUS
  <2>4. PICK l : l = b[<<side, best[h + 1]>>]  OBVIOUS
  <2>5. x \in Seq(Order) /\ l \in Seq(Order)  BY <1>1, <2>2, <2>3, <2>4, FirstTurns
  <2>6. run[h + 1] = x \o l  BY <1>1, <2>2, <2>3, <2>4
  <2>7. PICK p : p = QtySum(x)  OBVIOUS
  <2>8. PICK q : q = QtySum(l)  OBVIOUS
  <2>9. p \in Nat /\ q \in Nat  BY <2>5, <2>7, <2>8, SumIsNat
  <2>10. QtySum(x \o l) = p + q  BY <2>5, <2>7, <2>8, SumOfBoth
  <2>11. PICK L : L = QtyLimit  OBVIOUS
  <2>12. L \in Nat /\ p + q < L  BY <2>6, <2>10, <2>11, QtyLimitAssumption
  <2>13. p < L /\ q < L  BY ONLY <2>9, <2>12
  <2>14. f[h] = p  BY <1>6, <2>1, <2>2, <2>3, <2>7, <2>11, <2>13
  <2>15. totals[h + 1].qty = q  BY <1>4, <2>2, <2>4, <2>8, <2>11, <2>13
  <2>16. f[h + 1] = f[(h + 1) - 1] + totals[h + 1].qty  BY <1>3, <2>2
  <2> QED  BY <2>2, <2>6, <2>10, <2>14, <2>15, <2>16
<1>7. f[n] = QtySum(run[n])
  <2> HIDE DEF T
  <2>1. Nat \subseteq T  BY <1>5, <1>6, NumbersByInduction
  <2>2. n - 1 \in Nat /\ (n - 1) + 1 = n /\ n <= n  BY <1>1
  <2>3. n - 1 \in T  BY <2>1, <2>2
  <2>4. (n - 1) + 1 <= n /\ QtySum(run[(n - 1) + 1]) < QtyLimit =>
          f[(n - 1) + 1] = QtySum(run[(n - 1) + 1])
    BY <2>3 DEF T
  <2> QED  BY <2>2, <2>4
<1> QED  BY <1>2, <1>7

\* A taker for exactly the first makers, all within its limit, takes them whole.
TakesAll(taken, x) ==
    /\ taken.unfilled_qty = 0
    /\ Len(taken.fills) = Len(x) /\ DOMAIN taken.fills = 1 .. Len(x)
    /\ \A i \in 1 .. Len(x) : taken.fills[i] = FillDelta(x[i], x[i].qty)

LEMMA ExactlyTaken ==
  ASSUME NEW x \in Seq(Order), NEW y \in Seq(Order), NEW M, M = x \o y,
         \A i \in DOMAIN M : M[i].qty > 0,
         NEW side, NEW qty, qty = QtySum(x), NEW limit,
         \A i \in DOMAIN x : limit_allows(side, x[i].price, limit),
         NEW taken, taken = Walk(M, side, qty, limit)
  PROVE  TakesAll(taken, x)
<1>1. Chained(x, y, M)  BY BothLists
<1>2. PICK n : n = Len(x)  OBVIOUS
<1>3. PICK l : l = Len(M)  OBVIOUS
<1>4. /\ n \in Nat /\ l \in Nat /\ M \in Seq(Order) /\ n <= l
      /\ DOMAIN x = 1 .. n /\ DOMAIN M = 1 .. l /\ n \in 0 .. l
  BY <1>1, <1>2, <1>3, LenProperties DEF Chained
<1>5. ASSUME NEW i \in 1 .. n PROVE M[i] = x[i]
  <2>1. i \in 1 .. (Len(x) + Len(y)) /\ i <= Len(x)  BY <1>1, <1>2, <1>4 DEF Chained
  <2> QED  BY <1>1, <2>1 DEF Chained
<1>6. qty \in Nat  BY SumIsNat
<1>7. FirstOf(M, n) = x
  <2>1. PICK f : f = FirstOf(M, n)  OBVIOUS
  <2>2. Parted(M, n, SubSeq(M, 1, n), SubSeq(M, n + 1, Len(M)))
    BY <1>3, <1>4, TwoParts
  <2>3. f \in Seq(Order) /\ Len(f) = n /\ \A i \in 1 .. Len(f) : f[i] = x[i]
    BY <1>5, <2>1, <2>2 DEF Parted, FirstOf
  <2>4. f = x  BY <1>2, <2>3, SeqEqual
  <2> QED  BY <2>1, <2>4
<1>8. /\ taken \in TakerState
      /\ \E gone, part : Progress(M, side, qty, limit, taken, gone, part)
  BY <1>4, <1>6, WalkProgress
<1>9. PICK gone, part : Progress(M, side, qty, limit, taken, gone, part)  BY <1>8
<1>10. PICK u : u = taken.unfilled_qty  OBVIOUS
<1>11. PICK s : s = QtySum(FirstOf(M, gone))  OBVIOUS
<1>12. /\ gone \in 0 .. l /\ part \in Nat /\ u \in 0 .. qty
       /\ Len(taken.fills) = (IF part > 0 THEN gone + 1 ELSE gone)
       /\ part > 0 => gone < l /\ part < M[gone + 1].qty /\ u = 0
       /\ u > 0 /\ ~taken.limit_stopped => gone = l
  BY <1>3, <1>9, <1>10, Zenon DEF Progress
<1>13. s + part + u = qty  BY <1>9, <1>10, <1>11, Zenon DEF Progress, FirstOf
<1>14. taken.limit_stopped => ~limit_allows(side, M[gone + 1].price, limit)
  BY <1>9, Zenon DEF Progress
<1>15. s \in Nat /\ gone \in Nat
  <2>1. gone \in Nat /\ gone \in 0 .. Len(M) /\ gone <= gone  BY <1>3, <1>4, <1>12
  <2> QED  BY <1>4, <1>11, <2>1, SumsGrow
<1>16. ASSUME gone + 1 \in 1 .. l PROVE M[gone + 1].qty \in Nat /\ M[gone + 1].qty > 0
  <2>1. gone + 1 \in DOMAIN M  BY <1>4, <1>16
  <2>2. M[gone + 1] \in Order  BY <1>4, <2>1, ElementOfSeq
  <2> QED  BY <2>1, <2>2, OrderNumbers
<1>17. ~(gone < n)
  <2> SUFFICES ASSUME gone < n PROVE FALSE  OBVIOUS
  <2>1. PICK q : q = M[gone + 1].qty  OBVIOUS
  <2>2. gone \in 0 .. (l - 1) /\ gone + 1 \in 1 .. l /\ gone + 1 \in 1 .. n /\ gone + 1 \in Nat
        /\ gone + 1 <= n /\ gone # l
    BY <1>4, <1>15
  <2>3. q \in Nat /\ q > 0  BY <1>16, <2>1, <2>2
  <2>4. QtySum(FirstOf(M, gone + 1)) = s + q  BY <1>3, <1>4, <1>11, <2>1, <2>2, SumOfOneMore
  <2>5. QtySum(FirstOf(M, gone + 1)) <= QtySum(FirstOf(M, n))
    BY <1>3, <1>4, <2>2, SumsGrow
  <2>6. s + q <= qty  BY <1>7, <2>4, <2>5
  <2>7. limit_allows(side, M[gone + 1].price, limit)  BY <1>4, <1>5, <2>2
  <2>8. ~taken.limit_stopped  BY <1>14, <2>7
  <2>9. ~(u > 0)  BY <1>12, <2>2, <2>8
  <2>10. part > 0 => part < q  BY <1>12, <2>1
  <2> QED  BY ONLY <1>6, <1>12, <1>13, <1>15, <2>3, <2>6, <2>9, <2>10
<1>18. ~(n < gone)
  <2> SUFFICES ASSUME n < gone PROVE FALSE  OBVIOUS
  <2>1. PICK q : q = M[n + 1].qty  OBVIOUS
  <2>2. n \in 0 .. (l - 1) /\ n + 1 \in 1 .. l /\ n + 1 \in Nat /\ n + 1 <= gone
    BY <1>4, <1>12, <1>15
  <2>3. n + 1 \in DOMAIN M  BY <1>4, <2>2
  <2>4. M[n + 1] \in Order  BY <1>4, <2>3, ElementOfSeq
  <2>5. q \in Nat /\ q > 0  BY <2>1, <2>3, <2>4, OrderNumbers
  <2>6. QtySum(FirstOf(M, n + 1)) = qty + q  BY <1>3, <1>4, <1>7, <2>1, <2>2, SumOfOneMore
  <2>7. QtySum(FirstOf(M, n + 1)) <= s  BY <1>3, <1>4, <1>11, <1>12, <2>2, SumsGrow
  <2>8. qty + q <= s  BY <2>6, <2>7
  <2> QED  BY ONLY <1>6, <1>12, <1>13, <1>15, <2>5, <2>8
<1>19. gone = n  BY <1>4, <1>15, <1>17, <1>18
<1>20. s = qty  BY <1>7, <1>11, <1>19
<1>21. part = 0 /\ u = 0  BY ONLY <1>6, <1>12, <1>13, <1>15, <1>20
<1>22. \A i \in 1 .. gone : taken.fills[i] = FillDelta(M[i], M[i].qty)
  BY <1>9, Zenon DEF Progress
<1>23. taken.fills \in Seq(Fill)  BY <1>8 DEF TakerState
<1>24. Len(taken.fills) = n  BY <1>12, <1>19, <1>21
<1>25. DOMAIN taken.fills = 1 .. n  BY <1>23, <1>24, LenProperties
<1>26. \A i \in 1 .. n : taken.fills[i] = FillDelta(x[i], x[i].qty)
  BY <1>5, <1>19, <1>22
<1> QED  BY <1>2, <1>10, <1>21, <1>24, <1>25, <1>26 DEF TakesAll

\* What is promised of the first levels: their orders and the match of a taker
\* for what they add up to.
TradedFirst(orders, taken) ==
    /\ taken.unfilled_qty = 0
    /\ [i \in DOMAIN taken.fills |-> taken.fills[i].maker_order_id]
         = [i \in DOMAIN orders |-> orders[i].id]
    /\ \A i \in DOMAIN taken.fills : taken.fills[i].maker_removed

\* The promise is kept in any sound book.
LEMMA TopIsTraded ==
  ASSUME NEW b, SoundBook(b), IsFiniteSet(RestingIds(b)), NEW side \in Side,
         NEW n \in Nat, n # 0,
         NEW totals, totals = top_n_levels_aggregated_for_side(b, side, n),
         NEW shown, shown = top_n_levels_for_side(b, side, n), shown # <<>>,
         NEW orders, orders = Lists!FlattenSeq([i \in DOMAIN shown |-> shown[i].orders]),
         QtySum(orders) < QtyLimit,
         NEW wanted, wanted = QtySum([i \in DOMAIN totals |-> [qty |-> totals[i].total_qty]])
  PROVE  TradedFirst(orders, match_taker_order(b, Opposite(side), wanted, shown[Len(shown)].price))
<1>1. PICK best : best = depth(b, side)  OBVIOUS
<1>2. PICK prices : prices = TopPrices(b, side, n)  OBVIOUS
<1>3. PICK h : h = IF n < Len(best) THEN n ELSE Len(best)  OBVIOUS
<1>4. prices = SubSeq(best, 1, h)  BY <1>1, <1>2, <1>3 DEF TopPrices
<1>5. shown = [i \in DOMAIN prices |-> [price |-> prices[i], orders |-> b[<<side, prices[i]>>]]]
  BY <1>2 DEF top_n_levels_for_side
<1>6. totals = [i \in DOMAIN prices |->
                  [price |-> prices[i], total_qty |-> total_qty(b[<<side, prices[i]>>]),
                   order_count |-> Len(b[<<side, prices[i]>>])]]
  BY <1>2 DEF top_n_levels_aggregated_for_side
<1>7. best # <<>>
  <2> SUFFICES ASSUME best = <<>> PROVE FALSE  OBVIOUS
  <2>1. h = 0  BY <1>3
  <2>2. prices = <<>>  BY <1>4, <2>1
  <2>3. DOMAIN prices = {}  BY <2>2
  <2>4. shown = <<>>  BY <1>5, <2>3
  <2> QED  BY <2>4
<1>8. PICK run : InTurn(b, side, best, run)  BY <1>1, <1>7, QueuesInTurn
<1>9. /\ Len(best) \in Nat /\ Len(best) # 0 /\ DOMAIN best = 1 .. Len(best)
      /\ \A i \in DOMAIN best : best[i] \in Price
      /\ \A i, j \in DOMAIN best : i < j => Better(side, best[i], best[j])
  BY <1>8 DEF InTurn
<1>10. h \in Nat /\ h # 0 /\ h \in 1 .. Len(best)
  <2>1. PICK l : l = Len(best)  OBVIOUS
  <2>2. n \in Nat /\ n # 0 /\ l \in Nat /\ l # 0 /\ h = IF n < l THEN n ELSE l
    BY <1>3, <1>9, <2>1
  <2>3. h \in Nat /\ h # 0 /\ h \in 1 .. l  BY ONLY <2>2
  <2> QED  BY <2>1, <2>3
<1>11. best \in Seq(Price)
  <2>1. best \in [1 .. Len(best) -> Price]
    <3>1. PICK T : T = PricesOf(b, side)  OBVIOUS
    <3>2. IsFiniteSet(T) /\ T \subseteq Price  BY <3>1, FinitePrices DEF PricesOf
    <3>3. BestFirst(best, side, T)  BY <1>1, <3>1, <3>2, DepthIsSorted
    <3>4. best \in [1 .. Cardinality(T) -> T]  BY <3>3 DEF BestFirst
    <3>5. best = [i \in DOMAIN best |-> best[i]]  BY <3>4
    <3> QED  BY <1>9, <3>5
  <2> QED  BY <1>9, <2>1, SeqDef
<1>12. /\ Len(prices) = h /\ DOMAIN prices = 1 .. h
       /\ \A i \in 1 .. h : prices[i] = best[i]
  BY <1>4, <1>10, <1>11
<1>13. PICK x : x = run[h]  OBVIOUS
<1>14. /\ x \in Seq(Order)
       /\ \A m \in DOMAIN x : \E i \in 1 .. h : x[m].price = best[i]
  BY <1>8, <1>10, <1>13, FirstTurns
<1>15. orders = x
  <2>1. PICK seqs : seqs = [i \in 1 .. h |-> b[<<side, best[i]>>]]  OBVIOUS
  <2>2. DOMAIN shown = 1 .. h /\ \A i \in 1 .. h : shown[i].orders = b[<<side, best[i]>>]
    BY <1>5, <1>12
  <2>3. [i \in DOMAIN shown |-> shown[i].orders] = seqs  BY <2>1, <2>2
  <2>4. Lists!FlattenSeq(seqs) = run[h]  BY <1>8, <1>10, <2>1, FlattenedTurns
  <2> QED  BY <1>13, <2>3, <2>4
<1>16. wanted = QtySum(x)
  <2>1. PICK sums : sums = [i \in DOMAIN totals |-> [qty |-> totals[i].total_qty]]  OBVIOUS
  <2>2. DOMAIN totals = 1 .. h
        /\ \A i \in 1 .. h : totals[i].total_qty = total_qty(b[<<side, best[i]>>])
    BY <1>6, <1>12
  <2>3. DOMAIN sums = 1 .. h /\ \A i \in 1 .. h : sums[i] = [qty |-> totals[i].total_qty]
    BY <2>1, <2>2
  <2>4. PICK S : S = {[qty |-> totals[i].total_qty] : i \in 1 .. h}  OBVIOUS
  <2>5. sums \in Seq(S) /\ Len(sums) = h
    <3>1. sums = [i \in 1 .. h |-> [qty |-> totals[i].total_qty]]  BY <2>1, <2>2
    <3>2. sums \in [1 .. h -> S]  BY <2>4, <3>1
    <3>3. sums \in Seq(S)  BY <1>10, <3>2, SeqDef
    <3>4. DOMAIN sums = 1 .. Len(sums) /\ Len(sums) \in Nat  BY <3>3, LenProperties
    <3> QED  BY <1>10, <2>3, <3>3, <3>4
  <2>6. \A i \in 1 .. h : sums[i].qty = total_qty(b[<<side, best[i]>>])  BY <2>2, <2>3
  <2>7. QtySum(run[h]) < QtyLimit  BY <1>13, <1>15
  <2>8. QtySum(sums) = QtySum(run[h])  BY <1>8, <1>10, <2>5, <2>6, <2>7, TotalsOfTurns
  <2> QED  BY <1>13, <2>1, <2>8
<1>17. PICK limit : limit = shown[Len(shown)].price  OBVIOUS
<1>18. limit = best[h]
  <2>1. DOMAIN shown = 1 .. h /\ shown[h].price = best[h]  BY <1>5, <1>10, <1>12
  <2>2. Len(shown) = h
    <3>1. PICK S : S = {shown[i] : i \in 1 .. h}  OBVIOUS
    <3>2. shown = [i \in 1 .. h |-> shown[i]]  BY <1>5, <1>12
    <3>3. shown \in [1 .. h -> S]  BY <3>1, <3>2
    <3>4. shown \in Seq(S)  BY <1>10, <3>3, SeqDef
    <3>5. DOMAIN shown = 1 .. Len(shown) /\ Len(shown) \in Nat  BY <3>4, LenProperties
    <3> QED  BY <1>10, <2>1, <3>5
  <2> QED  BY <1>17, <2>1, <2>2
<1>19. PICK taker : taker = Opposite(side)  OBVIOUS
<1>20. PICK y : y \in Seq(Order) /\ SideOrders(b, side) = x \o y
  <2>1. \E y : EndsWith(b, side, best, run, h, y)  BY <1>8, <1>10, LastTurns
  <2> QED  BY <1>13, <2>1 DEF EndsWith
<1>21. PICK M : M = SideOrders(b, side)  OBVIOUS
<1>22. \A i \in DOMAIN M : M[i].qty > 0  BY <1>21, SideHasQuantities
<1>23. ASSUME NEW m \in DOMAIN x PROVE limit_allows(taker, x[m].price, limit)
  <2>1. PICK i \in 1 .. h : x[m].price = best[i]  BY <1>14
  <2>2. i \in DOMAIN best /\ h \in DOMAIN best /\ (i < h \/ i = h)  BY <1>9, <1>10
  <2>3. best[i] \in Nat /\ best[h] \in Nat  BY <1>9, <2>2, PriceAssumption
  <2>4. CASE i < h
    <3>1. Better(side, best[i], best[h])  BY <1>9, <2>2, <2>4
    <3>2. limit_allows(Opposite(side), best[i], best[h])  BY <2>3, <3>1, BetterIsAllowed
    <3> QED  BY <1>18, <1>19, <2>1, <3>2
  <2>5. CASE i = h
    <3>1. limit_allows(Opposite(side), best[h], best[h])  BY <2>3, BetterIsAllowed
    <3> QED  BY <1>18, <1>19, <2>1, <2>5, <3>1
  <2> QED  BY <2>2, <2>4, <2>5
<1>24. PICK taken : taken = match_taker_order(b, taker, wanted, limit)  OBVIOUS
<1>25. taken = Walk(M, taker, wanted, limit)
  BY <1>19, <1>21, <1>24, OtherSideTwice DEF match_taker_order
<1>26. TakesAll(taken, x)
  <2>1. M = x \o y  BY <1>20, <1>21
  <2> QED  BY <1>14, <1>16, <1>20, <1>22, <1>23, <1>25, <2>1, ExactlyTaken
<1>27. /\ taken.unfilled_qty = 0 /\ DOMAIN taken.fills = 1 .. Len(x)
       /\ \A i \in 1 .. Len(x) : taken.fills[i] = FillDelta(x[i], x[i].qty)
  BY <1>26 DEF TakesAll
<1>28. DOMAIN x = 1 .. Len(x)  BY <1>14, LenProperties
<1>29. ASSUME NEW i \in 1 .. Len(x)
       PROVE  taken.fills[i].maker_order_id = x[i].id /\ taken.fills[i].maker_removed
  <2>1. taken.fills[i] = FillDelta(x[i], x[i].qty)  BY <1>27
  <2>2. taken.fills[i].maker_order_id = x[i].id  BY <2>1 DEF FillDelta
  <2>3. FillDelta(x[i], x[i].qty).maker_removed = (x[i].qty = x[i].qty)  BY Zenon DEF FillDelta
  <2>4. taken.fills[i].maker_removed = TRUE  BY <2>1, <2>3, Zenon
  <2> QED  BY <2>2, <2>4, Zenon
<1>30. TradedFirst(x, taken)  BY <1>27, <1>28, <1>29 DEF TradedFirst
<1> QED  BY <1>15, <1>17, <1>19, <1>24, <1>30

\* The levels shown are the levels traded, in every reachable state: a taker
\* for what the first n levels add up to is filled by the orders shown in them,
\* in that order and to the end (book.rs:577-593, 947-973 against 689-758).
THEOREM TopLevelsTraded == Spec => []TopLevelsAreTradedFirst
<1>1. SimulatorInv => TopLevelsAreTradedFirst
  <2> DEFINE Totals(side, n) == top_n_levels_aggregated_for_side(book, side, n)
             Shown(side, n)  == top_n_levels_for_side(book, side, n)
             Orders(side, n) ==
               Lists!FlattenSeq([i \in DOMAIN Shown(side, n) |-> Shown(side, n)[i].orders])
             Wanted(side, n) ==
               QtySum([i \in DOMAIN Totals(side, n) |-> [qty |-> Totals(side, n)[i].total_qty]])
  <2> SUFFICES ASSUME SimulatorInv, NEW side \in Side, NEW n \in 1 .. Cardinality(Price),
                      Shown(side, n) # <<>>, QtySum(Orders(side, n)) < QtyLimit
               PROVE  TradedFirst(Orders(side, n),
                        match_taker_order(book, Opposite(side), Wanted(side, n),
                                          Shown(side, n)[Len(Shown(side, n))].price))
    BY Zenon DEF TopLevelsAreTradedFirst, TradedFirst
  <2>1. SoundBook(book) /\ IsFiniteSet(RestingIds(book))  BY DEF SimulatorInv
  <2>2. n \in Nat /\ n # 0  OBVIOUS
  <2>3. PICK totals : totals = Totals(side, n)  OBVIOUS
  <2>4. PICK shown : shown = Shown(side, n)  OBVIOUS
  <2>5. PICK orders : orders = Lists!FlattenSeq([i \in DOMAIN shown |-> shown[i].orders])
    OBVIOUS
  <2>6. PICK wanted : wanted = QtySum([i \in DOMAIN totals |-> [qty |-> totals[i].total_qty]])
    OBVIOUS
  <2>7. orders = Orders(side, n) /\ wanted = Wanted(side, n)  BY <2>3, <2>4, <2>5, <2>6
  <2>8. TradedFirst(orders, match_taker_order(book, Opposite(side), wanted, shown[Len(shown)].price))
    BY <2>1, <2>2, <2>3, <2>4, <2>5, <2>6, <2>7, TopIsTraded
  <2> QED  BY <2>4, <2>7, <2>8
<1> QED  BY <1>1, SimulatorSound, PTL

-----------------------------------------------------------------------------
(* The levels, met one after the other *)

\* What a taker of totals has taken from the first n prices.
PricedUpTo(n, run, b, best, side, qty, limit) ==
    /\ run = [i \in 0 .. n |-> run[i]]
    /\ run[0] = NothingTaken(qty)
    /\ \A i \in 1 .. n :
         run[i] = TakeLevel(run[i - 1], best[i], total_qty(b[<<Opposite(side), best[i]>>]),
                            side, limit)

\* The definition of WalkTotals, unfolded.
LEMMA PricedRuns ==
  ASSUME NEW b, NEW side, NEW qty, NEW limit, NEW best, best = depth(b, Opposite(side)),
         Len(best) \in Nat
  PROVE  \E run : /\ PricedUpTo(Len(best), run, b, best, side, qty, limit)
                  /\ WalkTotals(b, side, qty, limit) = run[Len(best)]
<1> DEFINE N == Len(best)
           Next1(done, i) == TakeLevel(done, best[i], total_qty(b[<<Opposite(side), best[i]>>]),
                                       side, limit)
           T == {n \in Nat : \E f : PricedUpTo(n, f, b, best, side, qty, limit)}
<1>0. N \in Nat  OBVIOUS
<1>1. 0 \in T
  <2>1. PICK f : f = [i \in 0 .. 0 |-> NothingTaken(qty)]  OBVIOUS
  <2>2. f = [i \in 0 .. 0 |-> f[i]] /\ f[0] = NothingTaken(qty)  BY <2>1
  <2>3. PricedUpTo(0, f, b, best, side, qty, limit)  BY <2>2 DEF PricedUpTo
  <2> QED  BY <2>3
<1>2. ASSUME NEW n \in Nat, n \in T PROVE n + 1 \in T
  <2>1. PICK f : PricedUpTo(n, f, b, best, side, qty, limit)  BY <1>2
  <2>2. PICK m : m = Next1(f[n], n + 1)  OBVIOUS
  <2>3. PICK g : g = [i \in 0 .. (n + 1) |-> IF i = n + 1 THEN m ELSE f[i]]  OBVIOUS
  <2>4. \A i \in 0 .. n : g[i] = f[i]
    <3> SUFFICES ASSUME NEW i \in 0 .. n PROVE g[i] = f[i]  OBVIOUS
    <3>1. i \in 0 .. (n + 1) /\ i # n + 1  OBVIOUS
    <3> QED  BY <2>3, <3>1
  <2>5. g[n + 1] = m  BY <2>3
  <2>6. ASSUME NEW i \in 1 .. (n + 1) PROVE g[i] = Next1(g[i - 1], i)
    <3>1. CASE i = n + 1
      <4>1. i - 1 = n /\ g[i - 1] = f[n]  BY <2>4, <3>1
      <4> QED  BY <2>2, <2>5, <3>1, <4>1
    <3>2. CASE i # n + 1
      <4>1. i \in 1 .. n /\ i \in 0 .. n /\ i - 1 \in 0 .. n  BY <3>2
      <4>2. g[i] = f[i] /\ g[i - 1] = f[i - 1]  BY <2>4, <4>1
      <4> QED  BY <2>1, <4>1, <4>2 DEF PricedUpTo
    <3> QED  BY <3>1, <3>2
  <2>7. g = [i \in 0 .. (n + 1) |-> g[i]]  BY <2>3
  <2>8. g[0] = NothingTaken(qty)  BY <2>1, <2>4 DEF PricedUpTo
  <2>9. PricedUpTo(n + 1, g, b, best, side, qty, limit)  BY <2>6, <2>7, <2>8 DEF PricedUpTo
  <2> QED  BY <2>9
<1>3. N \in T
  <2> HIDE DEF T
  <2>1. Nat \subseteq T  BY <1>1, <1>2, NumbersByInduction
  <2> QED  BY <1>0, <2>1
<1>4. PICK f : PricedUpTo(N, f, b, best, side, qty, limit)  BY <1>3
<1> HIDE DEF T
<1> DEFINE Recurs(h) ==
             h = [n \in 0 .. Len(depth(b, Opposite(side))) |->
                    IF n = 0 THEN NothingTaken(qty)
                    ELSE TakeLevel(h[n - 1], depth(b, Opposite(side))[n],
                           total_qty(b[<<Opposite(side), depth(b, Opposite(side))[n]>>]),
                           side, limit)]
           upto == CHOOSE h : Recurs(h)
<1>5. WalkTotals(b, side, qty, limit) = upto[Len(depth(b, Opposite(side)))]
  BY DEF WalkTotals
<1>6. Recurs(f)
  <2>1. ASSUME NEW n \in 0 .. N
        PROVE  f[n] = IF n = 0 THEN NothingTaken(qty) ELSE Next1(f[n - 1], n)
    <3>1. CASE n = 0  BY <1>4, <3>1 DEF PricedUpTo
    <3>2. CASE n # 0
      <4>1. n \in 1 .. N  BY <1>0, <3>2
      <4> QED  BY <1>4, <3>2, <4>1 DEF PricedUpTo
    <3> QED  BY <3>1, <3>2
  <2>2. f = [i \in 0 .. N |-> f[i]]  BY <1>4 DEF PricedUpTo
  <2>3. f = [n \in 0 .. N |-> IF n = 0 THEN NothingTaken(qty) ELSE Next1(f[n - 1], n)]
    BY <2>1, <2>2
  <2> QED  BY <2>3
<1>7. Recurs(upto)
  <2> HIDE DEF Recurs
  <2> QED  BY <1>6
<1>8. PICK h : h = upto  OBVIOUS
<1> HIDE DEF upto
<1>9. Recurs(h)
  <2> HIDE DEF Recurs
  <2> QED  BY <1>7, <1>8
<1>10. h = [n \in 0 .. N |-> IF n = 0 THEN NothingTaken(qty) ELSE Next1(h[n - 1], n)]
  BY <1>9
<1>11. h = [i \in 0 .. N |-> h[i]]  BY <1>10
<1>12. \A n \in 0 .. N : h[n] = IF n = 0 THEN NothingTaken(qty) ELSE Next1(h[n - 1], n)
  BY <1>10
<1> HIDE DEF Recurs, N, Next1
<1>13. h[0] = NothingTaken(qty)
  <2>1. 0 \in 0 .. N  BY <1>0
  <2> QED  BY <1>12, <2>1, Zenon
<1>14. ASSUME NEW i \in 1 .. N PROVE h[i] = Next1(h[i - 1], i)
  <2>1. i \in 0 .. N /\ i # 0  BY <1>0
  <2> QED  BY <1>12, <2>1
<1>15. PricedUpTo(N, h, b, best, side, qty, limit)
  BY <1>11, <1>13, <1>14 DEF PricedUpTo, Next1
<1> QED  BY <1>5, <1>8, <1>15 DEF N

\* What a taker leaves of its quantity and pays, at one price, for what is there.
Meets(u, m, s, v, n, t, price, there, allowed) ==
    /\ u = 0 \/ s = TRUE => v = u /\ n = m /\ t = s
    /\ u # 0 /\ s = FALSE /\ ~allowed => v = u /\ n = m /\ t = TRUE
    /\ u # 0 /\ s = FALSE /\ allowed /\ u < there => v = 0 /\ n = m + price * u /\ t = FALSE
    /\ u # 0 /\ s = FALSE /\ allowed /\ ~(u < there) =>
         v = u - there /\ n = m + price * there /\ t = FALSE

\* The same for the states before and after.
MeetsIn(x, y, price, there, allowed) ==
    Meets(x.unfilled_qty, x.filled_notional, x.limit_stopped,
          y.unfilled_qty, y.filled_notional, y.limit_stopped, price, there, allowed)

\* A maker is met so.
LEMMA MakerMet ==
  ASSUME NEW taken \in TakerState, NEW maker \in Order, NEW side, NEW limit,
         NEW then, then = TakeFrom(taken, maker, side, limit)
  PROVE  MeetsIn(taken, then, maker.price, maker.qty, limit_allows(side, maker.price, limit))
<1>1. taken.unfilled_qty \in Nat /\ taken.limit_stopped \in BOOLEAN  BY DEF TakerState
<1>2. maker.qty \in Nat  BY OrderNumbers
<1>3. CASE taken.unfilled_qty = 0 \/ taken.limit_stopped
  <2>1. then = taken  BY <1>3, Zenon DEF TakeFrom
  <2>2. taken.unfilled_qty = 0 \/ taken.limit_stopped = TRUE  BY <1>1, <1>3
  <2> QED  BY <2>1, <2>2 DEF MeetsIn, Meets
<1>4. CASE ~(taken.unfilled_qty = 0 \/ taken.limit_stopped)
  <2>1. taken.unfilled_qty # 0 /\ taken.limit_stopped = FALSE  BY <1>1, <1>4
  <2>2. CASE ~limit_allows(side, maker.price, limit)
    <3>1. then = [taken EXCEPT !.limit_stopped = TRUE]  BY <1>4, <2>2, Zenon DEF TakeFrom
    <3>2. /\ then.filled_notional = taken.filled_notional
          /\ then.unfilled_qty = taken.unfilled_qty /\ then.limit_stopped = TRUE
      BY <3>1 DEF TakerState
    <3> QED  BY <2>1, <2>2, <3>2 DEF MeetsIn, Meets
  <2>3. CASE limit_allows(side, maker.price, limit)
    <3>1. PICK filled : filled = IF taken.unfilled_qty < maker.qty
                                 THEN taken.unfilled_qty ELSE maker.qty
      OBVIOUS
    <3>2. PICK fill : fill = FillDelta(maker, filled)  OBVIOUS
    <3>3. then = [taken EXCEPT !.fills = Append(@, fill),
                               !.filled_notional = @ + maker.price * filled,
                               !.unfilled_qty = @ - filled]
      BY <1>4, <2>3, <3>1, <3>2 DEF TakeFrom
    <3>4. /\ then.unfilled_qty = taken.unfilled_qty - filled
          /\ then.limit_stopped = taken.limit_stopped
          /\ then.filled_notional = taken.filled_notional + maker.price * filled
      BY <3>3 DEF TakerState
    <3> QED  BY <1>1, <1>2, <2>1, <2>3, <3>1, <3>4 DEF MeetsIn, Meets
  <2> QED  BY <2>2, <2>3
<1> QED  BY <1>3, <1>4

\* A level is met so, and nothing is noted about its orders.
LEMMA LevelMet ==
  ASSUME NEW done \in TakerState, NEW price \in Nat, NEW level_qty \in Nat, NEW side, NEW limit,
         NEW then, then = TakeLevel(done, price, level_qty, side, limit)
  PROVE  /\ MeetsIn(done, then, price, level_qty, limit_allows(side, price, limit))
         /\ then \in TakerState
<1>1. /\ done.unfilled_qty \in Nat /\ done.limit_stopped \in BOOLEAN
      /\ done.fills \in Seq(Fill) /\ done.filled_notional \in Nat
  BY DEF TakerState
<1>3. CASE done.unfilled_qty = 0 \/ done.limit_stopped
  <2>1. then = done  BY <1>3, Zenon DEF TakeLevel
  <2>2. done.unfilled_qty = 0 \/ done.limit_stopped = TRUE  BY <1>1, <1>3
  <2> QED  BY <2>1, <2>2 DEF MeetsIn, Meets
<1>4. CASE ~(done.unfilled_qty = 0 \/ done.limit_stopped)
  <2>1. done.unfilled_qty # 0 /\ done.limit_stopped = FALSE  BY <1>1, <1>4
  <2>2. CASE ~limit_allows(side, price, limit)
    <3>1. then = [done EXCEPT !.limit_stopped = TRUE]  BY <1>4, <2>2, Zenon DEF TakeLevel
    <3>2. /\ then.filled_notional = done.filled_notional
          /\ then.unfilled_qty = done.unfilled_qty /\ then.limit_stopped = TRUE
          /\ then \in TakerState
      BY <3>1 DEF TakerState
    <3> QED  BY <2>1, <2>2, <3>2 DEF MeetsIn, Meets
  <2>3. CASE limit_allows(side, price, limit)
    <3>1. PICK take : take = IF done.unfilled_qty < level_qty
                             THEN done.unfilled_qty ELSE level_qty
      OBVIOUS
    <3>2. then = [done EXCEPT !.filled_notional = @ + price * take,
                              !.unfilled_qty = @ - take]
      BY <1>4, <2>3, <3>1 DEF TakeLevel
    <3>3. /\ then.unfilled_qty = done.unfilled_qty - take
          /\ then.limit_stopped = done.limit_stopped
          /\ then.filled_notional = done.filled_notional + price * take
          /\ then.fills = done.fills
          /\ then = [fills |-> then.fills, filled_notional |-> then.filled_notional,
                     unfilled_qty |-> then.unfilled_qty, limit_stopped |-> then.limit_stopped]
      BY <3>2 DEF TakerState
    <3>4. take \in Nat /\ take <= done.unfilled_qty  BY <1>1, <3>1
    <3>5. price * take \in Nat
      <4>1. \A p, f \in Nat : p * f \in Nat  OBVIOUS
      <4> QED  BY <3>4, <4>1
    <3>6. then.unfilled_qty \in Nat /\ then.filled_notional \in Nat
      BY <1>1, <3>3, <3>4, <3>5
    <3>7. then \in TakerState  BY <1>1, <3>3, <3>6 DEF TakerState
    <3>8. MeetsIn(done, then, price, level_qty, limit_allows(side, price, limit))
      BY <1>1, <2>1, <2>3, <3>1, <3>3 DEF MeetsIn, Meets
    <3> QED  BY <3>7, <3>8
  <2> QED  BY <2>2, <2>3
<1> QED  BY <1>3, <1>4

\* What is there is met in two parts as it is met whole.
LEMMA MetInParts ==
  ASSUME NEW x \in TakerState, NEW y \in TakerState, NEW z, NEW price \in Nat,
         NEW p \in Nat, NEW q \in Nat, NEW there, there = p + q, NEW allowed,
         MeetsIn(x, y, price, p, allowed), MeetsIn(y, z, price, q, allowed)
  PROVE  MeetsIn(x, z, price, there, allowed)
<1>1. PICK u, m, s : u = x.unfilled_qty /\ m = x.filled_notional /\ s = x.limit_stopped
  OBVIOUS
<1>2. PICK v, n, t : v = y.unfilled_qty /\ n = y.filled_notional /\ t = y.limit_stopped
  OBVIOUS
<1>3. PICK w, o, r : w = z.unfilled_qty /\ o = z.filled_notional /\ r = z.limit_stopped
  OBVIOUS
<1>4. /\ u \in Nat /\ m \in Nat /\ s \in BOOLEAN
      /\ v \in Nat /\ n \in Nat /\ t \in BOOLEAN
  BY <1>1, <1>2 DEF TakerState
<1>5. Meets(u, m, s, v, n, t, price, p, allowed)
  BY ONLY MeetsIn(x, y, price, p, allowed), <1>1, <1>2, Zenon DEF MeetsIn
<1>6. Meets(v, n, t, w, o, r, price, q, allowed)
  BY ONLY MeetsIn(y, z, price, q, allowed), <1>2, <1>3, Zenon DEF MeetsIn
<1>7. Meets(u, m, s, w, o, r, price, p + q, allowed)
  <2>1. CASE u = 0 \/ s = TRUE  BY <1>4, <1>5, <1>6, <2>1 DEF Meets
  <2>2. CASE u # 0 /\ s = FALSE /\ ~allowed  BY <1>4, <1>5, <1>6, <2>2 DEF Meets
  <2>3. CASE u # 0 /\ s = FALSE /\ allowed /\ u < p
    <3>1. v = 0 /\ n = m + price * u /\ t = FALSE  BY <1>4, <1>5, <1>6, <2>3 DEF Meets
    <3>2. w = 0 /\ o = m + price * u /\ r = FALSE  BY <1>4, <1>5, <1>6, <3>1 DEF Meets
    <3>3. u < p + q  BY ONLY <2>3, <1>4, p \in Nat, q \in Nat
    <3> QED  BY <1>4, <1>5, <1>6, <2>3, <3>2, <3>3 DEF Meets
  <2>4. CASE u # 0 /\ s = FALSE /\ allowed /\ ~(u < p)
    <3>1. v = u - p /\ n = m + price * p /\ t = FALSE  BY <1>4, <1>5, <1>6, <2>4 DEF Meets
    <3>2. CASE v = 0
      <4>1. w = 0 /\ o = m + price * p /\ r = FALSE /\ u = p  BY <1>4, <1>5, <1>6, <3>1, <3>2 DEF Meets
      <4>2. u < p + q \/ (~(u < p + q) /\ q = 0 /\ p + q = u /\ u - (p + q) = 0)
        BY ONLY <4>1, <1>4, p \in Nat, q \in Nat
      <4> QED  BY <1>4, <1>5, <1>6, <2>4, <4>1, <4>2 DEF Meets
    <3>3. CASE v # 0 /\ v < q
      <4>1. w = 0 /\ o = n + price * v /\ r = FALSE  BY <1>4, <1>5, <1>6, <2>4, <3>1, <3>3 DEF Meets
      <4>2. u < p + q /\ u = p + v  BY ONLY <3>1, <3>3, <1>4, p \in Nat, q \in Nat
      <4>3. price * p + price * v = price * u  BY ONLY <4>2, <1>4, price \in Nat, p \in Nat
      <4>4. price * p \in Nat /\ price * v \in Nat  BY ONLY <1>4, price \in Nat, p \in Nat
      <4>5. (m + price * p) + price * v = m + price * u
        BY ONLY <4>3, <4>4, <1>4
      <4> QED  BY <1>4, <1>5, <1>6, <2>4, <3>1, <4>1, <4>2, <4>5 DEF Meets
    <3>4. CASE v # 0 /\ ~(v < q)
      <4>1. w = v - q /\ o = n + price * q /\ r = FALSE  BY <1>4, <1>5, <1>6, <2>4, <3>1, <3>4 DEF Meets
      <4>2. ~(u < p + q) /\ w = u - (p + q)
        BY ONLY <3>1, <3>4, <4>1, <1>4, p \in Nat, q \in Nat
      <4>3. price * p + price * q = price * (p + q)  BY ONLY price \in Nat, p \in Nat, q \in Nat
      <4>4. price * p \in Nat /\ price * q \in Nat  BY ONLY price \in Nat, p \in Nat, q \in Nat
      <4>5. (m + price * p) + price * q = m + price * (p + q)
        BY ONLY <4>3, <4>4, <1>4
      <4> QED  BY <1>4, <1>5, <1>6, <2>4, <3>1, <4>1, <4>2, <4>5 DEF Meets
    <3> QED  BY <3>2, <3>3, <3>4
  <2> QED  BY <1>4, <2>1, <2>2, <2>3, <2>4
<1> QED  BY ONLY there = p + q, <1>1, <1>3, <1>7, Zenon DEF MeetsIn

\* Quantities stay quantities where two lists are joined.
LEMMA PositiveTogether ==
  ASSUME NEW x \in Seq(Order), NEW y \in Seq(Order), \A i \in DOMAIN x : x[i].qty > 0,
         \A i \in DOMAIN y : y[i].qty > 0, NEW z, z = x \o y
  PROVE  z \in Seq(Order) /\ \A i \in DOMAIN z : z[i].qty > 0
<1>1. z \in Seq(Order)  BY ConcatProperties
<1>2. Chained(x, y, z)  BY BothLists
<1>3. /\ Len(x) \in Nat /\ Len(y) \in Nat
      /\ DOMAIN x = 1 .. Len(x) /\ DOMAIN y = 1 .. Len(y)
      /\ DOMAIN z = 1 .. (Len(x) + Len(y))
  BY <1>2, LenProperties DEF Chained
<1>4. ASSUME NEW m \in DOMAIN z PROVE z[m].qty > 0
  <2>1. z[m] = IF m <= Len(x) THEN x[m] ELSE y[m - Len(x)]  BY <1>2, <1>3 DEF Chained
  <2>2. CASE m <= Len(x)
    <3>1. m \in DOMAIN x  BY <1>3, <2>2
    <3> QED  BY <2>1, <2>2, <3>1
  <2>3. CASE ~(m <= Len(x))
    <3>1. m - Len(x) \in DOMAIN y  BY <1>3, <2>3
    <3> QED  BY <2>1, <2>3, <3>1
  <2> QED  BY <2>2, <2>3
<1> QED  BY <1>1, <1>4

\* The orders of a level, met one by one, are met as one order of their sum.
LEMMA QueueMet ==
  ASSUME NEW x \in Seq(Order), \A i \in DOMAIN x : x[i].qty > 0,
         NEW level \in Seq(Order), level # <<>>, NEW price \in Nat,
         \A i \in DOMAIN level : level[i].qty > 0 /\ level[i].price = price,
         NEW side, NEW qty \in Nat, NEW limit \in Nat
  PROVE  MeetsIn(Walk(x, side, qty, limit), Walk(x \o level, side, qty, limit),
                 price, QtySum(level), limit_allows(side, price, limit))
<1>1. PICK w : w = Walk(x, side, qty, limit)  OBVIOUS
<1>2. PICK a : a = limit_allows(side, price, limit)  OBVIOUS
<1>4. w \in TakerState  BY <1>1, WalkProgress
<1> DEFINE Fits(s) == \A i \in DOMAIN s : s[i].qty > 0 /\ s[i].price = price
           Met(s) == MeetsIn(w, Walk(x \o s, side, qty, limit), price, QtySum(s), a)
           T == {s \in Seq(Order) : Fits(s) /\ s # <<>> => Met(s)}
<1>5. <<>> \in T
  <2>1. <<>> \in Seq(Order)  OBVIOUS
  <2> QED  BY <2>1
<1>6. ASSUME NEW s \in Seq(Order), NEW o \in Order, s \in T PROVE Append(s, o) \in T
  <2>1. PICK longer : longer = Append(s, o)  OBVIOUS
  <2>2. /\ longer \in Seq(Order) /\ Len(s) \in Nat /\ DOMAIN s = 1 .. Len(s)
        /\ DOMAIN longer = 1 .. (Len(s) + 1)
        /\ \A i \in 1 .. Len(s) : longer[i] = s[i]
        /\ longer[Len(s) + 1] = o
    BY <2>1, LenProperties, AppendProperties
  <2> SUFFICES ASSUME Fits(longer) PROVE Met(longer)
    BY <2>1, <2>2
  <2>3. o.qty > 0 /\ o.price = price
    <3>1. Len(s) + 1 \in DOMAIN longer  BY <2>2
    <3> QED  BY <2>2, <3>1
  <2>4. Fits(s)
    <3> SUFFICES ASSUME NEW i \in DOMAIN s PROVE s[i].qty > 0 /\ s[i].price = price  OBVIOUS
    <3>1. i \in DOMAIN longer /\ longer[i] = s[i]  BY <2>2
    <3> QED  BY <3>1
  <2>5. PICK y : y = x \o s  OBVIOUS
  <2>6. y \in Seq(Order) /\ \A i \in DOMAIN y : y[i].qty > 0
    <3>1. \A i \in DOMAIN s : s[i].qty > 0  BY <2>4
    <3> QED  BY <2>5, <3>1, PositiveTogether
  <2>7. PICK v : v = Walk(y, side, qty, limit)  OBVIOUS
  <2>8. v \in TakerState  BY <2>6, <2>7, WalkProgress
  <2>9. PICK n : n = TakeFrom(v, o, side, limit)  OBVIOUS
  <2>10. x \o longer = Append(y, o)  BY <2>1, <2>5, LongerTogether
  <2>11. Walk(x \o longer, side, qty, limit) = n
    BY <2>6, <2>7, <2>9, <2>10, MetOnAppend
  <2>12. MeetsIn(v, n, price, o.qty, a)
    BY <1>2, <2>3, <2>8, <2>9, MakerMet
  <2>13. PICK p : p = QtySum(s)  OBVIOUS
  <2>14. PICK q : q = o.qty  OBVIOUS
  <2>15. p \in Nat /\ q \in Nat  BY <2>13, <2>14, SumIsNat, OrderNumbers
  <2>16. PICK h : h = p + q  OBVIOUS
  <2>19. QtySum(longer) = h  BY <2>1, <2>13, <2>14, <2>16, SumOnAppend
  <2>17. CASE s = <<>>
    <3>1. y = x /\ v = w
      <4>1. x \o <<>> = x  BY ConcatEmptySeq
      <4> QED  BY <1>1, <2>5, <2>7, <2>17, <4>1
    <3>2. p = 0  BY <2>13, <2>17, SumNothing
    <3>3. h = o.qty  BY <2>14, <2>15, <2>16, <3>2
    <3>4. MeetsIn(w, n, price, h, a)  BY <2>12, <3>1, <3>3
    <3> QED  BY <2>11, <2>19, <3>4
  <2>18. CASE s # <<>>
    <3>1. MeetsIn(w, v, price, p, a)  BY <1>6, <2>4, <2>5, <2>7, <2>13, <2>18
    <3>2. MeetsIn(v, n, price, q, a)  BY <2>12, <2>14
    <3>3. MeetsIn(w, n, price, h, a)
      BY ONLY price \in Nat, <1>4, <2>8, <2>15, <2>16, <3>1, <3>2, MetInParts
    <3> QED  BY <2>11, <2>19, <3>3
  <2> QED  BY <2>17, <2>18
<1>7. Met(level)
  <2>1. Seq(Order) \subseteq T
    <3> HIDE DEF T
    <3> QED  BY <1>5, <1>6, ListsByInduction
  <2>2. level \in T  BY <2>1
  <2> QED  BY <2>2
<1> QED  BY <1>1, <1>2, <1>7

\* A total is a number, and never more than the sum.
LEMMA TotalIsAtMost ==
  ASSUME NEW orders \in Seq(Order)
  PROVE  total_qty(orders) \in Nat /\ total_qty(orders) <= QtySum(orders)
<1> DEFINE T == {s \in Seq(Order) : total_qty(s) \in Nat /\ total_qty(s) <= QtySum(s)}
<1>1. <<>> \in T
  <2>1. <<>> \in Seq(Order)  OBVIOUS
  <2> QED  BY <2>1, SumNothing, TotalNothing
<1>2. ASSUME NEW s \in Seq(Order), NEW x \in Order, s \in T PROVE Append(s, x) \in T
  <2>1. Append(s, x) \in Seq(Order)  OBVIOUS
  <2>2. PICK p : p = QtySum(s)  OBVIOUS
  <2>3. PICK q : q = x.qty  OBVIOUS
  <2>4. PICK L : L = QtyLimit  OBVIOUS
  <2>5. PICK t : t = total_qty(s)  OBVIOUS
  <2>6. p \in Nat /\ q \in Nat /\ L \in Nat /\ L > 0 /\ t \in Nat /\ t <= p
    BY <1>2, <2>2, <2>3, <2>4, <2>5, SumIsNat, OrderNumbers, QtyLimitAssumption
  <2>7. QtySum(Append(s, x)) = p + q  BY <2>2, <2>3, SumOnAppend
  <2>8. total_qty(Append(s, x)) = (t + q) % L  BY <2>3, <2>4, <2>5, TotalOnAppend
  <2>9. (t + q) % L \in Nat /\ (t + q) % L <= t + q
    <3>1. PICK e : e = t + q  OBVIOUS
    <3>2. e \in Nat  BY <2>6, <3>1
    <3>3. e % L \in Nat /\ e % L <= e  BY ONLY <2>6, <3>2
    <3> QED  BY <3>1, <3>3
  <2>10. (t + q) % L <= p + q
    <3>1. PICK e : e = (t + q) % L  OBVIOUS
    <3>2. e \in Nat /\ e <= t + q  BY <2>9, <3>1
    <3>3. e <= p + q  BY ONLY <2>6, <3>2
    <3> QED  BY <3>1, <3>3
  <2> QED  BY <2>1, <2>7, <2>8, <2>9, <2>10
<1>3. Seq(Order) \subseteq T
  <2> HIDE DEF T
  <2> QED  BY <1>1, <1>2, ListsByInduction
<1> QED  BY <1>3

\* Two takers who have left and paid the same.
Alike(x, y) ==
    /\ x.unfilled_qty = y.unfilled_qty /\ x.filled_notional = y.filled_notional
    /\ x.limit_stopped = y.limit_stopped

\* They stay so where they meet the same.
LEMMA StayAlike ==
  ASSUME NEW x \in TakerState, NEW y, Alike(x, y), NEW v, NEW w,
         NEW price \in Nat, NEW there \in Nat, NEW allowed,
         MeetsIn(x, v, price, there, allowed), MeetsIn(y, w, price, there, allowed)
  PROVE  Alike(v, w)
<1>1. PICK u, m, s : u = x.unfilled_qty /\ m = x.filled_notional /\ s = x.limit_stopped
  OBVIOUS
<1>2. u \in Nat /\ s \in BOOLEAN  BY <1>1 DEF TakerState
<1>3. Meets(u, m, s, v.unfilled_qty, v.filled_notional, v.limit_stopped, price, there, allowed)
  BY ONLY MeetsIn(x, v, price, there, allowed), <1>1, Zenon DEF MeetsIn
<1>4. Meets(u, m, s, w.unfilled_qty, w.filled_notional, w.limit_stopped, price, there, allowed)
  <2>1. u = y.unfilled_qty /\ m = y.filled_notional /\ s = y.limit_stopped
    BY <1>1, Zenon DEF Alike
  <2> QED  BY ONLY MeetsIn(y, w, price, there, allowed), <2>1, Zenon DEF MeetsIn
<1>5. CASE u = 0 \/ s = TRUE  BY <1>3, <1>4, <1>5 DEF Meets, Alike
<1>6. CASE u # 0 /\ s = FALSE
  <2>1. CASE ~allowed  BY <1>3, <1>4, <1>6, <2>1 DEF Meets, Alike
  <2>2. CASE allowed  BY <1>3, <1>4, <1>6, <2>2 DEF Meets, Alike
  <2> QED  BY <2>1, <2>2
<1> QED  BY <1>2, <1>5, <1>6

\* A taker of which no more is left than of another, and that does not stop before it.
LagsBehind(x, y) ==
    /\ x.unfilled_qty >= y.unfilled_qty
    /\ y.limit_stopped = TRUE => x.limit_stopped = TRUE

\* It stays so where the other meets at least as much.
LEMMA StayBehind ==
  ASSUME NEW x \in TakerState, NEW y \in TakerState, LagsBehind(x, y), NEW v, NEW w,
         NEW price \in Nat, NEW p \in Nat, NEW q \in Nat, p <= q, NEW allowed,
         MeetsIn(x, v, price, p, allowed), MeetsIn(y, w, price, q, allowed)
  PROVE  LagsBehind(v, w)
<1>1. PICK u, m, s : u = x.unfilled_qty /\ m = x.filled_notional /\ s = x.limit_stopped
  OBVIOUS
<1>2. PICK r, n, t : r = y.unfilled_qty /\ n = y.filled_notional /\ t = y.limit_stopped
  OBVIOUS
<1>3. PICK vu, vs : vu = v.unfilled_qty /\ vs = v.limit_stopped  OBVIOUS
<1>4. PICK wu, ws : wu = w.unfilled_qty /\ ws = w.limit_stopped  OBVIOUS
<1>5. u \in Nat /\ s \in BOOLEAN /\ r \in Nat /\ t \in BOOLEAN
  BY <1>1, <1>2 DEF TakerState
<1>6. Meets(u, m, s, vu, v.filled_notional, vs, price, p, allowed)
  BY ONLY MeetsIn(x, v, price, p, allowed), <1>1, <1>3, Zenon DEF MeetsIn
<1>7. Meets(r, n, t, wu, w.filled_notional, ws, price, q, allowed)
  BY ONLY MeetsIn(y, w, price, q, allowed), <1>2, <1>4, Zenon DEF MeetsIn
<1>8. u >= r /\ (t = TRUE => s = TRUE)  BY <1>1, <1>2 DEF LagsBehind
<1>9. wu <= r /\ wu \in Nat
  <2>1. CASE r = 0 \/ t = TRUE  BY <1>5, <1>7, <2>1 DEF Meets
  <2>2. CASE r # 0 /\ t = FALSE /\ ~allowed  BY <1>5, <1>7, <2>2 DEF Meets
  <2>3. CASE r # 0 /\ t = FALSE /\ allowed  BY <1>5, <1>7, <2>3 DEF Meets
  <2> QED  BY <1>5, <2>1, <2>2, <2>3
<1>10. CASE r = 0 \/ t = TRUE
  <2>1. wu = r /\ ws = t  BY <1>7, <1>10 DEF Meets
  <2>2. CASE r = 0
    <3>1. CASE t = TRUE  BY <1>3, <1>4, <1>5, <1>6, <1>8, <2>1, <3>1 DEF Meets, LagsBehind
    <3>2. CASE t = FALSE
      <4>1. vu >= 0  BY <1>5, <1>6 DEF Meets
      <4> QED  BY <1>3, <1>4, <2>1, <2>2, <3>2, <4>1 DEF LagsBehind
    <3> QED  BY <1>5, <3>1, <3>2
  <2>3. CASE t = TRUE  BY <1>3, <1>4, <1>5, <1>6, <1>8, <2>1, <2>3 DEF Meets, LagsBehind
  <2> QED  BY <1>10, <2>2, <2>3
<1>11. CASE r # 0 /\ t = FALSE /\ ~allowed
  <2>1. wu = r /\ u # 0  BY <1>5, <1>7, <1>8, <1>11 DEF Meets
  <2>2. vu = u /\ vs = TRUE  BY <1>5, <1>6, <1>11, <2>1 DEF Meets
  <2> QED  BY <1>3, <1>4, <1>8, <2>1, <2>2 DEF LagsBehind
<1>12. CASE r # 0 /\ t = FALSE /\ allowed
  <2>1. ws = FALSE /\ wu = IF r < q THEN 0 ELSE r - q  BY <1>5, <1>7, <1>12 DEF Meets
  <2>2. vu = u \/ (vu = IF u < p THEN 0 ELSE u - p)  BY <1>5, <1>6, <1>12 DEF Meets
  <2>3. vu >= wu
    BY ONLY <1>5, <1>8, <2>1, <2>2, p \in Nat, q \in Nat, p <= q
  <2> QED  BY <1>3, <1>4, <2>1, <2>3 DEF LagsBehind
<1> QED  BY <1>5, <1>10, <1>11, <1>12

\* What an estimate has taken, and what a match has.
Foresees(f, w, exact) == f \in TakerState /\ LagsBehind(f, w) /\ (exact => Alike(f, w))

\* One more level for the estimate, and its orders for the match.
LEMMA OneMoreLevel ==
  ASSUME NEW x \in Seq(Order), \A i \in DOMAIN x : x[i].qty > 0,
         NEW level \in Seq(Order), level # <<>>, NEW price \in Nat,
         \A i \in DOMAIN level : level[i].qty > 0 /\ level[i].price = price,
         NEW side, NEW qty \in Nat, NEW limit \in Nat, NEW exact,
         NEW f, Foresees(f, Walk(x, side, qty, limit), exact),
         exact => QtySum(level) < QtyLimit,
         NEW g, g = TakeLevel(f, price, total_qty(level), side, limit)
  PROVE  Foresees(g, Walk(x \o level, side, qty, limit), exact)
<1>1. PICK w : w = Walk(x, side, qty, limit)  OBVIOUS
<1>2. PICK v : v = Walk(x \o level, side, qty, limit)  OBVIOUS
<1>3. PICK a : a = limit_allows(side, price, limit)  OBVIOUS
<1>4. PICK p : p = total_qty(level)  OBVIOUS
<1>5. PICK q : q = QtySum(level)  OBVIOUS
<1>6. p \in Nat /\ q \in Nat /\ p <= q  BY <1>4, <1>5, SumIsNat, TotalIsAtMost
<1>7. exact => p = q  BY <1>4, <1>5, TotalIsSum
<1>8. w \in TakerState  BY <1>1, WalkProgress
<1>9. f \in TakerState /\ LagsBehind(f, w) /\ (exact => Alike(f, w))
  BY <1>1 DEF Foresees
<1>10. MeetsIn(w, v, price, q, a)  BY <1>1, <1>2, <1>3, <1>5, QueueMet
<1>11. g = TakeLevel(f, price, p, side, limit)  BY <1>4
<1>12. g \in TakerState /\ MeetsIn(f, g, price, p, a)
  BY <1>3, <1>6, <1>9, <1>11, LevelMet
<1>13. LagsBehind(g, v)
  BY ONLY price \in Nat, <1>6, <1>8, <1>9, <1>10, <1>12, StayBehind
<1>14. ASSUME exact PROVE Alike(g, v)
  <2>1. MeetsIn(f, g, price, q, a) /\ Alike(f, w)  BY <1>7, <1>9, <1>12, <1>14
  <2> QED  BY ONLY price \in Nat, <1>6, <1>9, <1>10, <2>1, StayAlike
<1>15. Foresees(g, v, exact)  BY <1>12, <1>13, <1>14 DEF Foresees
<1> QED  BY <1>2, <1>15

\* A level that has orders, all of its price and with quantities.
LevelAt(level, price) ==
    /\ price \in Price /\ level \in Seq(Order) /\ level # <<>>
    /\ \A m \in DOMAIN level : level[m].qty > 0 /\ level[m].price = price

\* The prices of a side are those of its levels.
LEMMA LevelsHaveOrders ==
  ASSUME NEW b, SoundBook(b), IsFiniteSet(RestingIds(b)), NEW side \in Side,
         NEW best, best = depth(b, side), NEW i \in DOMAIN best,
         NEW level, level = b[<<side, best[i]>>]
  PROVE  LevelAt(level, best[i])
<1>1. PICK T : T = PricesOf(b, side)  OBVIOUS
<1>2. IsFiniteSet(T)  BY <1>1, FinitePrices
<1>3. BestFirst(best, side, T)  BY <1>1, <1>2, DepthIsSorted
<1>4. best[i] \in T  BY <1>3 DEF BestFirst
<1>5. PICK k : k = <<side, best[i]>>  OBVIOUS
<1>6. best[i] \in Price /\ level # <<>>  BY <1>1, <1>4 DEF PricesOf
<1>7. k \in Queue /\ k[2] = best[i]  BY <1>5, <1>6 DEF Queue
<1>8. level = b[k]  BY <1>5
<1>9. level \in Seq(Order) /\ \A m \in DOMAIN level : level[m].price = best[i]
  BY <1>7, <1>8, QueueIsSorted
<1>10. \A m \in DOMAIN level : level[m].qty > 0
  BY <1>7, <1>8 DEF SoundBook, OneOrderPerId
<1> QED  BY <1>6, <1>9, <1>10 DEF LevelAt

\* A side without prices has no orders.
LEMMA NoPricesNoOrders ==
  ASSUME NEW b, SoundBook(b), IsFiniteSet(RestingIds(b)), NEW side \in Side,
         depth(b, side) = <<>>
  PROVE  SideOrders(b, side) = <<>>
<1>1. PICK M : M = SideOrders(b, side)  OBVIOUS
<1>2. Listing(M, b, {side} \X Price)  BY <1>1, SideIsListed
<1>3. M \in Seq(Order) /\ Len(M) \in Nat /\ DOMAIN M = 1 .. Len(M)
  BY <1>2, ListedOnce, LenProperties
<1>4. SUFFICES ASSUME M # <<>> PROVE FALSE  BY <1>1
<1>5. 1 \in DOMAIN M
  <2>1. Len(M) # 0  BY <1>3, <1>4, EmptySeq
  <2> QED  BY <1>3, <2>1
<1>6. PICK id : id = M[1].id  OBVIOUS
<1>7. id \in RestingIds(b) /\ M[1] = get(b, id) /\ QueueOf(M[1]) \in {side} \X Price
  BY <1>2, <1>5, <1>6 DEF Listing
<1>8. PICK k : k = HomeOf(b, id)  OBVIOUS
<1>9. PICK i : i = PlaceIn(b[k], id)  OBVIOUS
<1>10. i \in DOMAIN b[k] /\ QueueOf(get(b, id)) = k  BY <1>7, <1>8, <1>9, RestsSomewhere
<1>11. PICK price \in Price : k = <<side, price>>  BY <1>7, <1>10
<1>12. b[k] # <<>>
  <2>1. b[k] = <<>> => DOMAIN b[k] = {}  OBVIOUS
  <2> QED  BY <1>10, <2>1
<1>13. price \in PricesOf(b, side)  BY <1>11, <1>12 DEF PricesOf
<1>14. PICK best : best = depth(b, side)  OBVIOUS
<1>15. BestFirst(best, side, PricesOf(b, side))  BY <1>14, DepthIsSorted, FinitePrices
<1>16. \E j \in DOMAIN best : best[j] = price  BY <1>13, <1>15 DEF BestFirst
<1>17. DOMAIN best = {}
  <2>1. best = <<>>  BY <1>14
  <2> QED  BY <2>1
<1> QED  BY <1>16, <1>17

\* The start of a walk foresees itself.
LEMMA NothingForeseen ==
  ASSUME NEW qty \in Nat, NEW exact
  PROVE  Foresees(NothingTaken(qty), NothingTaken(qty), exact)
<1>1. PICK w : w = NothingTaken(qty)  OBVIOUS
<1>2. w = [fills |-> <<>>, filled_notional |-> 0, unfilled_qty |-> qty, limit_stopped |-> FALSE]
  BY <1>1 DEF NothingTaken
<1>3. w \in TakerState /\ w.unfilled_qty = qty /\ w.limit_stopped = FALSE
  BY <1>2 DEF TakerState
<1>4. LagsBehind(w, w) /\ Alike(w, w)  BY <1>3 DEF LagsBehind, Alike
<1> QED  BY <1>1, <1>3, <1>4 DEF Foresees

\* The walk of the totals foresees the walk of the orders.
LEMMA WalkForeseen ==
  ASSUME NEW b, SoundBook(b), IsFiniteSet(RestingIds(b)), NEW side \in Side,
         NEW qty \in Nat, NEW limit \in Nat, NEW exact,
         exact => \A price \in Price : QtySum(b[<<Opposite(side), price>>]) < QtyLimit
  PROVE  Foresees(WalkTotals(b, side, qty, limit),
                  match_taker_order(b, side, qty, limit), exact)
<1>1. PICK makers : makers = Opposite(side)  OBVIOUS
<1>2. makers \in Side  BY <1>1 DEF Opposite, Side
<1>3. PICK best : best = depth(b, makers)  OBVIOUS
<1>4. PICK M : M = SideOrders(b, makers)  OBVIOUS
<1>5. match_taker_order(b, side, qty, limit) = Walk(M, side, qty, limit)
  BY <1>1, <1>4 DEF match_taker_order
<1>6. CASE best = <<>>
  <2>1. M = <<>>  BY <1>2, <1>3, <1>4, <1>6, NoPricesNoOrders
  <2>2. Walk(M, side, qty, limit) = NothingTaken(qty)  BY <2>1, MetNothing
  <2>3. Len(best) = 0 /\ Len(best) \in Nat  BY <1>6
  <2>4. PICK f : /\ PricedUpTo(Len(best), f, b, best, side, qty, limit)
                 /\ WalkTotals(b, side, qty, limit) = f[Len(best)]
    BY <1>1, <1>3, <2>3, PricedRuns
  <2>5. WalkTotals(b, side, qty, limit) = NothingTaken(qty)  BY <2>3, <2>4 DEF PricedUpTo
  <2> QED  BY <1>5, <2>2, <2>5, NothingForeseen
<1>7. CASE best # <<>>
  <2>1. PICK run : InTurn(b, makers, best, run)  BY <1>2, <1>3, <1>7, QueuesInTurn
  <2>2. /\ Len(best) \in Nat /\ Len(best) # 0 /\ DOMAIN best = 1 .. Len(best)
        /\ run[1] = b[<<makers, best[1]>>]
        /\ \A i \in 1 .. (Len(best) - 1) : run[i + 1] = run[i] \o b[<<makers, best[i + 1]>>]
        /\ M = run[Len(best)]
    BY <1>4, <2>1, Zenon DEF InTurn
  <2>3. PICK f : /\ PricedUpTo(Len(best), f, b, best, side, qty, limit)
                 /\ WalkTotals(b, side, qty, limit) = f[Len(best)]
    <3>1. best = depth(b, Opposite(side)) /\ Len(best) \in Nat  BY ONLY <1>1, <1>3, <2>2
    <3> QED  BY ONLY <3>1, PricedRuns
  <2>4. /\ f[0] = NothingTaken(qty)
        /\ \A i \in 1 .. Len(best) :
             f[i] = TakeLevel(f[i - 1], best[i], total_qty(b[<<makers, best[i]>>]), side, limit)
    BY <1>1, <2>3 DEF PricedUpTo
  <2> DEFINE Reached(g, x) == /\ x \in Seq(Order) /\ \A m \in DOMAIN x : x[m].qty > 0
                              /\ Foresees(g, Walk(x, side, qty, limit), exact)
             T == {n \in Nat : n + 1 <= Len(best) => Reached(f[n + 1], run[n + 1])}
  <2>5. ASSUME NEW i \in 1 .. Len(best), NEW x, Reached(f[i - 1], x),
               NEW level, level = b[<<makers, best[i]>>]
        PROVE  Reached(f[i], x \o level)
    <3>1. LevelAt(level, best[i])
      <4>1. i \in DOMAIN best  BY <2>2
      <4>2. level = b[<<makers, best[i]>>]  BY <2>5
      <4> QED  BY <1>2, <1>3, <4>1, <4>2, LevelsHaveOrders
    <3>2. PICK price : price = best[i]  OBVIOUS
    <3>3. price \in Price /\ price \in Nat  BY <3>1, <3>2, PriceAssumption DEF LevelAt
    <3>4. exact => QtySum(level) < QtyLimit  BY <1>1, <2>5, <3>2, <3>3
    <3>5. PICK g : g = f[i - 1]  OBVIOUS
    <3>6. PICK h : h = TakeLevel(g, price, total_qty(level), side, limit)  OBVIOUS
    <3>7. f[i] = h  BY <2>4, <2>5, <3>2, <3>5, <3>6
    <3>8. /\ x \in Seq(Order) /\ \A m \in DOMAIN x : x[m].qty > 0
          /\ Foresees(g, Walk(x, side, qty, limit), exact)
      BY <2>5, <3>5
    <3>9. /\ level \in Seq(Order) /\ level # <<>>
          /\ \A m \in DOMAIN level : level[m].qty > 0 /\ level[m].price = price
      BY <3>1, <3>2 DEF LevelAt
    <3>10. Foresees(h, Walk(x \o level, side, qty, limit), exact)
      BY ONLY qty \in Nat, limit \in Nat, <3>3, <3>4, <3>6, <3>8, <3>9, OneMoreLevel
    <3>11. x \o level \in Seq(Order) /\ \A m \in DOMAIN (x \o level) : (x \o level)[m].qty > 0
      <4>1. PICK z : z = x \o level  OBVIOUS
      <4>2. z \in Seq(Order) /\ \A m \in DOMAIN z : z[m].qty > 0
        BY <3>8, <3>9, <4>1, PositiveTogether
      <4> QED  BY <4>1, <4>2
    <3> QED  BY <3>7, <3>10, <3>11
  <2>6. 0 \in T
    <3>1. Reached(f[0], <<>>)
      <4>1. Walk(<<>>, side, qty, limit) = NothingTaken(qty)  BY MetNothing
      <4>2. <<>> \in Seq(Order) /\ DOMAIN <<>> = {}  OBVIOUS
      <4>3. Foresees(f[0], Walk(<<>>, side, qty, limit), exact)
        BY <2>4, <4>1, NothingForeseen
      <4> QED  BY <4>2, <4>3
    <3>2. PICK level : level = b[<<makers, best[1]>>]  OBVIOUS
    <3>3. 1 \in 1 .. Len(best) /\ 1 - 1 = 0 /\ 0 + 1 = 1  BY <2>2
    <3> HIDE DEF Reached
    <3>4. Reached(f[1], <<>> \o level)  BY <2>5, <3>1, <3>2, <3>3
    <3>5. level \in Seq(Order)
      <4>1. 1 \in DOMAIN best  BY <2>2, <3>3
      <4> QED  BY <1>2, <1>3, <3>2, <4>1, LevelsHaveOrders DEF LevelAt
    <3>6. <<>> \o level = run[1]  BY <2>2, <3>2, <3>5, ConcatEmptySeq
    <3> QED  BY <3>3, <3>4, <3>6
  <2>7. ASSUME NEW n \in Nat, n \in T PROVE n + 1 \in T
    <3> HIDE DEF Reached
    <3>1. PICK h : h = n + 1  OBVIOUS
    <3> SUFFICES ASSUME h + 1 <= Len(best) PROVE Reached(f[h + 1], run[h + 1])
      BY <3>1
    <3>2. /\ h \in 1 .. (Len(best) - 1) /\ h <= Len(best) /\ h + 1 \in 1 .. Len(best)
          /\ (h + 1) - 1 = h
      BY <2>2, <3>1
    <3>3. Reached(f[h], run[h])  BY <2>7, <3>1, <3>2
    <3>4. PICK level : level = b[<<makers, best[h + 1]>>]  OBVIOUS
    <3>5. Reached(f[h + 1], run[h] \o level)  BY <2>5, <3>2, <3>3, <3>4
    <3> QED  BY <2>2, <3>2, <3>4, <3>5
  <2>8. Reached(f[Len(best)], run[Len(best)])
    <3> HIDE DEF T, Reached
    <3>1. Nat \subseteq T  BY <2>6, <2>7, NumbersByInduction
    <3>2. Len(best) - 1 \in Nat /\ (Len(best) - 1) + 1 = Len(best) /\ Len(best) <= Len(best)
      BY <2>2
    <3>3. Len(best) - 1 \in T  BY <3>1, <3>2
    <3>4. (Len(best) - 1) + 1 <= Len(best)
            => Reached(f[(Len(best) - 1) + 1], run[(Len(best) - 1) + 1])
      BY <3>3 DEF T
    <3> QED  BY <3>2, <3>4
  <2> QED  BY <1>5, <2>2, <2>3, <2>8
<1> QED  BY <1>6, <1>7

-----------------------------------------------------------------------------
(* What was paid beyond the best price *)

Distance(p, q) == IF p > q THEN p - q ELSE q - p

\* How far each fill was from a price, as many times as its quantity.
GapsOf(b, fills, price) ==
    [i \in DOMAIN fills |->
        [qty |-> Distance(get(b, fills[i].maker_order_id).price, price) * fills[i].filled_qty]]

\* One more fill is one more gap.
LEMMA GapOnAppend ==
  ASSUME NEW b, NEW price, NEW fills \in Seq(Fill), NEW fill \in Fill
  PROVE  QtySum(GapsOf(b, Append(fills, fill), price))
           = QtySum(GapsOf(b, fills, price))
             + Distance(get(b, fill.maker_order_id).price, price) * fill.filled_qty
<1> DEFINE gap(d) == [qty |-> Distance(get(b, d.maker_order_id).price, price) * d.filled_qty]
<1>1. PICK longer : longer = Append(fills, fill)  OBVIOUS
<1>2. /\ longer \in Seq(Fill) /\ Len(fills) \in Nat /\ DOMAIN fills = 1 .. Len(fills)
      /\ DOMAIN longer = 1 .. (Len(fills) + 1)
      /\ \A i \in 1 .. Len(fills) : longer[i] = fills[i]
      /\ longer[Len(fills) + 1] = fill
  BY <1>1, LenProperties, AppendProperties
<1>3. PICK N : N = Len(fills)  OBVIOUS
<1>4. PICK x : x = GapsOf(b, fills, price)  OBVIOUS
<1>5. PICK y : y = GapsOf(b, longer, price)  OBVIOUS
<1>6. x = [i \in 1 .. N |-> gap(fills[i])]  BY <1>2, <1>3, <1>4 DEF GapsOf
<1>7. y = [i \in 1 .. (N + 1) |-> gap(longer[i])]  BY <1>2, <1>3, <1>5 DEF GapsOf
<1>8. PICK last : last = gap(fill)  OBVIOUS
<1>9. PICK S : S = {gap(longer[i]) : i \in 1 .. (N + 1)}  OBVIOUS
<1>10. N \in Nat /\ (\A i \in 1 .. N : longer[i] = fills[i]) /\ longer[N + 1] = fill
  BY <1>2, <1>3
<1> HIDE DEF gap
<1>11. x \in Seq(S) /\ Len(x) = N
  <2>1. \A i \in 1 .. N : gap(fills[i]) \in S
    <3> SUFFICES ASSUME NEW i \in 1 .. N PROVE gap(fills[i]) \in S  OBVIOUS
    <3>1. i \in 1 .. (N + 1) /\ longer[i] = fills[i]  BY <1>10
    <3> QED  BY <1>9, <3>1
  <2>2. x \in [1 .. N -> S]  BY <1>6, <2>1
  <2>3. x \in Seq(S)  BY <1>10, <2>2, SeqDef
  <2>4. DOMAIN x = 1 .. N /\ DOMAIN x = 1 .. Len(x) /\ Len(x) \in Nat
    BY <2>2, <2>3, LenProperties
  <2> QED  BY <1>10, <2>3, <2>4
<1>12. last \in S
  <2>1. N + 1 \in 1 .. (N + 1)  BY <1>10
  <2> QED  BY <1>8, <1>9, <1>10, <2>1
<1>13. y = Append(x, last)
  <2>1. PICK z : z = Append(x, last)  OBVIOUS
  <2>2. /\ z \in Seq(S) /\ Len(z) = N + 1 /\ DOMAIN z = 1 .. Len(z)
        /\ \A i \in 1 .. N : z[i] = x[i]
        /\ z[N + 1] = last
    BY <1>11, <1>12, <2>1, LenProperties, AppendProperties
  <2>3. ASSUME NEW i \in 1 .. (N + 1) PROVE y[i] = z[i]
    <3>1. CASE i \in 1 .. N  BY <1>6, <1>7, <1>10, <2>2, <3>1
    <3>2. CASE i = N + 1  BY <1>7, <1>8, <1>10, <2>2, <3>2
    <3> QED  BY <1>10, <3>1, <3>2
  <2>4. y = [i \in 1 .. (N + 1) |-> y[i]] /\ z = [i \in 1 .. (N + 1) |-> z[i]]
    <3>1. z = [i \in DOMAIN z |-> z[i]]  BY <2>2
    <3> QED  BY <1>7, <2>2, <3>1
  <2> QED  BY <2>1, <2>3, <2>4
<1>14. QtySum(y) = QtySum(x) + last.qty  BY <1>11, <1>12, <1>13, SumOnAppend
<1>15. last.qty = Distance(get(b, fill.maker_order_id).price, price) * fill.filled_qty
  BY <1>8 DEF gap
<1> QED  BY <1>1, <1>4, <1>5, <1>14, <1>15

\* A maker is hit.
Hits(x, y, maker, filled) ==
    /\ filled \in Nat /\ filled <= x.unfilled_qty /\ filled <= maker.qty
    /\ maker.qty > 0 => filled > 0
    /\ y.fills = Append(x.fills, FillDelta(maker, filled))
    /\ y.filled_notional = x.filled_notional + maker.price * filled
    /\ y.unfilled_qty = x.unfilled_qty - filled

Misses(x, y) ==
    /\ y.fills = x.fills /\ y.filled_notional = x.filled_notional
    /\ y.unfilled_qty = x.unfilled_qty

\* A maker is hit or missed.
LEMMA HitOrMissed ==
  ASSUME NEW taken \in TakerState, NEW maker \in Order, NEW side, NEW limit,
         NEW then, then = TakeFrom(taken, maker, side, limit)
  PROVE  Misses(taken, then) \/ \E filled : Hits(taken, then, maker, filled)
<1>1. taken.unfilled_qty \in Nat /\ maker.qty \in Nat  BY OrderNumbers DEF TakerState
<1>2. CASE taken.unfilled_qty = 0 \/ taken.limit_stopped
  <2>1. then = taken  BY <1>2, Zenon DEF TakeFrom
  <2> QED  BY <2>1 DEF Misses
<1>3. CASE ~(taken.unfilled_qty = 0 \/ taken.limit_stopped)
  <2>1. CASE ~limit_allows(side, maker.price, limit)
    <3>1. then = [taken EXCEPT !.limit_stopped = TRUE]  BY <1>3, <2>1, Zenon DEF TakeFrom
    <3>2. /\ then.filled_notional = taken.filled_notional /\ then.fills = taken.fills
          /\ then.unfilled_qty = taken.unfilled_qty
      BY <3>1 DEF TakerState
    <3> QED  BY <3>2 DEF Misses
  <2>2. CASE limit_allows(side, maker.price, limit)
    <3>1. PICK filled : filled = IF taken.unfilled_qty < maker.qty
                                 THEN taken.unfilled_qty ELSE maker.qty
      OBVIOUS
    <3>2. PICK fill : fill = FillDelta(maker, filled)  OBVIOUS
    <3>3. then = [taken EXCEPT !.fills = Append(@, fill),
                               !.filled_notional = @ + maker.price * filled,
                               !.unfilled_qty = @ - filled]
      BY <1>3, <2>2, <3>1, <3>2 DEF TakeFrom
    <3>4. /\ then.unfilled_qty = taken.unfilled_qty - filled
          /\ then.fills = Append(taken.fills, fill)
          /\ then.filled_notional = taken.filled_notional + maker.price * filled
      BY <3>3 DEF TakerState
    <3>5. /\ filled \in Nat /\ filled <= taken.unfilled_qty /\ filled <= maker.qty
          /\ maker.qty > 0 => filled > 0
      BY <1>1, <1>3, <3>1
    <3>6. Hits(taken, then, maker, filled)  BY <3>2, <3>4, <3>5 DEF Hits
    <3> QED  BY <3>6
  <2> QED  BY <2>1, <2>2
<1> QED  BY <1>2, <1>3

\* What was paid for a quantity is the price for all of it, but for the gaps.
Balanced(side, price, quantity, gaps, notional) ==
    /\ side = "Bid" => price * quantity + gaps = notional
    /\ side = "Ask" => notional + gaps = price * quantity

\* One more fill, as plain numbers.
LEMMA OneMorePaid ==
  ASSUME NEW side \in Side, NEW price \in Nat, NEW at \in Nat, ~Better(Opposite(side), at, price),
         NEW k \in Nat, NEW filled \in Nat, NEW gaps \in Nat, NEW notional \in Nat,
         Balanced(side, price, k, gaps, notional),
         NEW more, more = gaps + Distance(at, price) * filled,
         NEW all, all = k + filled, NEW paid, paid = notional + at * filled
  PROVE  more \in Nat /\ Balanced(side, price, all, more, paid)
<1>a. PICK gap : gap = Distance(at, price) * filled  OBVIOUS
<1>b. more = gaps + gap  BY <1>a
<1>1. price * (k + filled) = price * k + price * filled
  BY ONLY price \in Nat, k \in Nat, filled \in Nat
<1>2. price * k \in Nat /\ price * filled \in Nat /\ at * filled \in Nat
  BY ONLY price \in Nat, k \in Nat, filled \in Nat, at \in Nat
<1>3. PICK c : c = price * k  OBVIOUS
<1>4. PICK d : d = price * filled  OBVIOUS
<1>5. PICK e : e = at * filled  OBVIOUS
<1>6. CASE side = "Bid"
  <2>1. at >= price  BY <1>6 DEF Better, Opposite
  <2>2. PICK h : h = at - price  OBVIOUS
  <2>3. h \in Nat /\ at = price + h /\ Distance(at, price) = h
    BY <2>1, <2>2 DEF Distance
  <2>4. at * filled = price * filled + h * filled /\ h * filled \in Nat
    BY ONLY <2>3, price \in Nat, filled \in Nat
  <2>5. gap = h * filled /\ gap \in Nat  BY <1>a, <2>3, <2>4
  <2>6. e = d + gap  BY <1>4, <1>5, <2>4, <2>5
  <2>7. c + gaps = notional  BY <1>3, <1>6 DEF Balanced
  <2>8. c \in Nat /\ d \in Nat  BY <1>2, <1>3, <1>4
  <2>9. (c + d) + (gaps + gap) = notional + e
    BY ONLY <2>5, <2>6, <2>7, <2>8, gaps \in Nat
  <2>10. price * all = c + d /\ paid = notional + e  BY <1>1, <1>3, <1>4, <1>5
  <2>11. more \in Nat  BY <1>b, <2>5
  <2> QED  BY <1>b, <1>6, <2>9, <2>10, <2>11 DEF Balanced
<1>7. CASE side = "Ask"
  <2>1. at <= price  BY <1>7 DEF Better, Opposite
  <2>2. PICK h : h = price - at  OBVIOUS
  <2>3. h \in Nat /\ price = at + h /\ Distance(at, price) = h
    BY <2>1, <2>2 DEF Distance
  <2>4. price * filled = at * filled + h * filled /\ h * filled \in Nat
    BY ONLY <2>3, at \in Nat, filled \in Nat
  <2>5. gap = h * filled /\ gap \in Nat  BY <1>a, <2>3, <2>4
  <2>6. d = e + gap  BY <1>4, <1>5, <2>4, <2>5
  <2>7. notional + gaps = c  BY <1>3, <1>7 DEF Balanced
  <2>8. c \in Nat /\ e \in Nat  BY <1>2, <1>3, <1>5
  <2>9. (notional + e) + (gaps + gap) = c + d
    BY ONLY <2>5, <2>6, <2>7, <2>8, gaps \in Nat, notional \in Nat
  <2>10. price * all = c + d /\ paid = notional + e  BY <1>1, <1>3, <1>4, <1>5
  <2>11. more \in Nat  BY <1>b, <2>5
  <2> QED  BY <1>b, <1>7, <2>9, <2>10, <2>11 DEF Balanced
<1> QED  BY <1>6, <1>7 DEF Side

\* A match accounts for what it paid: it filled something where it has fills,
\* and paid the price for all of it but for the gaps.
Accounted(b, side, qty, price, w) ==
    /\ w.unfilled_qty <= qty
    /\ w.fills = <<>> <=> w.unfilled_qty = qty
    /\ QtySum(GapsOf(b, w.fills, price)) \in Nat
    /\ Balanced(side, price, qty - w.unfilled_qty, QtySum(GapsOf(b, w.fills, price)),
                w.filled_notional)

\* Nothing was paid for nothing.
LEMMA NothingAccounted ==
  ASSUME NEW b, NEW side \in Side, NEW qty \in Nat, NEW price \in Nat
  PROVE  Accounted(b, side, qty, price, NothingTaken(qty))
<1>1. PICK w : w = NothingTaken(qty)  OBVIOUS
<1>2. w.fills = <<>> /\ w.filled_notional = 0 /\ w.unfilled_qty = qty
  BY <1>1 DEF NothingTaken
<1>3. GapsOf(b, w.fills, price) = <<>>
  <2>1. DOMAIN w.fills = {}  BY <1>2
  <2>2. GapsOf(b, w.fills, price) = [i \in {} |->
          [qty |-> Distance(get(b, w.fills[i].maker_order_id).price, price) * w.fills[i].filled_qty]]
    BY <2>1 DEF GapsOf
  <2> QED  BY <2>2
<1>4. QtySum(GapsOf(b, w.fills, price)) = 0  BY <1>3, SumNothing
<1>5. qty - w.unfilled_qty = 0 /\ price * 0 = 0 /\ w.unfilled_qty <= qty  BY <1>2
<1>6. Accounted(b, side, qty, price, w)  BY <1>2, <1>4, <1>5 DEF Accounted, Balanced
<1> QED  BY <1>1, <1>6

\* One maker more is accounted for.
LEMMA OneMoreAccounted ==
  ASSUME NEW b, NEW side \in Side, NEW qty \in Nat, NEW limit, NEW price \in Nat,
         NEW w \in TakerState, Accounted(b, side, qty, price, w),
         NEW maker \in Order, maker.qty > 0, get(b, maker.id).price = maker.price,
         ~Better(Opposite(side), maker.price, price),
         NEW then, then = TakeFrom(w, maker, side, limit)
  PROVE  Accounted(b, side, qty, price, then)
<1>1. CASE Misses(w, then)  BY <1>1 DEF Misses, Accounted
<1>2. ASSUME NEW filled, Hits(w, then, maker, filled)
      PROVE  Accounted(b, side, qty, price, then)
  <2>1. /\ filled \in Nat /\ filled <= w.unfilled_qty /\ filled <= maker.qty /\ filled > 0
        /\ then.fills = Append(w.fills, FillDelta(maker, filled))
        /\ then.filled_notional = w.filled_notional + maker.price * filled
        /\ then.unfilled_qty = w.unfilled_qty - filled
    BY <1>2 DEF Hits
  <2>2. maker.qty \in Nat /\ maker.price \in Nat  BY OrderNumbers
  <2>3. PICK fill : fill = FillDelta(maker, filled)  OBVIOUS
  <2>4. fill \in Fill
    <3>1. filled \in 0 .. maker.qty  BY <2>1, <2>2
    <3> QED  BY <2>3, <3>1, FillsAreFills
  <2>5. fill.maker_order_id = maker.id /\ fill.filled_qty = filled  BY <2>3 DEF FillDelta
  <2>6. /\ w.fills \in Seq(Fill) /\ w.unfilled_qty \in Nat /\ w.filled_notional \in Nat
    BY DEF TakerState
  <2>7. PICK at : at = maker.price  OBVIOUS
  <2>9. PICK gaps : gaps = QtySum(GapsOf(b, w.fills, price))  OBVIOUS
  <2>10. PICK more : more = QtySum(GapsOf(b, then.fills, price))  OBVIOUS
  <2>11. more = gaps + Distance(at, price) * filled
    <3>1. then.fills = Append(w.fills, fill)  BY <2>1, <2>3
    <3>2. QtySum(GapsOf(b, Append(w.fills, fill), price))
            = QtySum(GapsOf(b, w.fills, price))
              + Distance(get(b, fill.maker_order_id).price, price) * fill.filled_qty
      BY <2>4, <2>6, GapOnAppend
    <3>3. Distance(get(b, fill.maker_order_id).price, price) * fill.filled_qty
            = Distance(at, price) * filled
      BY <2>5, <2>7
    <3> QED  BY <2>9, <2>10, <3>1, <3>2, <3>3
  <2>12. PICK u : u = w.unfilled_qty  OBVIOUS
  <2>13. PICK notional : notional = w.filled_notional  OBVIOUS
  <2>14. PICK k : k = qty - u  OBVIOUS
  <2>15. u <= qty  BY <2>12 DEF Accounted
  <2>16. u \in Nat /\ notional \in Nat /\ k \in Nat /\ gaps \in Nat /\ at \in Nat
    <3>1. u \in Nat /\ notional \in Nat  BY <2>6, <2>12, <2>13
    <3>2. gaps \in Nat  BY <2>9 DEF Accounted
    <3> QED  BY <2>2, <2>7, <2>14, <2>15, <3>1, <3>2
  <2>17. Balanced(side, price, k, gaps, notional)
    BY <2>9, <2>12, <2>13, <2>14 DEF Accounted
  <2>18. ~Better(Opposite(side), at, price)  BY <2>7
  <2>19. PICK all, paid : all = k + filled /\ paid = notional + at * filled  OBVIOUS
  <2>20. more \in Nat /\ Balanced(side, price, all, more, paid)
    BY ONLY side \in Side, price \in Nat, <2>1, <2>11, <2>16, <2>17, <2>18, <2>19, OneMorePaid
  <2>21. qty - (u - filled) = all /\ u - filled <= qty /\ u - filled # qty
    BY ONLY qty \in Nat, <2>1, <2>12, <2>14, <2>15, <2>16, <2>19
  <2>22. then.unfilled_qty = u - filled /\ then.filled_notional = paid
    BY <2>1, <2>7, <2>12, <2>13, <2>19
  <2>23. then.fills # <<>>
    <3>1. Len(then.fills) = Len(w.fills) + 1 /\ Len(w.fills) \in Nat
      BY <2>1, <2>3, <2>4, <2>6
    <3>2. Len(then.fills) # 0  BY <3>1
    <3> QED  BY <3>2
  <2> QED  BY <2>10, <2>20, <2>21, <2>22, <2>23 DEF Accounted
<1>3. Misses(w, then) \/ \E filled : Hits(w, then, maker, filled)  BY HitOrMissed
<1> QED  BY <1>1, <1>2, <1>3

\* The prices that the makers have in the book, none better than the price.
PricedFrom(b, side, price, s) ==
    \A i \in DOMAIN s : /\ s[i].qty > 0 /\ get(b, s[i].id).price = s[i].price
                        /\ ~Better(Opposite(side), s[i].price, price)

\* A whole walk is accounted for.
LEMMA GapsAddUp ==
  ASSUME NEW b, NEW side \in Side, NEW qty \in Nat, NEW limit, NEW price \in Nat,
         NEW makers \in Seq(Order), PricedFrom(b, side, price, makers)
  PROVE  Accounted(b, side, qty, price, Walk(makers, side, qty, limit))
<1> DEFINE Fine(s) == Accounted(b, side, qty, price, Walk(s, side, qty, limit))
           T == {s \in Seq(Order) : PricedFrom(b, side, price, s) => Fine(s)}
<1>1. <<>> \in T
  <2>1. Walk(<<>>, side, qty, limit) = NothingTaken(qty)  BY MetNothing
  <2>2. <<>> \in Seq(Order)  OBVIOUS
  <2>3. Fine(<<>>)  BY <2>1, NothingAccounted
  <2> QED  BY <2>2, <2>3
<1>2. ASSUME NEW s \in Seq(Order), NEW o \in Order, s \in T PROVE Append(s, o) \in T
  <2>1. PICK longer : longer = Append(s, o)  OBVIOUS
  <2>2. /\ longer \in Seq(Order) /\ Len(s) \in Nat /\ DOMAIN s = 1 .. Len(s)
        /\ DOMAIN longer = 1 .. (Len(s) + 1)
        /\ \A i \in 1 .. Len(s) : longer[i] = s[i]
        /\ longer[Len(s) + 1] = o
    BY <2>1, LenProperties, AppendProperties
  <2> SUFFICES ASSUME PricedFrom(b, side, price, longer) PROVE Fine(longer)
    BY <2>1, <2>2
  <2>3. /\ o.qty > 0 /\ get(b, o.id).price = o.price
        /\ ~Better(Opposite(side), o.price, price)
    <3>1. Len(s) + 1 \in DOMAIN longer  BY <2>2
    <3> QED  BY <2>2, <3>1 DEF PricedFrom
  <2>4. \A i \in DOMAIN s : i \in DOMAIN longer /\ longer[i] = s[i]  BY <2>2
  <2>5. PricedFrom(b, side, price, s)  BY <2>4 DEF PricedFrom
  <2>6. PICK w : w = Walk(s, side, qty, limit)  OBVIOUS
  <2>7. w \in TakerState
    <3>1. \A i \in DOMAIN s : s[i].qty > 0  BY <2>5 DEF PricedFrom
    <3> QED  BY <2>6, <3>1, WalkProgress
  <2>8. Accounted(b, side, qty, price, w)  BY <1>2, <2>5, <2>6
  <2>9. PICK v : v = TakeFrom(w, o, side, limit)  OBVIOUS
  <2>10. Walk(longer, side, qty, limit) = v  BY <2>1, <2>6, <2>9, MetOnAppend
  <2>11. Accounted(b, side, qty, price, v)
    BY <2>3, <2>7, <2>8, <2>9, OneMoreAccounted
  <2> QED  BY <2>10, <2>11
<1>3. Seq(Order) \subseteq T
  <2> HIDE DEF T
  <2> QED  BY <1>1, <1>2, ListsByInduction
<1> QED  BY <1>3

\* The makers of a side have the prices of the book, and the first has the best.
LEMMA PricedFromBest ==
  ASSUME NEW b, SoundBook(b), IsFiniteSet(RestingIds(b)), NEW side \in Side,
         NEW M, M = SideOrders(b, Opposite(side)), M # <<>>,
         NEW price, price = M[1].price
  PROVE  /\ price \in Nat /\ reference_price(b, side) = {price}
         /\ PricedFrom(b, side, price, M)
<1>1. PICK makers : makers = Opposite(side)  OBVIOUS
<1>2. makers \in Side  BY <1>1 DEF Opposite, Side
<1>3. PICK best : best = depth(b, makers)  OBVIOUS
<1>4. M = SideOrders(b, makers)  BY <1>1
<1>5. best # <<>>  BY <1>2, <1>3, <1>4, NoPricesNoOrders
<1>6. Listing(M, b, {makers} \X Price) /\ Sorted(M, makers)
  BY <1>2, <1>4, SideIsListed, SideIsSorted
<1>7. M \in Seq(Order) /\ \A i \in DOMAIN M : M[i].qty > 0
  BY <1>2, <1>4, SideHasQuantities
<1>8. 1 \in DOMAIN M /\ \A i \in DOMAIN M : i # 1 => 1 < i
  <2>1. Len(M) \in Nat /\ DOMAIN M = 1 .. Len(M)  BY <1>7, LenProperties
  <2>2. Len(M) # 0  BY <1>7, EmptySeq
  <2> QED  BY <2>1, <2>2
<1>9. \A i \in DOMAIN M : M[i] = get(b, M[i].id)  BY <1>6 DEF Listing
<1>10. price \in Nat
  <2>1. M[1] \in Order  BY <1>7, <1>8, LenProperties, ElementOfSeq
  <2> QED  BY <2>1, OrderNumbers
<1>11. ASSUME NEW i \in DOMAIN M PROVE ~Better(makers, M[i].price, price)
  <2>1. CASE i = 1  BY <1>10, <2>1 DEF Better
  <2>2. CASE i # 1  BY <1>6, <1>8, <2>2 DEF Sorted
  <2> QED  BY <2>1, <2>2
<1>12. PricedFrom(b, side, price, M)  BY <1>1, <1>7, <1>9, <1>11 DEF PricedFrom
<1>13. price = best[1]
  <2>1. PICK run : InTurn(b, makers, best, run)  BY <1>2, <1>3, <1>5, QueuesInTurn
  <2>2. /\ Len(best) \in Nat /\ Len(best) # 0 /\ DOMAIN best = 1 .. Len(best)
        /\ run[1] = b[<<makers, best[1]>>]
    BY <2>1, Zenon DEF InTurn
  <2>3. 1 \in 1 .. Len(best) /\ 1 \in DOMAIN best  BY <2>2
  <2>4. PICK x : x = run[1]  OBVIOUS
  <2>5. x \in Seq(Order) /\ \A m \in DOMAIN x : \E i \in 1 .. 1 : x[m].price = best[i]
    BY <2>1, <2>3, <2>4, FirstTurns
  <2>6. x # <<>>
    <3>1. x = b[<<makers, best[1]>>]  BY <2>2, <2>4
    <3>2. LevelAt(x, best[1])  BY <1>2, <1>3, <2>3, <3>1, LevelsHaveOrders
    <3> QED  BY <3>2 DEF LevelAt
  <2>7. PICK y : y \in Seq(Order) /\ M = x \o y
    <3>1. \E y : EndsWith(b, makers, best, run, 1, y)  BY <2>1, <2>3, LastTurns
    <3> QED  BY <1>4, <2>4, <3>1 DEF EndsWith
  <2>8. Chained(x, y, M)  BY <2>5, <2>7, BothLists
  <2>9. 1 \in DOMAIN x /\ 1 <= Len(x)
    <3>1. Len(x) \in Nat /\ DOMAIN x = 1 .. Len(x)  BY <2>5, LenProperties
    <3>2. Len(x) # 0  BY <2>5, <2>6, EmptySeq
    <3> QED  BY <3>1, <3>2
  <2>10. M[1] = x[1]  BY <1>8, <2>8, <2>9 DEF Chained
  <2>11. x[1].price = best[1]  BY <2>5, <2>9
  <2> QED  BY <2>10, <2>11
<1>14. reference_price(b, side) = {price}
  BY <1>1, <1>3, <1>5, <1>13 DEF reference_price
<1> QED  BY <1>10, <1>12, <1>14

\* What was paid beyond the best price is what the gaps add up to.
LEMMA SlippageIsGaps ==
  ASSUME NEW side \in Side, NEW price \in Nat, NEW filled \in Nat, NEW gaps \in Nat,
         NEW notional \in Nat, Balanced(side, price, filled, gaps, notional)
  PROVE  slippage_notional(side, notional, price * filled) = gaps
<1>1. PICK c : c = price * filled  OBVIOUS
<1>2. c \in Nat
  <2>1. price * filled \in Nat  BY ONLY price \in Nat, filled \in Nat
  <2> QED  BY <1>1, <2>1
<1>3. CASE side = "Bid"
  <2>1. c + gaps = notional  BY <1>1, <1>3 DEF Balanced
  <2>2. saturating_sub(notional, c) = gaps  BY <1>2, <2>1 DEF saturating_sub
  <2> QED  BY <1>1, <1>3, <2>2 DEF slippage_notional
<1>4. CASE side = "Ask"
  <2>1. notional + gaps = c  BY <1>1, <1>4 DEF Balanced
  <2>2. saturating_sub(c, notional) = gaps  BY <1>2, <2>1 DEF saturating_sub
  <2> QED  BY <1>1, <1>4, <2>2 DEF slippage_notional
<1> QED  BY <1>3, <1>4 DEF Side

\* What is promised of an estimate: the match, where no total has wrapped.
Promised(estimate, taken, qty, gaps, exact) ==
    /\ estimate.filled_qty <= qty - taken.unfilled_qty
    /\ exact =>
         /\ estimate.filled_qty = qty - taken.unfilled_qty
         /\ estimate.filled_notional = taken.filled_notional
         /\ estimate.limit_stopped = taken.limit_stopped
         /\ estimate.exhausted_book = exhausted_book(taken)
         /\ estimate.slippage_notional = IF gaps = <<>> THEN {} ELSE {QtySum(gaps)}

\* The promise is kept in any sound book.
LEMMA EstimateFits ==
  ASSUME NEW b, SoundBook(b), IsFiniteSet(RestingIds(b)), NEW side \in Side,
         NEW qty \in Nat, NEW limit \in Nat,
         NEW taken, taken = match_taker_order(b, side, qty, limit),
         NEW first, first = get(b, taken.fills[1].maker_order_id).price,
         NEW gaps, gaps = GapsOf(b, taken.fills, first),
         NEW exact, exact => \A price \in Price : QtySum(b[<<Opposite(side), price>>]) < QtyLimit
  PROVE  Promised(estimate_slippage(b, side, qty, limit), taken, qty, gaps, exact)
<1>1. PICK f : f = WalkTotals(b, side, qty, limit)  OBVIOUS
<1>2. Foresees(f, taken, exact)  BY <1>1, WalkForeseen
<1>3. f \in TakerState /\ LagsBehind(f, taken) /\ (exact => Alike(f, taken))
  BY <1>2 DEF Foresees
<1>4. PICK M : M = SideOrders(b, Opposite(side))  OBVIOUS
<1>5. M \in Seq(Order) /\ \A i \in DOMAIN M : M[i].qty > 0
  <2>1. Opposite(side) \in Side  BY DEF Opposite, Side
  <2> QED  BY <1>4, <2>1, SideHasQuantities
<1>6. taken = Walk(M, side, qty, limit)  BY <1>4 DEF match_taker_order
<1>7. taken \in TakerState  BY <1>5, <1>6, WalkProgress
<1>8. PICK u, v : u = f.unfilled_qty /\ v = taken.unfilled_qty  OBVIOUS
<1>9. u \in Nat /\ v \in Nat /\ u >= v  BY <1>3, <1>7, <1>8 DEF TakerState, LagsBehind
<1>10. PICK e : e = estimate_slippage(b, side, qty, limit)  OBVIOUS
<1>11. /\ e.filled_qty = qty - u /\ e.filled_notional = f.filled_notional
       /\ e.limit_stopped = f.limit_stopped
       /\ e.exhausted_book = (u > 0 /\ ~f.limit_stopped)
       /\ e.slippage_notional =
            IF qty - u = 0 THEN {}
            ELSE {slippage_notional(side, f.filled_notional, reference * (qty - u)) :
                    reference \in reference_price(b, side)}
  BY <1>1, <1>8, <1>10 DEF estimate_slippage
<1>12. e.filled_qty <= qty - v  BY <1>9, <1>11
<1>13. ASSUME exact
       PROVE  /\ e.filled_qty = qty - v /\ e.filled_notional = taken.filled_notional
              /\ e.limit_stopped = taken.limit_stopped
              /\ e.exhausted_book = exhausted_book(taken)
              /\ e.slippage_notional = IF gaps = <<>> THEN {} ELSE {QtySum(gaps)}
  <2>1. /\ u = v /\ f.filled_notional = taken.filled_notional
        /\ f.limit_stopped = taken.limit_stopped
    BY <1>3, <1>8, <1>13 DEF Alike
  <2>2. e.exhausted_book = exhausted_book(taken)
    BY <1>8, <1>11, <2>1 DEF exhausted_book
  <2>3. DOMAIN gaps = DOMAIN taken.fills  BY DEF GapsOf
  <2>4. PICK k : k = qty - v  OBVIOUS
  <2>5. PICK notional : notional = taken.filled_notional  OBVIOUS
  <2>6. e.slippage_notional = IF k = 0 THEN {}
                              ELSE {slippage_notional(side, notional, reference * k) :
                                      reference \in reference_price(b, side)}
    BY <1>11, <2>1, <2>4, <2>5
  <2>7. CASE M = <<>>
    <3>1. taken = NothingTaken(qty)  BY <1>6, <2>7, MetNothing
    <3>2. taken.fills = <<>> /\ v = qty  BY <1>8, <3>1 DEF NothingTaken
    <3>3. DOMAIN gaps = {}  BY <2>3, <3>2
    <3>4. gaps = <<>>
      <4>1. gaps = [i \in {} |-> gaps[i]]  BY <3>3 DEF GapsOf
      <4> QED  BY <4>1
    <3>5. k = 0  BY <2>4, <3>2
    <3> QED  BY <1>11, <2>1, <2>2, <2>6, <3>4, <3>5
  <2>8. CASE M # <<>>
    <3>1. PICK price : price = M[1].price  OBVIOUS
    <3>2. price \in Nat /\ reference_price(b, side) = {price} /\ PricedFrom(b, side, price, M)
      BY <1>4, <2>8, <3>1, PricedFromBest
    <3>3. Accounted(b, side, qty, price, taken)  BY <1>5, <1>6, <3>2, GapsAddUp
    <3>4. PICK sum : sum = QtySum(GapsOf(b, taken.fills, price))  OBVIOUS
    <3>5. /\ v <= qty /\ (taken.fills = <<>> <=> v = qty) /\ sum \in Nat
          /\ Balanced(side, price, k, sum, notional)
      BY <1>8, <2>4, <2>5, <3>3, <3>4 DEF Accounted
    <3>6. CASE taken.fills = <<>>
      <4>1. k = 0  BY <2>4, <3>5, <3>6
      <4>2. gaps = <<>>
        <5>1. DOMAIN gaps = {}  BY <2>3, <3>6
        <5>2. gaps = [i \in {} |-> gaps[i]]  BY <5>1 DEF GapsOf
        <5> QED  BY <5>2
      <4> QED  BY <1>11, <2>1, <2>2, <2>6, <4>1, <4>2
    <3>7. CASE taken.fills # <<>>
      <4>1. k \in Nat /\ k # 0  BY <1>9, <2>4, <3>5, <3>7
      <4>2. HitsInTurn(M, side, qty, limit, taken.fills)
        <5>1. PICK fills : fills = Walk(M, side, qty, limit).fills  OBVIOUS
        <5>2. HitsInTurn(M, side, qty, limit, fills)  BY <1>5, <5>1, MatchHitsInTurn
        <5> QED  BY <1>6, <5>1, <5>2
      <4>3. 1 \in 1 .. Len(taken.fills) /\ DOMAIN taken.fills = 1 .. Len(taken.fills)
            /\ Len(taken.fills) \in Nat /\ Len(taken.fills) <= Len(M)
        <5>1. Len(taken.fills) \in Nat /\ DOMAIN taken.fills = 1 .. Len(taken.fills)
              /\ Len(taken.fills) <= Len(M)
          BY <4>2 DEF HitsInTurn
        <5>2. taken.fills \in Seq(Fill)  BY <1>7 DEF TakerState
        <5>3. Len(taken.fills) # 0  BY <3>7, <5>2, EmptySeq
        <5> QED  BY <5>1, <5>3
      <4>4. taken.fills[1].maker_order_id = M[1].id  BY <4>2, <4>3 DEF HitsInTurn
      <4>5. get(b, M[1].id).price = price
        <5>1. Len(M) \in Nat /\ DOMAIN M = 1 .. Len(M)  BY <1>5, LenProperties
        <5>2. 1 \in DOMAIN M  BY <4>3, <5>1
        <5> QED  BY <3>1, <3>2, <5>2 DEF PricedFrom
      <4>6. first = price  BY <4>4, <4>5
      <4>7. QtySum(gaps) = sum  BY <3>4, <4>6
      <4>8. gaps # <<>>
        <5>1. 1 \in DOMAIN gaps  BY <2>3, <4>3
        <5>2. DOMAIN <<>> = {}  OBVIOUS
        <5> QED  BY <5>1, <5>2
      <4>9. notional \in Nat  BY <1>7, <2>5 DEF TakerState
      <4>10. slippage_notional(side, notional, price * k) = sum
        BY <3>2, <3>5, <4>1, <4>9, SlippageIsGaps
      <4>11. e.slippage_notional = {sum}  BY <2>6, <3>2, <4>1, <4>10
      <4> QED  BY <1>11, <2>1, <2>2, <2>4, <4>7, <4>8, <4>11
    <3> QED  BY <3>6, <3>7
  <2> QED  BY <2>7, <2>8
<1>14. Promised(e, taken, qty, gaps, exact)  BY <1>8, <1>12, <1>13 DEF Promised
<1> QED  BY <1>10, <1>14

\* The estimate foretells the match in every reachable state: from the totals
\* of the levels it tells what the orders will do, and never more
\* (book.rs:601-681 against 689-758).
THEOREM EstimateForetold == Spec => []EstimateForetellsTheMatch
<1>1. SimulatorInv => EstimateForetellsTheMatch
  <2> DEFINE Taken(side, qty, limit) == match_taker_order(book, side, qty, limit)
             Paid(side, qty, limit, i) ==
               get(book, Taken(side, qty, limit).fills[i].maker_order_id).price
             Gaps(side, qty, limit) ==
               [i \in DOMAIN Taken(side, qty, limit).fills |->
                  [qty |-> (IF Paid(side, qty, limit, i) > Paid(side, qty, limit, 1)
                            THEN Paid(side, qty, limit, i) - Paid(side, qty, limit, 1)
                            ELSE Paid(side, qty, limit, 1) - Paid(side, qty, limit, i))
                           * Taken(side, qty, limit).fills[i].filled_qty]]
             Exact(side) == \A price \in Price : QtySum(Makers(side, price)) < QtyLimit
  <2> SUFFICES ASSUME SimulatorInv, NEW side \in Side, NEW qty \in Qty, NEW limit \in Price
               PROVE  Promised(estimate_slippage(book, side, qty, limit),
                                Taken(side, qty, limit), qty, Gaps(side, qty, limit), Exact(side))
    BY Zenon DEF EstimateForetellsTheMatch, Promised
  <2>1. SoundBook(book) /\ IsFiniteSet(RestingIds(book))  BY DEF SimulatorInv
  <2>2. qty \in Nat /\ limit \in Nat  BY QtyLimitAssumption, PriceAssumption DEF Qty
  <2>3. PICK taken : taken = Taken(side, qty, limit)  OBVIOUS
  <2>4. PICK first : first = get(book, taken.fills[1].maker_order_id).price  OBVIOUS
  <2>5. PICK gaps : gaps = GapsOf(book, taken.fills, first)  OBVIOUS
  <2>6. Gaps(side, qty, limit) = gaps  BY <2>3, <2>4, <2>5, Zenon DEF GapsOf, Distance
  <2>7. PICK exact : exact = Exact(side)  OBVIOUS
  <2>8. exact => \A price \in Price : QtySum(book[<<Opposite(side), price>>]) < QtyLimit
    BY <2>7, Zenon DEF Makers
  <2>9. Promised(estimate_slippage(book, side, qty, limit), taken, qty, gaps, exact)
    BY <2>1, <2>2, <2>3, <2>4, <2>5, <2>8, EstimateFits
  <2> QED  BY <2>3, <2>6, <2>7, <2>9
<1> QED  BY <1>1, SimulatorSound, PTL
=============================================================================
