-------------------------- MODULE BookQueuesProofs --------------------------
(***************************************************************************)
(* Lemmas about the operations of BookQueues and BookFeeds, for every book *)
(* whose ids each rest in one place with a quantity to fill: what every    *)
(* change leaves, that such a book stays such a book, and who is ahead of  *)
(* whom afterwards; what an operation of a feed does to the order it names *)
(* and to the others; that the book's listing has every order once; and    *)
(* that adding such a list to an empty book makes the book again.          *)
(*                                                                         *)
(* A change moves at most one order, so the operations need no induction.  *)
(* The listing and the refill do: a sum of changes, one per order.  They   *)
(* go by induction on numbers, which LeastNumber gives from the            *)
(* well-foundedness of the naturals, as a set that no number can be the    *)
(* first to be missing from.  The last part is about lists of orders       *)
(* themselves: induction over their length, filtering, and that a list is  *)
(* determined by what is in it and by what comes before what.              *)
(***************************************************************************)
EXTENDS BookFeeds, SequenceTheorems, FiniteSetTheorems, WellFoundedInduction, TLAPS

\* What a queue is left with when the order at one place leaves it.
LEMMA RemoveAtEffect ==
  ASSUME NEW S, NEW s \in Seq(S), NEW i \in DOMAIN s,
         NEW r, r = Lists!RemoveAt(s, i)
  PROVE  /\ r \in Seq(S)
         /\ Len(r) = Len(s) - 1
         /\ DOMAIN r = 1 .. (Len(s) - 1)
         /\ \A j \in 1 .. (Len(s) - 1) : r[j] = IF j < i THEN s[j] ELSE s[j + 1]
<1> DEFINE n == Len(s)
           a == SubSeq(s, 1, i - 1)
           b == SubSeq(s, i + 1, n)
<1>1. n \in Nat /\ DOMAIN s = 1 .. n /\ i \in 1 .. n /\ \A j \in 1 .. n : s[j] \in S
  BY LenProperties
<1>2. /\ a \in Seq(S) /\ Len(a) = i - 1
      /\ \A j \in 1 .. i - 1 : a[j] = s[j]
  <2>1. \A j \in 1 .. i - 1 : s[j] \in S /\ 1 + j - 1 = j /\ (i - 1) - 1 + 1 = i - 1
    BY <1>1
  <2>2. /\ a \in Seq(S) /\ Len(a) = IF 1 <= i - 1 THEN (i - 1) - 1 + 1 ELSE 0
        /\ \A j \in 1 .. (i - 1) - 1 + 1 : a[j] = s[1 + j - 1]
    BY <1>1, <2>1, SubSeqProperties
  <2> HIDE DEF a
  <2> QED  BY <1>1, <2>1, <2>2
<1>3. /\ b \in Seq(S) /\ Len(b) = n - i
      /\ \A j \in 1 .. n - i : b[j] = s[i + j]
  <2>1. \A j \in i + 1 .. n : s[j] \in S
    BY <1>1
  <2>2. /\ b \in Seq(S) /\ Len(b) = IF i + 1 <= n THEN n - (i + 1) + 1 ELSE 0
        /\ \A j \in 1 .. n - (i + 1) + 1 : b[j] = s[(i + 1) + j - 1]
    BY <1>1, <2>1, SubSeqProperties
  <2>3. /\ n - (i + 1) + 1 = n - i
        /\ (IF i + 1 <= n THEN n - (i + 1) + 1 ELSE 0) = n - i
        /\ \A j \in 1 .. n - i : (i + 1) + j - 1 = i + j
    BY <1>1
  <2> HIDE DEF b
  <2> QED  BY <2>2, <2>3
<1>4. r = a \o b  BY DEF Lists!RemoveAt
<1> HIDE DEF a, b
<1>5. /\ r \in Seq(S) /\ Len(r) = Len(a) + Len(b)
      /\ \A j \in 1 .. Len(a) + Len(b) : r[j] = IF j <= Len(a) THEN a[j] ELSE b[j - Len(a)]
  <2>1. a \in Seq(S) /\ b \in Seq(S)  BY <1>2, <1>3
  <2> QED  BY ONLY <2>1, <1>4, ConcatProperties
<1>6. Len(r) = n - 1  BY <1>1, <1>2, <1>3, <1>5
<1>7. ASSUME NEW j \in 1 .. n - 1
      PROVE  r[j] = IF j < i THEN s[j] ELSE s[j + 1]
  <2>1. CASE j < i
    BY <1>1, <1>2, <1>3, <1>5, <2>1
  <2>2. CASE ~ (j < i)
    <3>1. j - (i - 1) \in 1 .. n - i /\ i + (j - (i - 1)) = j + 1 /\ ~ (j <= i - 1)
      BY <1>1, <2>2
    <3>2. r[j] = b[j - (i - 1)]  BY SMTT(30), <1>1, <1>2, <1>3, <1>5, <3>1
    <3>3. b[j - (i - 1)] = s[j + 1]  BY <1>3, <3>1
    <3> QED  BY <2>2, <3>2, <3>3
  <2> QED  BY <2>1, <2>2
<1> QED  BY <1>5, <1>6, <1>7, LenProperties

-----------------------------------------------------------------------------
(* Books whose ids each rest in one place *)

Book == [Queue -> Seq(Order)]

OneOrderPerId(b) ==
    \A k, l \in Queue : \A i \in DOMAIN b[k], j \in DOMAIN b[l] :
        /\ b[k][i].qty > 0
        /\ QueueOf(b[k][i]) = k
        /\ b[k][i].id = b[l][j].id => k = l /\ i = j

SoundBook(b) == b \in Book /\ OneOrderPerId(b)

\* The ids before a place of a queue.
Before(orders, i) == {orders[j].id : j \in 1 .. (i - 1)}

\* The queues of a book are sequences of orders.
LEMMA QueuesAreSequences ==
  ASSUME NEW b \in Book, NEW k \in Queue
  PROVE  /\ DOMAIN b = Queue
         /\ b[k] \in Seq(Order)
         /\ Len(b[k]) \in Nat
         /\ DOMAIN b[k] = 1 .. Len(b[k])
         /\ \A i \in DOMAIN b[k] : b[k][i] \in Order
<1>1. DOMAIN b = Queue /\ b[k] \in Seq(Order)  BY DEF Book
<1> QED  BY <1>1, LenProperties

\* The ids that rest are those found at some place of some queue.
LEMMA RestingMeans ==
  ASSUME NEW b \in Book, NEW id
  PROVE  id \in RestingIds(b) <=> \E k \in Queue : \E i \in DOMAIN b[k] : b[k][i].id = id
<1>1. DOMAIN b = Queue  BY DEF Book
<1> QED  BY <1>1 DEF RestingIds, Ids

\* In a sound book the place where an id is found is the place it rests at.
LEMMA RestsAt ==
  ASSUME NEW b, SoundBook(b), NEW k \in Queue, NEW i \in DOMAIN b[k],
         NEW id, id = b[k][i].id
  PROVE  /\ id \in RestingIds(b)
         /\ HomeOf(b, id) = k
         /\ PlaceIn(b[k], id) = i
         /\ get(b, id) = b[k][i]
         /\ QueueOf(get(b, id)) = k
         /\ Ahead(b, id) = Before(b[k], i)
<1>1. DOMAIN b = Queue  BY DEF SoundBook, Book
<1>2. id \in Ids(b[k])  BY DEF Ids
<1>3. id \in RestingIds(b)  BY <1>1, <1>2 DEF RestingIds
<1>4. \A l \in Queue : id \in Ids(b[l]) => l = k
  BY DEF Ids, SoundBook, OneOrderPerId
<1>5. HomeOf(b, id) = k
  BY <1>1, <1>2, <1>4 DEF HomeOf
<1>6. \A j \in DOMAIN b[k] : b[k][j].id = id => j = i
  BY DEF SoundBook, OneOrderPerId
<1>7. PlaceIn(b[k], id) = i  BY <1>6 DEF PlaceIn
<1>8. get(b, id) = b[k][i]  BY <1>5, <1>7 DEF get
<1>9. QueueOf(b[k][i]) = k  BY DEF SoundBook, OneOrderPerId
<1>10. Ahead(b, id) = Before(b[k], i)
  BY <1>7, <1>8, <1>9 DEF Ahead, Before
<1> QED  BY <1>3, <1>5, <1>7, <1>8, <1>9, <1>10

\* An id that rests has a queue and a place there.
LEMMA RestsSomewhere ==
  ASSUME NEW b, SoundBook(b), NEW id \in RestingIds(b),
         NEW k, k = HomeOf(b, id), NEW i, i = PlaceIn(b[k], id)
  PROVE  /\ k \in Queue /\ i \in DOMAIN b[k]
         /\ b[k][i].id = id
         /\ get(b, id) = b[k][i]
         /\ get(b, id) \in Order /\ get(b, id).qty > 0
         /\ QueueOf(get(b, id)) = k
<1>1. b \in Book  BY DEF SoundBook
<1>0. PICK l \in Queue : \E j \in DOMAIN b[l] : b[l][j].id = id
  BY <1>1, RestingMeans
<1>2. PICK j \in DOMAIN b[l] : b[l][j].id = id
  BY <1>0
<1>3. k = l /\ i = j /\ get(b, id) = b[l][j] /\ QueueOf(get(b, id)) = l
  BY <1>2, RestsAt
<1>4. b[l][j] \in Order  BY <1>1, <1>2, QueuesAreSequences
<1>5. b[l][j].qty > 0  BY <1>2 DEF SoundBook, OneOrderPerId
<1> QED  BY <1>2, <1>3, <1>4, <1>5

\* AppendOrder: the order is last in its queue, the other queues are as before.
LEMMA AppendEffect ==
  ASSUME NEW b \in Book, NEW order \in Order,
         NEW q, q = QueueOf(order), NEW c, c = AppendOrder(b, order)
  PROVE  /\ q \in Queue /\ c \in Book
         /\ \A k \in Queue : k # q => c[k] = b[k]
         /\ Len(c[q]) = Len(b[q]) + 1
         /\ DOMAIN c[q] = 1 .. (Len(b[q]) + 1)
         /\ \A i \in DOMAIN b[q] : c[q][i] = b[q][i]
         /\ c[q][Len(b[q]) + 1] = order
<1>1. q \in Queue  BY DEF Order, QueueOf, Queue
<1>2. /\ b[q] \in Seq(Order) /\ Len(b[q]) \in Nat /\ DOMAIN b[q] = 1 .. Len(b[q])
      /\ DOMAIN b = Queue
  BY <1>1, QueuesAreSequences
<1> DEFINE new == Append(b[q], order)
<1>3. /\ new \in Seq(Order) /\ Len(new) = Len(b[q]) + 1
      /\ \A i \in 1 .. Len(b[q]) : new[i] = b[q][i]
      /\ new[Len(b[q]) + 1] = order
      /\ DOMAIN new = 1 .. Len(new)
  BY <1>2, AppendProperties, LenProperties
<1>4. c = [b EXCEPT ![q] = new]  BY DEF AppendOrder
<1> HIDE DEF new
<1>5. c \in Book /\ c[q] = new /\ \A k \in Queue : k # q => c[k] = b[k]
  BY <1>1, <1>3, <1>4 DEF Book
<1> QED  BY <1>1, <1>2, <1>3, <1>5

\* DropOrder: the order leaves its queue, those behind it move up by one.
LEMMA DropEffect ==
  ASSUME NEW b, SoundBook(b), NEW id \in RestingIds(b),
         NEW q, q = HomeOf(b, id), NEW p, p = PlaceIn(b[q], id),
         NEW c, c = DropOrder(b, id)
  PROVE  /\ c \in Book
         /\ \A k \in Queue : k # q => c[k] = b[k]
         /\ Len(c[q]) = Len(b[q]) - 1
         /\ DOMAIN c[q] = 1 .. (Len(b[q]) - 1)
         /\ \A i \in DOMAIN c[q] : c[q][i] = IF i < p THEN b[q][i] ELSE b[q][i + 1]
<1>1. b \in Book /\ q \in Queue /\ p \in DOMAIN b[q]
  BY RestsSomewhere DEF SoundBook
<1>2. b[q] \in Seq(Order) /\ DOMAIN b = Queue  BY <1>1, QueuesAreSequences
<1> DEFINE new == Lists!RemoveAt(b[q], p)
<1>3. /\ new \in Seq(Order) /\ Len(new) = Len(b[q]) - 1
      /\ DOMAIN new = 1 .. (Len(b[q]) - 1)
      /\ \A j \in 1 .. (Len(b[q]) - 1) : new[j] = IF j < p THEN b[q][j] ELSE b[q][j + 1]
  <2>1. b[q] \in Seq(Order) /\ p \in DOMAIN b[q] /\ new = Lists!RemoveAt(b[q], p)
    BY <1>1, <1>2
  <2> HIDE DEF new
  <2>2. PICK s : s = b[q]  OBVIOUS
  <2>3. s \in Seq(Order) /\ p \in DOMAIN s /\ new = Lists!RemoveAt(s, p)
    BY <2>1, <2>2
  <2>4. new \in Seq(Order)  BY ONLY <2>3, RemoveAtEffect
  <2>5. Len(new) = Len(s) - 1  BY ONLY <2>3, RemoveAtEffect
  <2>6. DOMAIN new = 1 .. (Len(s) - 1)  BY ONLY <2>3, RemoveAtEffect
  <2>7. \A j \in 1 .. (Len(s) - 1) : new[j] = IF j < p THEN s[j] ELSE s[j + 1]
    BY ONLY <2>3, RemoveAtEffect
  <2> QED  BY ONLY <2>2, <2>4, <2>5, <2>6, <2>7
<1>4. c = [b EXCEPT ![q] = new]  BY DEF DropOrder
<1> HIDE DEF new
<1>5. c \in Book /\ c[q] = new /\ \A k \in Queue : k # q => c[k] = b[k]
  BY <1>1, <1>3, <1>4 DEF Book
<1> QED  BY <1>3, <1>5

\* Resize: every order stays where it is, and only the one's quantity changes.
LEMMA ResizeEffect ==
  ASSUME NEW b \in Book, NEW id, NEW new_qty \in Qty, NEW c, c = Resize(b, id, new_qty)
  PROVE  /\ c \in Book
         /\ \A k \in Queue :
              /\ DOMAIN c[k] = DOMAIN b[k] /\ Len(c[k]) = Len(b[k])
              /\ \A i \in DOMAIN b[k] :
                   /\ c[k][i].id = b[k][i].id
                   /\ QueueOf(c[k][i]) = QueueOf(b[k][i])
                   /\ b[k][i].id = id => c[k][i].qty = new_qty
                   /\ b[k][i].id = id => c[k][i].wallet = b[k][i].wallet
                   /\ b[k][i].id # id => c[k][i] = b[k][i]
<1> DEFINE N(k, i) == IF b[k][i].id = id THEN [b[k][i] EXCEPT !.qty = new_qty] ELSE b[k][i]
           row(k) == [i \in DOMAIN b[k] |-> N(k, i)]
<1>1. DOMAIN b = Queue  BY DEF Book
<1>2. c = [k \in Queue |-> row(k)]  BY <1>1 DEF Resize
<1>3. ASSUME NEW k \in Queue, NEW i \in DOMAIN b[k]
      PROVE  /\ N(k, i) \in Order
             /\ N(k, i).id = b[k][i].id
             /\ QueueOf(N(k, i)) = QueueOf(b[k][i])
             /\ b[k][i].id = id => N(k, i).qty = new_qty
             /\ b[k][i].id = id => N(k, i).wallet = b[k][i].wallet
             /\ b[k][i].id # id => N(k, i) = b[k][i]
  <2>1. b[k][i] \in Order  BY QueuesAreSequences
  <2> QED  BY <2>1 DEF Order, QueueOf
<1>4. ASSUME NEW k \in Queue
      PROVE  /\ row(k) \in Seq(Order)
             /\ DOMAIN row(k) = DOMAIN b[k] /\ Len(row(k)) = Len(b[k])
  <2>1. b[k] \in Seq(Order) /\ Len(b[k]) \in Nat /\ DOMAIN b[k] = 1 .. Len(b[k])
    BY QueuesAreSequences
  <2>2. \A i \in 1 .. Len(b[k]) : N(k, i) \in Order  BY <1>3, <2>1
  <2> HIDE DEF N
  <2>3. row(k) \in [1 .. Len(b[k]) -> Order]  BY <2>1, <2>2
  <2> HIDE DEF row
  <2>4. row(k) \in Seq(Order)  BY <2>1, <2>3, SeqDef
  <2>5. DOMAIN row(k) = 1 .. Len(row(k)) /\ Len(row(k)) \in Nat  BY <2>4, LenProperties
  <2>6. DOMAIN row(k) = 1 .. Len(b[k])  BY <2>3
  <2>7. Len(row(k)) = Len(b[k])  BY <2>1, <2>5, <2>6
  <2> QED  BY <2>1, <2>4, <2>6, <2>7
<1>5. \A k \in Queue : c[k] = row(k)
  <2> HIDE DEF row
  <2> QED  BY <1>2
<1>6. c \in Book
  <2> HIDE DEF row
  <2> QED  BY <1>2, <1>4 DEF Book
<1>7. \A k \in Queue : \A i \in DOMAIN b[k] : c[k][i] = N(k, i)
  <2> HIDE DEF N
  <2> QED  BY <1>5
<1>8. ASSUME NEW k \in Queue
      PROVE  DOMAIN c[k] = DOMAIN b[k] /\ Len(c[k]) = Len(b[k])
  <2> HIDE DEF row
  <2> QED  BY <1>4, <1>5
<1>9. ASSUME NEW k \in Queue, NEW i \in DOMAIN b[k]
      PROVE  /\ c[k][i].id = b[k][i].id
             /\ QueueOf(c[k][i]) = QueueOf(b[k][i])
             /\ b[k][i].id = id => c[k][i].qty = new_qty
             /\ b[k][i].id = id => c[k][i].wallet = b[k][i].wallet
             /\ b[k][i].id # id => c[k][i] = b[k][i]
  <2> HIDE DEF N
  <2> QED  BY <1>3, <1>7
<1> QED  BY <1>6, <1>8, <1>9

-----------------------------------------------------------------------------
(* Every change leaves a sound book sound *)

\* A new id behind the others of its queue (book.rs:315-339).
LEMMA AppendSound ==
  ASSUME NEW b, SoundBook(b), NEW order \in Order, order.qty > 0,
         order.id \notin RestingIds(b), NEW c, c = AppendOrder(b, order)
  PROVE  SoundBook(c) /\ RestingIds(c) = RestingIds(b) \cup {order.id}
<1> DEFINE q == QueueOf(order)
           n == Len(b[q]) + 1
<1>1. b \in Book  BY DEF SoundBook
<1>2. /\ q \in Queue /\ c \in Book
      /\ \A k \in Queue : k # q => c[k] = b[k]
      /\ DOMAIN c[q] = 1 .. n
      /\ \A i \in DOMAIN b[q] : c[q][i] = b[q][i]
      /\ c[q][n] = order
  BY <1>1, AppendEffect
<1>3. DOMAIN b[q] = 1 .. (n - 1) /\ n \in Nat \ {0}
  BY <1>1, <1>2, QueuesAreSequences
<1>4. QueueOf(order) = q  OBVIOUS
<1> HIDE DEF q, n
\* a place of the new book: the new one, or one of the old book
<1>5. ASSUME NEW k \in Queue, NEW i \in DOMAIN c[k], ~(k = q /\ i = n)
      PROVE  i \in DOMAIN b[k] /\ c[k][i] = b[k][i]
  BY <1>2, <1>3, <1>5
<1>6. \A k \in Queue : \A i \in DOMAIN b[k] : b[k][i].id # order.id
  BY <1>1, RestingMeans
<1>7. ASSUME NEW k \in Queue, NEW i \in DOMAIN c[k], NEW l \in Queue, NEW j \in DOMAIN c[l]
      PROVE  /\ c[k][i].qty > 0
             /\ QueueOf(c[k][i]) = k
             /\ c[k][i].id = c[l][j].id => k = l /\ i = j
  <2>1. CASE k = q /\ i = n
    <3>1. c[k][i] = order  BY <1>2, <2>1
    <3>2. ~(l = q /\ j = n) => c[l][j].id # order.id  BY <1>5, <1>6
    <3> QED  BY <1>4, <2>1, <3>1, <3>2
  <2>2. CASE ~(k = q /\ i = n)
    <3>1. i \in DOMAIN b[k] /\ c[k][i] = b[k][i]  BY <1>5, <2>2
    <3>2. CASE l = q /\ j = n
      <4>1. c[l][j] = order  BY <1>2, <3>2
      <4> QED  BY <1>6, <3>1, <4>1 DEF SoundBook, OneOrderPerId
    <3>3. CASE ~(l = q /\ j = n)
      <4>1. j \in DOMAIN b[l] /\ c[l][j] = b[l][j]  BY <1>5, <3>3
      <4> QED  BY <3>1, <4>1 DEF SoundBook, OneOrderPerId
    <3> QED  BY <3>2, <3>3
  <2> QED  BY <2>1, <2>2
<1>8. SoundBook(c)  BY <1>2, <1>7 DEF SoundBook, OneOrderPerId
<1>9. ASSUME NEW id PROVE id \in RestingIds(c) <=> id \in RestingIds(b) \cup {order.id}
  <2>1. ASSUME id \in RestingIds(c) PROVE id \in RestingIds(b) \cup {order.id}
    <3>1. PICK k \in Queue : \E i \in DOMAIN c[k] : c[k][i].id = id
      BY <1>2, <2>1, RestingMeans
    <3>2. PICK i \in DOMAIN c[k] : c[k][i].id = id  BY <3>1
    <3>3. CASE k = q /\ i = n  BY <1>2, <3>2, <3>3
    <3>4. CASE ~(k = q /\ i = n)  BY <1>1, <1>5, <3>2, <3>4, RestingMeans
    <3> QED  BY <3>3, <3>4
  <2>2. ASSUME id \in RestingIds(b) PROVE id \in RestingIds(c)
    <3>1. PICK k \in Queue : \E i \in DOMAIN b[k] : b[k][i].id = id
      BY <1>1, <2>2, RestingMeans
    <3>2. PICK i \in DOMAIN b[k] : b[k][i].id = id  BY <3>1
    <3>3. i \in DOMAIN c[k] /\ c[k][i] = b[k][i]  BY <1>2, <1>3
    <3> QED  BY <1>2, <3>2, <3>3, RestingMeans
  <2>3. order.id \in RestingIds(c)
    <3>1. n \in DOMAIN c[q] /\ c[q][n].id = order.id  BY <1>2, <1>3
    <3> QED  BY <1>2, <3>1, RestingMeans
  <2> QED  BY <2>1, <2>2, <2>3
<1> QED  BY <1>8, <1>9

\* One id leaves, nothing else does (book.rs:341-373).
LEMMA DropSound ==
  ASSUME NEW b, SoundBook(b), NEW id \in RestingIds(b), NEW c, c = DropOrder(b, id)
  PROVE  SoundBook(c) /\ RestingIds(c) = RestingIds(b) \ {id}
<1> DEFINE q == HomeOf(b, id)
           p == PlaceIn(b[q], id)
           old(k, i) == IF k = q /\ i >= p THEN i + 1 ELSE i
<1>1. /\ b \in Book /\ q \in Queue /\ p \in DOMAIN b[q] /\ b[q][p].id = id
  BY RestsSomewhere DEF SoundBook
<1>2. /\ c \in Book
      /\ \A k \in Queue : k # q => c[k] = b[k]
      /\ DOMAIN c[q] = 1 .. (Len(b[q]) - 1)
      /\ \A i \in DOMAIN c[q] : c[q][i] = IF i < p THEN b[q][i] ELSE b[q][i + 1]
  BY DropEffect
<1>3. Len(b[q]) \in Nat /\ DOMAIN b[q] = 1 .. Len(b[q]) /\ p \in 1 .. Len(b[q])
  BY <1>1, QueuesAreSequences
<1> HIDE DEF q, p
\* where the order at a place of the new book was
<1>4. ASSUME NEW k \in Queue, NEW i \in DOMAIN c[k]
      PROVE  /\ old(k, i) \in DOMAIN b[k] /\ c[k][i] = b[k][old(k, i)]
             /\ ~(k = q /\ old(k, i) = p)
  <2>1. CASE k # q  BY <1>2, <2>1
  <2>2. CASE k = q
    <3>1. i \in 1 .. (Len(b[q]) - 1)  BY <1>2, <2>2
    <3>2. CASE i < p  BY <1>2, <1>3, <2>2, <3>1, <3>2
    <3>3. CASE ~(i < p)
      <4>1. old(k, i) = i + 1  BY <1>3, <2>2, <3>1, <3>3
      <4>2. i + 1 \in 1 .. Len(b[q]) /\ i + 1 # p  BY <1>3, <3>1, <3>3
      <4>3. c[q][i] = b[q][i + 1]  BY <1>2, <3>1, <3>3
      <4> QED  BY <1>3, <2>2, <4>1, <4>2, <4>3
    <3> QED  BY <3>2, <3>3
  <2> QED  BY <2>1, <2>2
<1>5. ASSUME NEW k \in Queue, NEW i \in DOMAIN c[k], NEW j \in DOMAIN c[k],
             old(k, i) = old(k, j)
      PROVE  i = j
  <2>1. i \in Nat /\ j \in Nat  BY <1>2, QueuesAreSequences
  <2> QED  BY <1>3, <1>5, <2>1
<1> HIDE DEF old
<1>6. ASSUME NEW k \in Queue, NEW i \in DOMAIN c[k], NEW l \in Queue, NEW j \in DOMAIN c[l]
      PROVE  /\ c[k][i].qty > 0
             /\ QueueOf(c[k][i]) = k
             /\ c[k][i].id = c[l][j].id => k = l /\ i = j
  <2>1. /\ old(k, i) \in DOMAIN b[k] /\ c[k][i] = b[k][old(k, i)]
        /\ old(l, j) \in DOMAIN b[l] /\ c[l][j] = b[l][old(l, j)]
    BY <1>4
  <2>2. c[k][i].id = c[l][j].id => k = l /\ old(k, i) = old(l, j)
    BY <2>1 DEF SoundBook, OneOrderPerId
  <2>3. c[k][i].qty > 0 /\ QueueOf(c[k][i]) = k
    BY <2>1 DEF SoundBook, OneOrderPerId
  <2> QED  BY <1>5, <2>2, <2>3
<1>7. SoundBook(c)  BY <1>2, <1>6 DEF SoundBook, OneOrderPerId
<1>8. ASSUME NEW x PROVE x \in RestingIds(c) <=> x \in RestingIds(b) \ {id}
  <2>1. ASSUME x \in RestingIds(c) PROVE x \in RestingIds(b) \ {id}
    <3>1. PICK k \in Queue : \E i \in DOMAIN c[k] : c[k][i].id = x
      BY <1>2, <2>1, RestingMeans
    <3>2. PICK i \in DOMAIN c[k] : c[k][i].id = x  BY <3>1
    <3>3. old(k, i) \in DOMAIN b[k] /\ b[k][old(k, i)].id = x /\ ~(k = q /\ old(k, i) = p)
      BY <1>4, <3>2
    <3>4. x # id  BY <1>1, <3>3 DEF SoundBook, OneOrderPerId
    <3> QED  BY <1>1, <3>3, <3>4, RestingMeans
  <2>2. ASSUME x \in RestingIds(b), x # id PROVE x \in RestingIds(c)
    <3>1. PICK k \in Queue : \E i \in DOMAIN b[k] : b[k][i].id = x
      BY <1>1, <2>2, RestingMeans
    <3>2. PICK i \in DOMAIN b[k] : b[k][i].id = x  BY <3>1
    <3>3. CASE k # q
      BY <1>2, <3>2, <3>3, RestingMeans
    <3>4. CASE k = q
      <4>1. i \in 1 .. Len(b[q]) /\ i # p  BY <1>1, <1>3, <2>2, <3>2, <3>4
      <4>2. CASE i < p
        <5>1. i \in DOMAIN c[q] /\ c[q][i] = b[q][i]  BY <1>2, <1>3, <4>1, <4>2
        <5> QED  BY <1>1, <1>2, <3>2, <3>4, <5>1, RestingMeans
      <4>3. CASE ~(i < p)
        <5>1. i - 1 \in 1 .. (Len(b[q]) - 1) /\ ~(i - 1 < p) /\ (i - 1) + 1 = i
          BY <1>3, <4>1, <4>3
        <5>2. i - 1 \in DOMAIN c[q] /\ c[q][i - 1] = b[q][i]  BY <1>2, <5>1
        <5> QED  BY <1>1, <1>2, <3>2, <3>4, <5>2, RestingMeans
      <4> QED  BY <4>2, <4>3
    <3> QED  BY <3>3, <3>4
  <2> QED  BY <2>1, <2>2
<1> QED  BY <1>7, <1>8

\* A new quantity above zero, in place (book.rs:375-402).
LEMMA ResizeSound ==
  ASSUME NEW b, SoundBook(b), NEW id, NEW new_qty \in Qty, new_qty > 0,
         NEW c, c = Resize(b, id, new_qty)
  PROVE  SoundBook(c) /\ RestingIds(c) = RestingIds(b)
<1>1. b \in Book  BY DEF SoundBook
<1>2. /\ c \in Book
      /\ \A k \in Queue :
           /\ DOMAIN c[k] = DOMAIN b[k]
           /\ \A i \in DOMAIN b[k] :
                /\ c[k][i].id = b[k][i].id
                /\ QueueOf(c[k][i]) = QueueOf(b[k][i])
                /\ b[k][i].id = id => c[k][i].qty = new_qty
                /\ b[k][i].id # id => c[k][i].qty = b[k][i].qty
  BY <1>1, ResizeEffect
<1>3. ASSUME NEW k \in Queue, NEW i \in DOMAIN c[k], NEW l \in Queue, NEW j \in DOMAIN c[l]
      PROVE  /\ c[k][i].qty > 0
             /\ QueueOf(c[k][i]) = k
             /\ c[k][i].id = c[l][j].id => k = l /\ i = j
  <2>1. i \in DOMAIN b[k] /\ j \in DOMAIN b[l]  BY <1>2
  <2>2. /\ b[k][i].qty > 0 /\ QueueOf(b[k][i]) = k
        /\ b[k][i].id = b[l][j].id => k = l /\ i = j
    BY <2>1 DEF SoundBook, OneOrderPerId
  <2> QED  BY <1>2, <2>1, <2>2
<1>4. SoundBook(c)  BY <1>2, <1>3 DEF SoundBook, OneOrderPerId
<1>5. ASSUME NEW x PROVE x \in RestingIds(c) <=> x \in RestingIds(b)
  BY <1>1, <1>2, RestingMeans
<1> QED  BY <1>4, <1>5

\* Going behind the others (book.rs:427-433): the same ids rest.
LEMMA MoveSound ==
  ASSUME NEW b, SoundBook(b), NEW id \in RestingIds(b), NEW c, c = MoveToTail(b, id)
  PROVE  SoundBook(c) /\ RestingIds(c) = RestingIds(b)
<1> DEFINE d == DropOrder(b, id)
           order == get(b, id)
<1>1. SoundBook(d) /\ RestingIds(d) = RestingIds(b) \ {id}  BY DropSound
<1>2. order \in Order /\ order.qty > 0 /\ order.id = id  BY RestsSomewhere
<1>3. c = AppendOrder(d, order)  BY DEF MoveToTail
<1> HIDE DEF d, order
<1>4. order.id \notin RestingIds(d)  BY <1>1, <1>2
<1>5. SoundBook(c) /\ RestingIds(c) = RestingIds(d) \cup {order.id}
  BY ONLY <1>1, <1>2, <1>3, <1>4, AppendSound
<1> QED  BY <1>1, <1>2, <1>5

-----------------------------------------------------------------------------
(* Who is ahead of whom after a change *)

\* Behind the others: nobody's place changes.
LEMMA AppendAhead ==
  ASSUME NEW b, SoundBook(b), NEW order \in Order, order.qty > 0,
         order.id \notin RestingIds(b), NEW c, c = AppendOrder(b, order)
  PROVE  /\ \A id \in RestingIds(b) : get(c, id) = get(b, id) /\ Ahead(c, id) = Ahead(b, id)
         /\ get(c, order.id) = order
         /\ Ahead(c, order.id) = Ids(b[QueueOf(order)])
<1> DEFINE q == QueueOf(order)
           n == Len(b[q]) + 1
<1>1. b \in Book /\ SoundBook(c)  BY AppendSound DEF SoundBook
<1>2. /\ q \in Queue /\ c \in Book
      /\ \A k \in Queue : k # q => c[k] = b[k]
      /\ DOMAIN c[q] = 1 .. n
      /\ \A i \in DOMAIN b[q] : c[q][i] = b[q][i]
      /\ c[q][n] = order
  BY <1>1, AppendEffect
<1>3. DOMAIN b[q] = 1 .. (n - 1) /\ n \in Nat \ {0}
  BY <1>1, <1>2, QueuesAreSequences
<1> HIDE DEF q, n
<1>4. ASSUME NEW id \in RestingIds(b)
      PROVE  get(c, id) = get(b, id) /\ Ahead(c, id) = Ahead(b, id)
  <2>1. PICK k \in Queue : \E i \in DOMAIN b[k] : b[k][i].id = id
    BY <1>1, RestingMeans
  <2>2. PICK i \in DOMAIN b[k] : b[k][i].id = id  BY <2>1
  <2>3. get(b, id) = b[k][i] /\ Ahead(b, id) = Before(b[k], i)
    BY <2>2, RestsAt
  <2>4. i \in DOMAIN c[k] /\ \A j \in 1 .. i : c[k][j] = b[k][j]
    <3>1. DOMAIN b[k] = 1 .. Len(b[k]) /\ Len(b[k]) \in Nat  BY <1>1, QueuesAreSequences
    <3>2. \A j \in 1 .. i : j \in DOMAIN b[k]  BY <3>1
    <3>3. CASE k # q  BY <1>2, <3>3
    <3>4. CASE k = q
      <4>1. i \in 1 .. n  BY <1>3, <3>4
      <4> QED  BY <1>2, <3>2, <3>4, <4>1
    <3> QED  BY <3>3, <3>4
  <2>5. i \in Nat \ {0}  BY <1>1, <2>2, QueuesAreSequences
  <2>6. c[k][i] = b[k][i] /\ \A j \in 1 .. (i - 1) : c[k][j].id = b[k][j].id
    BY <2>4, <2>5
  <2>7. get(c, id) = c[k][i] /\ Ahead(c, id) = Before(c[k], i)
    BY <1>1, <2>2, <2>4, <2>6, RestsAt
  <2> QED  BY <2>3, <2>6, <2>7 DEF Before
<1>5. get(c, order.id) = order /\ Ahead(c, order.id) = Ids(b[q])
  <2>1. n \in DOMAIN c[q]  BY <1>2, <1>3
  <2>2. /\ get(c, order.id) = c[q][n]
        /\ Ahead(c, order.id) = Before(c[q], n)
    BY <1>1, <1>2, <2>1, RestsAt
  <2>3. \A j \in 1 .. (n - 1) : c[q][j].id = b[q][j].id  BY <1>2, <1>3
  <2> QED  BY <1>2, <1>3, <2>2, <2>3 DEF Ids, Before
<1> QED  BY <1>4, <1>5 DEF q

\* Leaving: the others keep their size, and those behind have one less ahead.
LEMMA DropAhead ==
  ASSUME NEW b, SoundBook(b), NEW x \in RestingIds(b), NEW c, c = DropOrder(b, x),
         NEW id \in RestingIds(b), id # x
  PROVE  get(c, id) = get(b, id) /\ Ahead(c, id) = Ahead(b, id) \ {x}
<1> DEFINE q == HomeOf(b, x)
           p == PlaceIn(b[q], x)
<1>1. /\ b \in Book /\ q \in Queue /\ p \in DOMAIN b[q] /\ b[q][p].id = x /\ SoundBook(c)
  BY RestsSomewhere, DropSound DEF SoundBook
<1>2. /\ c \in Book
      /\ \A k \in Queue : k # q => c[k] = b[k]
      /\ DOMAIN c[q] = 1 .. (Len(b[q]) - 1)
      /\ \A i \in DOMAIN c[q] : c[q][i] = IF i < p THEN b[q][i] ELSE b[q][i + 1]
  BY DropEffect
<1>3. Len(b[q]) \in Nat /\ DOMAIN b[q] = 1 .. Len(b[q]) /\ p \in 1 .. Len(b[q])
  BY <1>1, QueuesAreSequences
<1> HIDE DEF q, p
<1>4. PICK k \in Queue : \E i \in DOMAIN b[k] : b[k][i].id = id
  BY <1>1, RestingMeans
<1>5. PICK i \in DOMAIN b[k] : b[k][i].id = id  BY <1>4
<1>6. get(b, id) = b[k][i] /\ Ahead(b, id) = Before(b[k], i)
  BY <1>5, RestsAt
<1>7. i \in 1 .. Len(b[k]) /\ Len(b[k]) \in Nat /\ DOMAIN b[k] = 1 .. Len(b[k])
  BY <1>1, QueuesAreSequences
<1>8. CASE k # q
  <2>1. c[k] = b[k] /\ i \in DOMAIN c[k]  BY <1>2, <1>8
  <2>2. get(c, id) = c[k][i] /\ Ahead(c, id) = Before(c[k], i)
    BY <1>1, <1>5, <2>1, RestsAt
  <2>3. \A j \in 1 .. (i - 1) : b[k][j].id # x
    <3> SUFFICES ASSUME NEW j \in 1 .. (i - 1) PROVE b[k][j].id # x
      OBVIOUS
    <3>1. j \in DOMAIN b[k]  BY <1>7
    <3> QED  BY <1>1, <1>8, <3>1 DEF SoundBook, OneOrderPerId
  <2>4. x \notin Before(b[k], i)  BY <2>3 DEF Before
  <2> QED  BY <1>6, <2>1, <2>2, <2>4
<1>9. CASE k = q /\ i < p
  <2>1. i \in DOMAIN c[k] /\ \A j \in 1 .. i : c[k][j] = b[k][j]
    BY <1>2, <1>3, <1>7, <1>9
  <2>2. c[k][i] = b[k][i]  BY <1>7, <2>1
  <2>3. get(c, id) = c[k][i] /\ Ahead(c, id) = Before(c[k], i)
    BY <1>1, <1>5, <2>1, <2>2, RestsAt
  <2>4. \A j \in 1 .. (i - 1) : c[k][j].id = b[k][j].id /\ b[k][j].id # x
    <3> SUFFICES ASSUME NEW j \in 1 .. (i - 1)
                 PROVE  c[k][j].id = b[k][j].id /\ b[k][j].id # x
      OBVIOUS
    <3>1. j \in DOMAIN b[k] /\ j \in 1 .. i /\ j # p  BY <1>3, <1>7, <1>9
    <3> QED  BY <1>1, <1>9, <2>1, <3>1 DEF SoundBook, OneOrderPerId
  <2>5. Before(c[k], i) = Before(b[k], i) \ {x}  BY <2>4 DEF Before
  <2> QED  BY <1>6, <2>2, <2>3, <2>5
<1>10. CASE k = q /\ ~(i < p)
  <2>0. i # p  BY <1>1, <1>5, <1>10
  <2>1. /\ i - 1 \in 1 .. (Len(b[q]) - 1) /\ ~(i - 1 < p) /\ (i - 1) + 1 = i
        /\ (i - 1) - 1 = i - 2
    BY <1>3, <1>7, <1>10, <2>0
  <2>2. i - 1 \in DOMAIN c[k] /\ c[k][i - 1] = b[k][i]  BY <1>2, <1>10, <2>1
  <2>3. get(c, id) = c[k][i - 1] /\ Ahead(c, id) = Before(c[k], i - 1)
    <3>1. ASSUME NEW h \in DOMAIN c[k], c[k][h].id = id
          PROVE  get(c, id) = c[k][h] /\ Ahead(c, id) = Before(c[k], h)
      BY <1>1, <3>1, RestsAt
    <3> QED  BY <1>5, <2>2, <3>1
  <2>4. ASSUME NEW y
        PROVE  (\E j \in 1 .. (i - 2) : c[k][j].id = y) <=>
               (\E j \in 1 .. (i - 1) : b[k][j].id = y) /\ y # x
    <3>1. ASSUME NEW j \in 1 .. (i - 2), c[k][j].id = y
          PROVE  (\E h \in 1 .. (i - 1) : b[k][h].id = y) /\ y # x
      <4>1. j \in DOMAIN c[q]  BY <1>2, <2>1
      <4>2. CASE j < p
        <5>1. c[k][j] = b[k][j] /\ j \in 1 .. (i - 1) /\ j # p /\ j \in DOMAIN b[k]
          BY SMTT(30), <1>2, <1>3, <1>7, <1>10, <4>1, <4>2
        <5> QED  BY <1>1, <1>10, <3>1, <5>1 DEF SoundBook, OneOrderPerId
      <4>3. CASE ~(j < p)
        <5>1. /\ c[k][j] = b[k][j + 1] /\ j + 1 \in 1 .. (i - 1) /\ j + 1 # p
              /\ j + 1 \in DOMAIN b[k]
          BY SMTT(30), <1>2, <1>3, <1>7, <1>10, <4>1, <4>3
        <5> QED  BY <1>1, <1>10, <3>1, <5>1 DEF SoundBook, OneOrderPerId
      <4> QED  BY <4>2, <4>3
    <3>2. ASSUME NEW j \in 1 .. (i - 1), b[k][j].id = y, y # x
          PROVE  \E h \in 1 .. (i - 2) : c[k][h].id = y
      <4>1. j # p  BY <1>1, <1>10, <3>2
      <4>2. CASE j < p
        <5>1. j \in 1 .. (i - 2) /\ j \in DOMAIN c[q]
          BY <1>2, <1>3, <1>7, <1>10, <2>0, <2>1, <4>2
        <5> QED  BY <1>2, <1>10, <3>2, <4>2, <5>1
      <4>3. CASE ~(j < p)
        <5>1. /\ j - 1 \in 1 .. (i - 2) /\ j - 1 \in DOMAIN c[q] /\ ~(j - 1 < p)
              /\ (j - 1) + 1 = j
          BY <1>2, <1>3, <1>7, <1>10, <2>1, <4>1, <4>3
        <5> QED  BY <1>2, <1>10, <3>2, <5>1
      <4> QED  BY <4>2, <4>3
    <3> QED  BY <3>1, <3>2
  <2>5. Before(c[k], i - 1) = Before(b[k], i) \ {x}
    BY ZenonT(60), <2>1, <2>4 DEF Before
  <2> QED  BY <1>6, <2>2, <2>3, <2>5
<1> QED  BY <1>8, <1>9, <1>10

\* A new size in place: nobody's place changes.
LEMMA ResizeAhead ==
  ASSUME NEW b, SoundBook(b), NEW x, NEW new_qty \in Qty, new_qty > 0,
         NEW c, c = Resize(b, x, new_qty), NEW id \in RestingIds(b)
  PROVE  /\ Ahead(c, id) = Ahead(b, id)
         /\ QueueOf(get(c, id)) = QueueOf(get(b, id))
         /\ get(c, id).qty = IF id = x THEN new_qty ELSE get(b, id).qty
         /\ \A k \in Queue : Ids(c[k]) = Ids(b[k])
<1>1. b \in Book /\ SoundBook(c)  BY ResizeSound DEF SoundBook
<1>2. ASSUME NEW k \in Queue
      PROVE  /\ DOMAIN c[k] = DOMAIN b[k]
             /\ \A i \in DOMAIN b[k] :
                  /\ c[k][i].id = b[k][i].id
                  /\ QueueOf(c[k][i]) = QueueOf(b[k][i])
                  /\ b[k][i].id = x => c[k][i].qty = new_qty
                  /\ b[k][i].id # x => c[k][i].qty = b[k][i].qty
  BY <1>1, ResizeEffect
<1>4. PICK k \in Queue : \E i \in DOMAIN b[k] : b[k][i].id = id
  BY <1>1, RestingMeans
<1>5. PICK i \in DOMAIN b[k] : b[k][i].id = id  BY <1>4
<1>6. get(b, id) = b[k][i] /\ Ahead(b, id) = Before(b[k], i)
  BY <1>5, RestsAt
<1>7. i \in DOMAIN c[k] /\ c[k][i].id = id  BY <1>2, <1>5
<1>8. get(c, id) = c[k][i] /\ Ahead(c, id) = Before(c[k], i)
  BY <1>1, <1>7, RestsAt
<1>9. \A j \in 1 .. (i - 1) : c[k][j].id = b[k][j].id
  <2>1. DOMAIN b[k] = 1 .. Len(b[k])  BY <1>1, QueuesAreSequences
  <2>2. \A j \in 1 .. (i - 1) : j \in DOMAIN b[k]  BY <1>1, <2>1, QueuesAreSequences
  <2> QED  BY <1>2, <2>2
<1>10. \A l \in Queue : Ids(c[l]) = Ids(b[l])  BY <1>2 DEF Ids
<1>11. Before(c[k], i) = Before(b[k], i)  BY <1>9 DEF Before
<1> QED  BY <1>2, <1>5, <1>6, <1>8, <1>10, <1>11

\* Going behind: everyone at the price is ahead of the one, and the others
\* have at most the ids ahead that they had.
LEMMA MoveAhead ==
  ASSUME NEW b, SoundBook(b), NEW x \in RestingIds(b), NEW c, c = MoveToTail(b, x)
  PROVE  /\ \A id \in RestingIds(b) : id # x => Ahead(c, id) = Ahead(b, id) \ {x}
         /\ Ahead(c, x) = Ids(b[QueueOf(get(b, x))]) \ {x}
         /\ \A id \in RestingIds(b) : get(c, id) = get(b, id)
<1> DEFINE d == DropOrder(b, x)
           order == get(b, x)
           q == QueueOf(order)
<1>1. SoundBook(d) /\ RestingIds(d) = RestingIds(b) \ {x}  BY DropSound
<1>2. order \in Order /\ order.qty > 0 /\ order.id = x  BY RestsSomewhere
<1>3. c = AppendOrder(d, order)  BY DEF MoveToTail
<1>4. \A id \in RestingIds(b) : id # x => get(d, id) = get(b, id) /\ Ahead(d, id) = Ahead(b, id) \ {x}
  BY DropAhead
<1>5. Ids(d[q]) = Ids(b[q]) \ {x}
  <2>1. /\ b \in Book /\ d \in Book /\ q \in Queue
        /\ \A k \in Queue : \A i \in DOMAIN b[k] : b[k][i].id \in RestingIds(b) /\ QueueOf(b[k][i]) = k /\ get(b, b[k][i].id) = b[k][i]
        /\ \A k \in Queue : \A i \in DOMAIN d[k] : d[k][i].id \in RestingIds(d) /\ QueueOf(d[k][i]) = k /\ get(d, d[k][i].id) = d[k][i]
    <3>1. b \in Book /\ d \in Book  BY <1>1 DEF SoundBook
    <3>2. q \in Queue  BY <1>2 DEF Order, QueueOf, Queue
    <3>3. ASSUME NEW k \in Queue, NEW i \in DOMAIN b[k]
          PROVE  b[k][i].id \in RestingIds(b) /\ QueueOf(b[k][i]) = k /\ get(b, b[k][i].id) = b[k][i]
      BY RestsAt
    <3>4. ASSUME NEW k \in Queue, NEW i \in DOMAIN d[k]
          PROVE  d[k][i].id \in RestingIds(d) /\ QueueOf(d[k][i]) = k /\ get(d, d[k][i].id) = d[k][i]
      <4> HIDE DEF d
      <4> QED  BY <1>1, RestsAt
    <3> HIDE DEF d, q, order
    <3> QED  BY <3>1, <3>2, <3>3, <3>4
  <2> HIDE DEF d, q, order
  <2>2. ASSUME NEW y \in Ids(d[q]) PROVE y \in Ids(b[q]) \ {x}
    <3>1. PICK i \in DOMAIN d[q] : d[q][i].id = y  BY DEF Ids
    <3>2. /\ y \in RestingIds(b) \ {x} /\ get(d, y) = d[q][i] /\ QueueOf(d[q][i]) = q
      BY <1>1, <2>1, <3>1
    <3>3. get(b, y) = d[q][i]  BY <1>4, <3>2
    <3>4. PICK k \in Queue : \E j \in DOMAIN b[k] : b[k][j].id = y
      BY <2>1, <3>2, RestingMeans
    <3>5. PICK j \in DOMAIN b[k] : b[k][j].id = y  BY <3>4
    <3>6. k = q  BY <2>1, <3>2, <3>3, <3>5
    <3> QED  BY <3>2, <3>5, <3>6 DEF Ids
  <2>3. ASSUME NEW y \in Ids(b[q]), y # x PROVE y \in Ids(d[q])
    <3>1. PICK i \in DOMAIN b[q] : b[q][i].id = y  BY DEF Ids
    <3>2. /\ y \in RestingIds(d) /\ y \in RestingIds(b) /\ get(b, y) = b[q][i] /\ QueueOf(b[q][i]) = q
      BY <1>1, <2>1, <2>3, <3>1
    <3>3. get(d, y) = b[q][i]  BY <1>4, <2>3, <3>2
    <3>4. PICK k \in Queue : \E j \in DOMAIN d[k] : d[k][j].id = y
      BY <2>1, <3>2, RestingMeans
    <3>5. PICK j \in DOMAIN d[k] : d[k][j].id = y  BY <3>4
    <3>6. k = q  BY <2>1, <3>2, <3>3, <3>5
    <3> QED  BY <3>5, <3>6 DEF Ids
  <2> QED  BY <2>2, <2>3
<1> HIDE DEF d, order, q
<1>6. order.id \notin RestingIds(d)  BY <1>1, <1>2
<1>7. /\ \A id \in RestingIds(d) : get(c, id) = get(d, id) /\ Ahead(c, id) = Ahead(d, id)
      /\ get(c, order.id) = order
      /\ Ahead(c, order.id) = Ids(d[QueueOf(order)])
  <2>1. \A id \in RestingIds(d) : get(c, id) = get(d, id) /\ Ahead(c, id) = Ahead(d, id)
    BY ONLY <1>1, <1>2, <1>3, <1>6, AppendAhead
  <2>2. get(c, order.id) = order  BY ONLY <1>1, <1>2, <1>3, <1>6, AppendAhead
  <2>3. Ahead(c, order.id) = Ids(d[QueueOf(order)])
    BY ONLY <1>1, <1>2, <1>3, <1>6, AppendAhead
  <2> QED  BY <2>1, <2>2, <2>3
<1>8. \A id \in RestingIds(b) : id # x => id \in RestingIds(d)  BY <1>1
<1>9. \A id \in RestingIds(b) : id # x => get(c, id) = get(b, id) /\ Ahead(c, id) = Ahead(b, id) \ {x}
  BY <1>4, <1>7, <1>8
<1>10. Ahead(c, x) = Ids(b[q]) \ {x}  BY <1>2, <1>5, <1>7 DEF q
<1>11. get(c, x) = get(b, x)  BY <1>2, <1>7 DEF order
<1> QED  BY <1>9, <1>10, <1>11 DEF q, order

-----------------------------------------------------------------------------
(* The operations *)

\* A book with no orders is sound.
LEMMA EmptySound == SoundBook(EmptyBook) /\ RestingIds(EmptyBook) = {}
<1>1. EmptyBook \in Book  BY EmptySeq DEF EmptyBook, Book
<1>2. \A k \in Queue : DOMAIN EmptyBook[k] = {}  BY DEF EmptyBook
<1>3. SoundBook(EmptyBook)  BY <1>1, <1>2 DEF SoundBook, OneOrderPerId
<1>4. \A id : id \notin RestingIds(EmptyBook)  BY <1>1, <1>2, RestingMeans
<1> QED  BY <1>3, <1>4

\* add (book.rs:315-339)
LEMMA AddSound ==
  ASSUME NEW b, SoundBook(b), NEW order \in Order, NEW call, call = add(b, order)
  PROVE  SoundBook(call.book) /\ call.result \in Result
<1>1. CASE order.qty = 0
  BY <1>1 DEF add, Fail, Result, BookError
<1>2. CASE order.qty # 0 /\ order.id \in RestingIds(b)
  BY <1>2 DEF add, Fail, Result, BookError
<1>3. CASE order.qty # 0 /\ order.id \notin RestingIds(b)
  <2>1. call.book = AppendOrder(b, order) /\ call.result = "Ok"
    BY <1>3 DEF add, Done
  <2>2. order.qty > 0  BY <1>3, QtyLimitAssumption DEF Order, Qty
  <2>3. SoundBook(call.book)  BY <1>3, <2>1, <2>2, AppendSound
  <2> QED  BY <2>1, <2>3 DEF Result
<1> QED  BY <1>1, <1>2, <1>3

\* remove (book.rs:341-373)
LEMMA RemoveSound ==
  ASSUME NEW b, SoundBook(b), NEW id, NEW call, call = remove(b, id)
  PROVE  SoundBook(call.book) /\ call.result \in Result
<1>1. CASE id \notin RestingIds(b)
  BY <1>1 DEF remove, Fail, Result, BookError
<1>2. CASE id \in RestingIds(b)
  <2>1. call.book = DropOrder(b, id) /\ call.result = "Ok"
    BY <1>2 DEF remove, Done
  <2>2. SoundBook(call.book)  BY <1>2, <2>1, DropSound
  <2> QED  BY <2>1, <2>2 DEF Result
<1> QED  BY <1>1, <1>2

\* update_size (book.rs:375-402)
LEMMA UpdateSound ==
  ASSUME NEW b, SoundBook(b), NEW id, NEW new_qty \in Qty,
         NEW call, call = update_size(b, id, new_qty)
  PROVE  SoundBook(call.book) /\ call.result \in Result
<1>1. CASE id \notin RestingIds(b)
  BY <1>1 DEF update_size, Fail, Result, BookError
<1>2. CASE id \in RestingIds(b) /\ new_qty >= get(b, id).qty
  BY <1>2 DEF update_size, Fail, Result, BookError
<1>3. CASE id \in RestingIds(b) /\ ~(new_qty >= get(b, id).qty) /\ new_qty = 0
  <2>1. call = remove(b, id)  BY <1>3 DEF update_size
  <2> QED  BY <2>1, RemoveSound
<1>4. CASE id \in RestingIds(b) /\ ~(new_qty >= get(b, id).qty) /\ new_qty # 0
  <2>1. call.book = Resize(b, id, new_qty) /\ call.result = "Ok"
    BY <1>4 DEF update_size, Done
  <2>2. new_qty > 0  BY <1>4, QtyLimitAssumption DEF Qty
  <2>3. SoundBook(call.book)  BY <2>1, <2>2, ResizeSound
  <2> QED  BY <2>1, <2>3 DEF Result
<1> QED  BY <1>1, <1>2, <1>3, <1>4

\* amend_size_with_policy (book.rs:404-455): what it comes to, case by case.
LEMMA AmendCases ==
  ASSUME NEW b, NEW id, NEW new_qty, NEW policy,
         NEW call, call = amend_size_with_policy(b, id, new_qty, policy)
  PROVE  \/ new_qty = 0 /\ call = remove(b, id)
         \/ /\ new_qty # 0 /\ id \notin RestingIds(b)
            /\ call.book = b /\ call.result = "UnknownOrderId"
         \/ /\ new_qty # 0 /\ id \in RestingIds(b)
            /\ new_qty > get(b, id).qty /\ policy = "LosePriorityOnIncrease"
            /\ call.book = MoveToTail(Resize(b, id, new_qty), id) /\ call.result = "Ok"
         \/ /\ new_qty # 0 /\ id \in RestingIds(b)
            /\ call.book = Resize(b, id, new_qty) /\ call.result = "Ok"
<1>1. CASE new_qty = 0
  BY <1>1 DEF amend_size_with_policy
<1>2. CASE new_qty # 0 /\ id \notin RestingIds(b)
  BY <1>2 DEF amend_size_with_policy, Fail
<1>3. CASE /\ new_qty # 0 /\ id \in RestingIds(b)
           /\ new_qty > get(b, id).qty /\ policy = "LosePriorityOnIncrease"
  BY <1>3 DEF amend_size_with_policy, Done
<1>4. CASE /\ new_qty # 0 /\ id \in RestingIds(b)
           /\ ~(new_qty > get(b, id).qty /\ policy = "LosePriorityOnIncrease")
  BY <1>4 DEF amend_size_with_policy, Done
<1> QED  BY <1>1, <1>2, <1>3, <1>4

\* amend_size_with_policy keeps a sound book sound.
LEMMA AmendSound ==
  ASSUME NEW b, SoundBook(b), NEW id, NEW new_qty \in Qty, NEW policy,
         NEW call, call = amend_size_with_policy(b, id, new_qty, policy)
  PROVE  SoundBook(call.book) /\ call.result \in Result
<1> DEFINE r == Resize(b, id, new_qty)
<1>1. CASE new_qty = 0 /\ call = remove(b, id)
  BY <1>1, RemoveSound
<1>2. CASE call.book = b /\ call.result = "UnknownOrderId"
  BY <1>2 DEF Result, BookError
<1>3. CASE new_qty # 0 /\ id \in RestingIds(b) /\ call.result = "Ok"
           /\ call.book \in {r, MoveToTail(r, id)}
  <2>1. new_qty > 0  BY <1>3, QtyLimitAssumption DEF Qty
  <2>2. SoundBook(r) /\ RestingIds(r) = RestingIds(b)  BY <2>1, ResizeSound
  <2> HIDE DEF r
  <2>3. SoundBook(MoveToTail(r, id))  BY <1>3, <2>2, MoveSound
  <2> QED  BY <1>3, <2>2, <2>3 DEF Result
<1> QED  BY <1>1, <1>2, <1>3, AmendCases

-----------------------------------------------------------------------------
(* apply_op, one kind at a time (book.rs:210-218, 315-476) *)

\* The four shapes of an operation.
LEMMA OpShapes ==
  ASSUME NEW op \in BookOp
  PROVE  \/ op.kind = "Add"
         \/ op.kind = "Remove"
         \/ op.kind = "UpdateSize"
         \/ op.kind = "AmendSize"
  BY DEF BookOp

\* A new order is accepted if it has a quantity and its id is free.
LEMMA AddAnswer ==
  ASSUME NEW b, NEW op \in BookOp, op.kind = "Add"
  PROVE  /\ apply_op(b, op) = add(b, op.order)
         /\ apply_op(b, op).result = "Ok" <=>
              op.order.qty # 0 /\ op.order.id \notin RestingIds(b)
         /\ apply_op(b, op).result # "Ok" => apply_op(b, op).book = b
<1>1. apply_op(b, op) = add(b, op.order)
  BY DEF apply_op
<1> QED
  BY <1>1 DEF add, Fail, Done

\* A removal is accepted if the order rests.
LEMMA RemoveAnswer ==
  ASSUME NEW b, NEW id
  PROVE  /\ remove(b, id).result = "Ok" <=> id \in RestingIds(b)
         /\ remove(b, id).result # "Ok" => remove(b, id).book = b
  BY DEF remove, Fail, Done

\* An update is accepted if the order rests and shrinks.
LEMMA UpdateAnswer ==
  ASSUME NEW b, NEW id, NEW new_qty
  PROVE  /\ update_size(b, id, new_qty).result = "Ok" <=>
              id \in RestingIds(b) /\ ~(new_qty >= get(b, id).qty)
         /\ update_size(b, id, new_qty).result # "Ok" => update_size(b, id, new_qty).book = b
  BY RemoveAnswer DEF update_size, Fail, Done

\* An amendment is accepted if the order rests.
LEMMA AmendAnswer ==
  ASSUME NEW b, NEW id, NEW new_qty
  PROVE  /\ amend_size(b, id, new_qty).result = "Ok" <=> id \in RestingIds(b)
         /\ amend_size(b, id, new_qty).result # "Ok" => amend_size(b, id, new_qty).book = b
  BY RemoveAnswer DEF amend_size, amend_size_with_policy, Fail, Done

\* An operation on an order that rests or may rest.
LEMMA ApplyAnswer ==
  ASSUME NEW b, NEW op \in BookOp
  PROVE  /\ apply_op(b, op).result = "Ok" <=>
              IF IsAdd(op) THEN op.order.qty # 0 /\ op.order.id \notin RestingIds(b)
                           ELSE op.id \in RestingIds(b) /\ ~Grows(b, op)
         /\ apply_op(b, op).result # "Ok" => apply_op(b, op).book = b
<1> USE DEF IsAdd
<1>1. CASE op.kind = "Add"
  BY <1>1, AddAnswer
<1>2. CASE op.kind = "Remove"
  <2>1. apply_op(b, op) = remove(b, op.id) /\ ~Grows(b, op)
    BY <1>2 DEF apply_op, Grows
  <2> QED
    BY <1>2, <2>1, RemoveAnswer
<1>3. CASE op.kind = "UpdateSize"
  <2>1. apply_op(b, op) = update_size(b, op.id, op.new_qty)
    BY <1>3 DEF apply_op
  <2>2. Grows(b, op) <=> op.new_qty >= get(b, op.id).qty
    BY <1>3 DEF Grows
  <2> QED
    BY <1>3, <2>1, <2>2, UpdateAnswer
<1>4. CASE op.kind = "AmendSize"
  <2>1. apply_op(b, op) = amend_size(b, op.id, op.new_qty) /\ ~Grows(b, op)
    BY <1>4 DEF apply_op, Grows
  <2> QED
    BY <1>4, <2>1, AmendAnswer
<1> QED
  BY <1>1, <1>2, <1>3, <1>4, OpShapes

-----------------------------------------------------------------------------
(* The policies (book.rs:226-313) *)

\* The four ways a policy can take an operation.
LEMMA PolicyCases ==
  ASSUME NEW b, NEW op \in BookOp, NEW policy \in ReplayPolicy
  PROVE
    LET step == apply_op_with_policy(b, op, policy)
    IN  \/ /\ IsAdd(op) /\ op.order.id \in RestingIds(b)
           /\ step = Tolerated(b, policy.duplicate_add, "DuplicateAdd", "DuplicateOrderId")
        \/ /\ ~IsAdd(op) /\ op.id \notin RestingIds(b)
           /\ step = Tolerated(b, policy.missing_order, "MissingOrder", "UnknownOrderId")
        \/ /\ op.kind = "UpdateSize" /\ op.id \in RestingIds(b) /\ Grows(b, op)
           /\ policy.non_decreasing_update = "TreatAsAmend"
           /\ step = Answered(amend_size(b, op.id, op.new_qty), "Coerced")
        \/ /\ IsAdd(op) => op.order.id \notin RestingIds(b)
           /\ ~IsAdd(op) => op.id \in RestingIds(b)
           /\ ~(Grows(b, op) /\ policy.non_decreasing_update = "TreatAsAmend")
           /\ step = Answered(apply_op(b, op), "Applied")
<1>1. IdOf(op) = IF IsAdd(op) THEN op.order.id ELSE op.id
  BY DEF IdOf, IsAdd
<1>2. Grows(b, op) => op.kind = "UpdateSize" /\ ~IsAdd(op)
  BY DEF Grows, IsAdd
<1>3. CASE IsAdd(op) /\ IdOf(op) \in RestingIds(b)
  <2>1. apply_op_with_policy(b, op, policy)
          = Tolerated(b, policy.duplicate_add, "DuplicateAdd", "DuplicateOrderId")
    BY <1>2, <1>3 DEF apply_op_with_policy
  <2> QED
    BY <1>1, <1>3, <2>1
<1>4. CASE ~IsAdd(op) /\ IdOf(op) \notin RestingIds(b)
  BY <1>1, <1>4 DEF apply_op_with_policy
<1>5. CASE /\ ~IsAdd(op) /\ IdOf(op) \in RestingIds(b)
           /\ Grows(b, op) /\ policy.non_decreasing_update = "TreatAsAmend"
  BY <1>1, <1>2, <1>5 DEF apply_op_with_policy
<1>6. CASE /\ IsAdd(op) => IdOf(op) \notin RestingIds(b)
           /\ ~IsAdd(op) => IdOf(op) \in RestingIds(b)
           /\ ~(Grows(b, op) /\ policy.non_decreasing_update = "TreatAsAmend")
  <2>1. apply_op_with_policy(b, op, policy) = Answered(apply_op(b, op), "Applied")
    BY <1>2, <1>6 DEF apply_op_with_policy
  <2> QED
    BY <1>1, <1>6, <2>1
<1> QED
  BY <1>2, <1>3, <1>4, <1>5, <1>6

\* What apply_op accepts, a policy accepts with the same book; what a policy
\* refuses or skips changes nothing.
LEMMA PolicyOnlyTolerates ==
  ASSUME NEW b, NEW op \in BookOp, NEW policy \in ReplayPolicy
  PROVE
    LET strict == apply_op(b, op)
        step   == apply_op_with_policy(b, op, policy)
    IN  /\ strict.result = "Ok" => step = Outcome(strict.book, "Applied", "Ok")
        /\ step.outcome \in {"Skipped", "Error"} => step.book = b
<1> DEFINE step == apply_op_with_policy(b, op, policy)
<1>1. CASE /\ IsAdd(op) /\ op.order.id \in RestingIds(b)
           /\ step = Tolerated(b, policy.duplicate_add, "DuplicateAdd", "DuplicateOrderId")
  <2>1. apply_op(b, op).result # "Ok"
    BY <1>1, ApplyAnswer
  <2>2. step.book = b
    BY <1>1 DEF Tolerated, Outcome
  <2> QED
    BY <2>1, <2>2
<1>2. CASE /\ ~IsAdd(op) /\ op.id \notin RestingIds(b)
           /\ step = Tolerated(b, policy.missing_order, "MissingOrder", "UnknownOrderId")
  <2>1. apply_op(b, op).result # "Ok"
    BY <1>2, ApplyAnswer
  <2>2. step.book = b
    BY <1>2 DEF Tolerated, Outcome
  <2> QED
    BY <2>1, <2>2
<1>3. CASE /\ op.kind = "UpdateSize" /\ Grows(b, op)
           /\ step = Answered(amend_size(b, op.id, op.new_qty), "Coerced")
  <2>1. apply_op(b, op).result # "Ok"
    BY <1>3, ApplyAnswer DEF IsAdd
  <2>2. step.outcome \in {"Skipped", "Error"} => step.book = b
    BY <1>3, AmendAnswer DEF Answered, Outcome
  <2> QED
    BY <2>1, <2>2
<1>4. CASE step = Answered(apply_op(b, op), "Applied")
  <2>1. apply_op(b, op).result = "Ok" => step = Outcome(apply_op(b, op).book, "Applied", "Ok")
    BY <1>4 DEF Answered
  <2>2. CASE apply_op(b, op).result = "Ok"
    BY <2>1, <2>2 DEF Outcome
  <2>3. CASE apply_op(b, op).result # "Ok"
    <3>1. step.book = apply_op(b, op).book
      BY <1>4, <2>3 DEF Answered, Outcome
    <3> QED
      BY <2>3, <3>1, ApplyAnswer
  <2> QED
    BY <2>2, <2>3
<1> QED
  BY <1>1, <1>2, <1>3, <1>4, PolicyCases

\* Every operation under every policy leaves a sound book sound.
LEMMA PolicySound ==
  ASSUME NEW b, SoundBook(b), NEW op \in BookOp, NEW policy \in ReplayPolicy,
         NEW step, step = apply_op_with_policy(b, op, policy)
  PROVE  SoundBook(step.book)
<1> USE DEF IsAdd
<1>1. op.kind = "Add" => op.order \in Order
  BY DEF BookOp
<1>2. op.kind \in {"UpdateSize", "AmendSize"} => op.new_qty \in Qty
  BY DEF BookOp
<1>3. SoundBook(apply_op(b, op).book)
  <2>1. CASE op.kind = "Add"
    BY <1>1, <2>1, AddSound DEF apply_op
  <2>2. CASE op.kind = "Remove"
    BY <2>2, RemoveSound DEF apply_op
  <2>3. CASE op.kind = "UpdateSize"
    BY <1>2, <2>3, UpdateSound DEF apply_op
  <2>4. CASE op.kind = "AmendSize"
    BY <1>2, <2>4, AmendSound DEF apply_op, amend_size
  <2> QED
    BY <2>1, <2>2, <2>3, <2>4, OpShapes
<1>4. CASE \E t, reason, error : step = Tolerated(b, t, reason, error)
  BY <1>4 DEF Tolerated, Outcome
<1>5. CASE op.kind = "UpdateSize" /\ step = Answered(amend_size(b, op.id, op.new_qty), "Coerced")
  <2>1. SoundBook(amend_size(b, op.id, op.new_qty).book)
    BY <1>2, <1>5, AmendSound DEF amend_size
  <2> QED
    BY <1>5, <2>1 DEF Answered, Outcome
<1>6. CASE step = Answered(apply_op(b, op), "Applied")
  BY <1>3, <1>6 DEF Answered, Outcome
<1> QED
  BY <1>4, <1>5, <1>6, PolicyCases

-----------------------------------------------------------------------------
(* What an operation does to the orders it does not name *)

\* The orders of a queue are those that rest at its side and price.
LEMMA QueueHolds ==
  ASSUME NEW b, SoundBook(b), NEW q \in Queue, NEW id
  PROVE  id \in Ids(b[q]) <=> id \in RestingIds(b) /\ QueueOf(get(b, id)) = q
<1>1. ASSUME id \in Ids(b[q]) PROVE id \in RestingIds(b) /\ QueueOf(get(b, id)) = q
  <2>1. PICK i \in DOMAIN b[q] : b[q][i].id = id  BY <1>1 DEF Ids
  <2> QED  BY <2>1, RestsAt
<1>2. ASSUME id \in RestingIds(b), QueueOf(get(b, id)) = q PROVE id \in Ids(b[q])
  <2>1. PICK i : i \in DOMAIN b[q] /\ b[q][i].id = id
    BY <1>2, RestsSomewhere
  <2> QED  BY <2>1 DEF Ids
<1> QED  BY <1>1, <1>2

\* A new size changes the quantity of the one order only.
LEMMA ResizeGet ==
  ASSUME NEW b, SoundBook(b), NEW x, NEW new_qty \in Qty, new_qty > 0,
         NEW c, c = Resize(b, x, new_qty), NEW id \in RestingIds(b)
  PROVE  get(c, id) = IF id = x THEN [get(b, id) EXCEPT !.qty = new_qty] ELSE get(b, id)
<1>1. b \in Book /\ SoundBook(c)  BY ResizeSound DEF SoundBook
<1>2. PICK k \in Queue : \E i \in DOMAIN b[k] : b[k][i].id = id
  BY <1>1, RestingMeans
<1>3. PICK i \in DOMAIN b[k] : b[k][i].id = id  BY <1>2
<1>4. get(b, id) = b[k][i]  BY <1>3, RestsAt
<1>5. /\ c[k] = [j \in DOMAIN b[k] |->
                   IF b[k][j].id = x THEN [b[k][j] EXCEPT !.qty = new_qty] ELSE b[k][j]]
  BY <1>1 DEF Resize, Book
<1>6. /\ i \in DOMAIN c[k]
      /\ c[k][i] = IF id = x THEN [b[k][i] EXCEPT !.qty = new_qty] ELSE b[k][i]
  BY <1>3, <1>5
<1>7. c[k][i].id = id  BY <1>1, <1>3, ResizeEffect
<1>8. get(c, id) = c[k][i]
  <2>1. PICK d : d = c  OBVIOUS
  <2>2. SoundBook(d) /\ i \in DOMAIN d[k] /\ id = d[k][i].id  BY <1>1, <1>6, <1>7, <2>1
  <2>3. get(d, id) = d[k][i]  BY ONLY k \in Queue, <2>2, RestsAt
  <2> QED  BY <2>1, <2>3
<1> QED  BY <1>4, <1>6, <1>8

-----------------------------------------------------------------------------
(* What an accepted operation does *)

\* Whether an operation on a resting order takes it out.
Drops(op) == op.kind = "Remove" \/ op.new_qty = 0

\* One order joins, leaves or changes its size.
AcceptedAs(b, op, c) ==
    \/ /\ IsAdd(op) /\ op.order \in Order /\ op.order.qty > 0
       /\ op.order.id \notin RestingIds(b)
       /\ c = AppendOrder(b, op.order)
    \/ /\ ~IsAdd(op) /\ op.id \in RestingIds(b) /\ Drops(op)
       /\ c = DropOrder(b, op.id)
    \/ /\ ~IsAdd(op) /\ op.id \in RestingIds(b) /\ ~Drops(op)
       /\ op.new_qty \in Qty /\ op.new_qty > 0
       /\ c = Resize(b, op.id, op.new_qty)

\* What apply_op accepts it does in one of these ways, chosen by the operation.
LEMMA ApplyAccepted ==
  ASSUME NEW b, NEW op \in BookOp, apply_op(b, op).result = "Ok"
  PROVE  AcceptedAs(b, op, apply_op(b, op).book)
<1> USE DEF IsAdd
<1>1. CASE op.kind = "Add"
  <2>1. op.order \in Order  BY <1>1 DEF BookOp
  <2>2. op.order.qty # 0 /\ op.order.id \notin RestingIds(b)  BY <1>1, AddAnswer
  <2>3. apply_op(b, op).book = AppendOrder(b, op.order)
    BY <1>1, <2>2 DEF apply_op, add, Done
  <2>4. op.order.qty > 0  BY <2>1, <2>2, QtyLimitAssumption DEF Order, Qty
  <2> QED  BY <1>1, <2>1, <2>2, <2>3, <2>4 DEF AcceptedAs
<1>2. CASE op.kind = "Remove"
  <2>1. apply_op(b, op) = remove(b, op.id)  BY <1>2 DEF apply_op
  <2>2. op.id \in RestingIds(b)  BY <2>1, RemoveAnswer
  <2>3. apply_op(b, op).book = DropOrder(b, op.id)  BY <2>1, <2>2 DEF remove, Done
  <2> QED  BY <1>2, <2>2, <2>3 DEF AcceptedAs, Drops
<1>3. CASE op.kind = "UpdateSize"
  <2>1. apply_op(b, op) = update_size(b, op.id, op.new_qty) /\ op.new_qty \in Qty
    BY <1>3 DEF apply_op, BookOp
  <2>2. op.id \in RestingIds(b) /\ ~(op.new_qty >= get(b, op.id).qty)
    BY <2>1, UpdateAnswer
  <2>3. CASE op.new_qty = 0
    <3>1. apply_op(b, op).book = DropOrder(b, op.id)
      BY <2>1, <2>2, <2>3 DEF update_size, remove, Done
    <3> QED  BY <1>3, <2>2, <2>3, <3>1 DEF AcceptedAs, Drops
  <2>4. CASE op.new_qty # 0
    <3>1. apply_op(b, op).book = Resize(b, op.id, op.new_qty)
      BY <2>1, <2>2, <2>4 DEF update_size, Done
    <3>2. op.new_qty > 0  BY <2>1, <2>4, QtyLimitAssumption DEF Qty
    <3> QED  BY <1>3, <2>1, <2>2, <2>4, <3>1, <3>2 DEF AcceptedAs, Drops
  <2> QED  BY <2>3, <2>4
<1>4. CASE op.kind = "AmendSize"
  <2>1. apply_op(b, op) = amend_size(b, op.id, op.new_qty) /\ op.new_qty \in Qty
    BY <1>4 DEF apply_op, BookOp
  <2>2. op.id \in RestingIds(b)  BY <2>1, AmendAnswer
  <2>3. CASE op.new_qty = 0
    <3>1. apply_op(b, op).book = DropOrder(b, op.id)
      BY <2>1, <2>2, <2>3 DEF amend_size, amend_size_with_policy, remove, Done
    <3> QED  BY <1>4, <2>2, <2>3, <3>1 DEF AcceptedAs, Drops
  <2>4. CASE op.new_qty # 0
    <3>1. apply_op(b, op).book = Resize(b, op.id, op.new_qty)
      BY <2>1, <2>2, <2>4 DEF amend_size, amend_size_with_policy, Done
    <3>2. op.new_qty > 0  BY <2>1, <2>4, QtyLimitAssumption DEF Qty
    <3> QED  BY <1>4, <2>1, <2>2, <2>4, <3>1, <3>2 DEF AcceptedAs, Drops
  <2> QED  BY <2>3, <2>4
<1> QED  BY <1>1, <1>2, <1>3, <1>4, OpShapes

\* The orders of other ids stay as they were, in the same order.
OthersStay(b, c, x) ==
    /\ RestingIds(c) \subseteq RestingIds(b) \cup {x}
    /\ \A id \in RestingIds(b) : id # x =>
         /\ id \in RestingIds(c)
         /\ get(c, id) = get(b, id)
         /\ Ahead(c, id) \ {x} = Ahead(b, id) \ {x}

\* What is accepted touches one order.
LEMMA AcceptedTouchesOne ==
  ASSUME NEW b, SoundBook(b), NEW op \in BookOp, NEW c, AcceptedAs(b, op, c)
  PROVE  SoundBook(c) /\ OthersStay(b, c, IdOf(op))
<1>1. CASE /\ IsAdd(op) /\ op.order \in Order /\ op.order.qty > 0
           /\ op.order.id \notin RestingIds(b)
           /\ c = AppendOrder(b, op.order)
  <2>1. IdOf(op) = op.order.id  BY <1>1 DEF IdOf, IsAdd
  <2>2. PICK o : o = op.order  OBVIOUS
  <2>3. o \in Order /\ o.qty > 0 /\ o.id \notin RestingIds(b) /\ c = AppendOrder(b, o)
    BY <1>1, <2>2
  <2>4. SoundBook(c) /\ RestingIds(c) = RestingIds(b) \cup {o.id}  BY ONLY <2>3, SoundBook(b), AppendSound
  <2>5. \A id \in RestingIds(b) : get(c, id) = get(b, id) /\ Ahead(c, id) = Ahead(b, id)
    BY <2>3, AppendAhead
  <2> QED  BY <2>1, <2>2, <2>4, <2>5 DEF OthersStay
<1>2. CASE /\ ~IsAdd(op) /\ op.id \in RestingIds(b) /\ c = DropOrder(b, op.id)
  <2>1. IdOf(op) = op.id  BY <1>2 DEF IdOf, IsAdd
  <2>2. PICK x : x = op.id  OBVIOUS
  <2>3. x \in RestingIds(b) /\ c = DropOrder(b, x)  BY <1>2, <2>2
  <2>4. SoundBook(c) /\ RestingIds(c) = RestingIds(b) \ {x}  BY <2>3, DropSound
  <2>5. \A id \in RestingIds(b) : id # x =>
          get(c, id) = get(b, id) /\ Ahead(c, id) = Ahead(b, id) \ {x}
    BY <2>3, DropAhead
  <2> QED  BY <2>1, <2>2, <2>4, <2>5 DEF OthersStay
<1>3. CASE /\ ~IsAdd(op) /\ op.id \in RestingIds(b)
           /\ op.new_qty \in Qty /\ op.new_qty > 0
           /\ c = Resize(b, op.id, op.new_qty)
  <2>1. IdOf(op) = op.id  BY <1>3 DEF IdOf, IsAdd
  <2>2. PICK x : x = op.id  OBVIOUS
  <2>0. PICK n : n = op.new_qty  OBVIOUS
  <2>3. n \in Qty /\ n > 0 /\ c = Resize(b, x, n)  BY <1>3, <2>0, <2>2
  <2>4. SoundBook(c) /\ RestingIds(c) = RestingIds(b)  BY <2>3, ResizeSound
  <2>5. \A id \in RestingIds(b) : Ahead(c, id) = Ahead(b, id)
    BY <2>3, ResizeAhead
  <2>6. \A id \in RestingIds(b) : id # x => get(c, id) = get(b, id)
    BY <2>3, ResizeGet
  <2> QED  BY <2>1, <2>2, <2>4, <2>5, <2>6 DEF OthersStay
<1> QED  BY <1>1, <1>2, <1>3 DEF AcceptedAs

\* Any operation, accepted or not, touches one order.
LEMMA ApplyTouchesOne ==
  ASSUME NEW b, SoundBook(b), NEW op \in BookOp, NEW c, c = apply_op(b, op).book
  PROVE  SoundBook(c) /\ OthersStay(b, c, IdOf(op))
<1>1. CASE apply_op(b, op).result = "Ok"
  BY <1>1, ApplyAccepted, AcceptedTouchesOne
<1>2. CASE apply_op(b, op).result # "Ok"
  <2>1. c = b  BY <1>2, ApplyAnswer
  <2> QED  BY <2>1 DEF OthersStay
<1> QED  BY <1>1, <1>2

\* So does any operation under any policy.
LEMMA PolicyTouchesOne ==
  ASSUME NEW b, SoundBook(b), NEW op \in BookOp, NEW policy \in ReplayPolicy,
         NEW c, c = apply_op_with_policy(b, op, policy).book
  PROVE  SoundBook(c) /\ OthersStay(b, c, IdOf(op))
<1> DEFINE step == apply_op_with_policy(b, op, policy)
<1>1. CASE \E t, reason, error : step = Tolerated(b, t, reason, error)
  <2>1. c = b  BY <1>1 DEF Tolerated, Outcome
  <2> QED  BY <2>1 DEF OthersStay
<1>2. CASE op.kind = "UpdateSize" /\ step = Answered(amend_size(b, op.id, op.new_qty), "Coerced")
  <2>1. PICK am : am = [kind |-> "AmendSize", id |-> op.id, new_qty |-> op.new_qty]  OBVIOUS
  <2>2. am \in BookOp /\ IdOf(am) = IdOf(op)
    <3>1. op.id \in OrderId /\ op.new_qty \in Qty  BY <1>2 DEF BookOp
    <3> QED  BY <1>2, <2>1, <3>1 DEF BookOp, IdOf
  <2>3. apply_op(b, am) = amend_size(b, op.id, op.new_qty)  BY <2>1 DEF apply_op
  <2>4. c = apply_op(b, am).book  BY <1>2, <2>3 DEF Answered, Outcome
  <2> QED  BY <2>2, <2>4, ApplyTouchesOne
<1>3. CASE step = Answered(apply_op(b, op), "Applied")
  <2>1. c = apply_op(b, op).book  BY <1>3 DEF Answered, Outcome
  <2> QED  BY <2>1, ApplyTouchesOne
<1> QED  BY <1>1, <1>2, <1>3, PolicyCases

\* A book that gets at most one more order stays finite.
LEMMA StaysFinite ==
  ASSUME NEW b, NEW c, NEW x, OthersStay(b, c, x), IsFiniteSet(RestingIds(b))
  PROVE  IsFiniteSet(RestingIds(c))
<1>1. IsFiniteSet(RestingIds(b) \cup {x})  BY FS_AddElement
<1> QED  BY <1>1, FS_Subset DEF OthersStay

-----------------------------------------------------------------------------
(* Two books under the same operations *)

\* Two books agree on the ids outside T: the same of them rest, as the same
\* orders, in the same order.
Agrees(r, f, T) ==
    \A id \in OrderId \ T :
        /\ id \in RestingIds(r) <=> id \in RestingIds(f)
        /\ id \in RestingIds(f) =>
             /\ get(r, id) = get(f, id)
             /\ Ahead(r, id) \ T = Ahead(f, id) \ T

\* What touches one order of a book leaves the others in agreement.
LEMMA AgreeOutside ==
  ASSUME NEW r, NEW f, NEW T, NEW r2, NEW f2, NEW x, NEW T2,
         Agrees(r, f, T), OthersStay(f, f2, x), OthersStay(r, r2, x),
         T \cup {x} \subseteq T2
  PROVE  Agrees(r2, f2, T2)
<1> SUFFICES ASSUME NEW id \in OrderId, id \notin T2
             PROVE  /\ id \in RestingIds(r2) <=> id \in RestingIds(f2)
                    /\ id \in RestingIds(f2) =>
                         /\ get(r2, id) = get(f2, id)
                         /\ Ahead(r2, id) \ T2 = Ahead(f2, id) \ T2
  BY DEF Agrees
<1>1. id \notin T /\ id # x  OBVIOUS
<1>2. id \in RestingIds(r2) <=> id \in RestingIds(r)  BY <1>1 DEF OthersStay
<1>3. id \in RestingIds(f2) <=> id \in RestingIds(f)  BY <1>1 DEF OthersStay
<1>4. id \in RestingIds(r) <=> id \in RestingIds(f)  BY <1>1 DEF Agrees
<1>5. ASSUME id \in RestingIds(f2)
      PROVE  get(r2, id) = get(f2, id) /\ Ahead(r2, id) \ T2 = Ahead(f2, id) \ T2
  <2>1. get(r, id) = get(f, id) /\ Ahead(r, id) \ T = Ahead(f, id) \ T
    BY <1>1, <1>3, <1>5 DEF Agrees
  <2>2. get(r2, id) = get(r, id) /\ Ahead(r2, id) \ {x} = Ahead(r, id) \ {x}
    BY <1>1, <1>2, <1>3, <1>4, <1>5 DEF OthersStay
  <2>3. get(f2, id) = get(f, id) /\ Ahead(f2, id) \ {x} = Ahead(f, id) \ {x}
    BY <1>1, <1>3, <1>5 DEF OthersStay
  <2>4. Ahead(r2, id) \ T2 = Ahead(f2, id) \ T2  BY <2>1, <2>2, <2>3
  <2> QED  BY <2>1, <2>2, <2>3, <2>4
<1> QED  BY <1>2, <1>3, <1>4, <1>5

\* Two books that agree hold the same of the ids outside T in every queue.
LEMMA SameQueues ==
  ASSUME NEW r, SoundBook(r), NEW f, SoundBook(f), NEW T, Agrees(r, f, T), NEW q \in Queue
  PROVE  Ids(r[q]) \ T = Ids(f[q]) \ T
<1> SUFFICES ASSUME NEW id, id \notin T PROVE id \in Ids(r[q]) <=> id \in Ids(f[q])
  OBVIOUS
<1>1. ASSUME NEW b, SoundBook(b), id \in Ids(b[q]) PROVE id \in OrderId
  <2>1. PICK i \in DOMAIN b[q] : b[q][i].id = id  BY <1>1 DEF Ids
  <2>2. b[q][i] \in Order  BY <1>1, <2>1, QueuesAreSequences DEF SoundBook
  <2> QED  BY <2>1, <2>2 DEF Order
<1>2. CASE id \notin OrderId  BY <1>1, <1>2
<1>3. CASE id \in OrderId
  <2>1. id \in RestingIds(r) <=> id \in RestingIds(f)  BY <1>3 DEF Agrees
  <2>2. id \in RestingIds(f) => get(r, id) = get(f, id)  BY <1>3 DEF Agrees
  <2>3. id \in Ids(r[q]) <=> id \in RestingIds(r) /\ QueueOf(get(r, id)) = q
    BY QueueHolds
  <2>4. id \in Ids(f[q]) <=> id \in RestingIds(f) /\ QueueOf(get(f, id)) = q
    BY QueueHolds
  <2> QED  BY <2>1, <2>2, <2>3, <2>4
<1> QED  BY <1>2, <1>3

\* A new order that both books take.
LEMMA AgreeOnAppend ==
  ASSUME NEW r, SoundBook(r), NEW f, SoundBook(f), NEW T, Agrees(r, f, T),
         NEW order \in Order, order.qty > 0,
         order.id \notin RestingIds(r), order.id \notin RestingIds(f),
         NEW r2, r2 = AppendOrder(r, order), NEW f2, f2 = AppendOrder(f, order)
  PROVE  Agrees(r2, f2, T)
<1>1. RestingIds(r2) = RestingIds(r) \cup {order.id}  BY AppendSound
<1>2. RestingIds(f2) = RestingIds(f) \cup {order.id}  BY AppendSound
<1>3. /\ \A id \in RestingIds(r) : get(r2, id) = get(r, id) /\ Ahead(r2, id) = Ahead(r, id)
      /\ get(r2, order.id) = order
      /\ Ahead(r2, order.id) = Ids(r[QueueOf(order)])
  BY AppendAhead
<1>4. /\ \A id \in RestingIds(f) : get(f2, id) = get(f, id) /\ Ahead(f2, id) = Ahead(f, id)
      /\ get(f2, order.id) = order
      /\ Ahead(f2, order.id) = Ids(f[QueueOf(order)])
  BY AppendAhead
<1>5. Ids(r[QueueOf(order)]) \ T = Ids(f[QueueOf(order)]) \ T
  <2>1. QueueOf(order) \in Queue  BY DEF QueueOf, Queue, Order
  <2> QED  BY <2>1, SameQueues
<1> SUFFICES ASSUME NEW id \in OrderId \ T
             PROVE  /\ id \in RestingIds(r2) <=> id \in RestingIds(f2)
                    /\ id \in RestingIds(f2) =>
                         /\ get(r2, id) = get(f2, id)
                         /\ Ahead(r2, id) \ T = Ahead(f2, id) \ T
  BY DEF Agrees
<1>6. /\ id \in RestingIds(r) <=> id \in RestingIds(f)
      /\ id \in RestingIds(f) =>
           get(r, id) = get(f, id) /\ Ahead(r, id) \ T = Ahead(f, id) \ T
  BY DEF Agrees
<1>7. CASE id = order.id  BY <1>1, <1>2, <1>3, <1>4, <1>5, <1>7
<1>8. CASE id # order.id  BY <1>1, <1>2, <1>3, <1>4, <1>6, <1>8
<1> QED  BY <1>7, <1>8

\* An order that both books let go.
LEMMA AgreeOnDrop ==
  ASSUME NEW r, SoundBook(r), NEW f, SoundBook(f), NEW T, Agrees(r, f, T),
         NEW x \in RestingIds(r), x \in RestingIds(f),
         NEW r2, r2 = DropOrder(r, x), NEW f2, f2 = DropOrder(f, x)
  PROVE  Agrees(r2, f2, T)
<1>1. RestingIds(r2) = RestingIds(r) \ {x}  BY DropSound
<1>2. RestingIds(f2) = RestingIds(f) \ {x}  BY DropSound
<1>3. \A id \in RestingIds(r) : id # x =>
        get(r2, id) = get(r, id) /\ Ahead(r2, id) = Ahead(r, id) \ {x}
  BY DropAhead
<1>4. \A id \in RestingIds(f) : id # x =>
        get(f2, id) = get(f, id) /\ Ahead(f2, id) = Ahead(f, id) \ {x}
  BY DropAhead
<1> SUFFICES ASSUME NEW id \in OrderId \ T
             PROVE  /\ id \in RestingIds(r2) <=> id \in RestingIds(f2)
                    /\ id \in RestingIds(f2) =>
                         /\ get(r2, id) = get(f2, id)
                         /\ Ahead(r2, id) \ T = Ahead(f2, id) \ T
  BY DEF Agrees
<1>6. /\ id \in RestingIds(r) <=> id \in RestingIds(f)
      /\ id \in RestingIds(f) =>
           get(r, id) = get(f, id) /\ Ahead(r, id) \ T = Ahead(f, id) \ T
  BY DEF Agrees
<1> QED  BY <1>1, <1>2, <1>3, <1>4, <1>6

\* An order that gets the same size in both books.
LEMMA AgreeOnResize ==
  ASSUME NEW r, SoundBook(r), NEW f, SoundBook(f), NEW T, Agrees(r, f, T),
         NEW x, NEW new_qty \in Qty, new_qty > 0,
         NEW r2, r2 = Resize(r, x, new_qty), NEW f2, f2 = Resize(f, x, new_qty)
  PROVE  Agrees(r2, f2, T)
<1>1. RestingIds(r2) = RestingIds(r)  BY ResizeSound
<1>2. RestingIds(f2) = RestingIds(f)  BY ResizeSound
<1>3. \A id \in RestingIds(r) :
        /\ get(r2, id) = IF id = x THEN [get(r, id) EXCEPT !.qty = new_qty] ELSE get(r, id)
        /\ Ahead(r2, id) = Ahead(r, id)
  BY ResizeGet, ResizeAhead
<1>4. \A id \in RestingIds(f) :
        /\ get(f2, id) = IF id = x THEN [get(f, id) EXCEPT !.qty = new_qty] ELSE get(f, id)
        /\ Ahead(f2, id) = Ahead(f, id)
  BY ResizeGet, ResizeAhead
<1> SUFFICES ASSUME NEW id \in OrderId \ T
             PROVE  /\ id \in RestingIds(r2) <=> id \in RestingIds(f2)
                    /\ id \in RestingIds(f2) =>
                         /\ get(r2, id) = get(f2, id)
                         /\ Ahead(r2, id) \ T = Ahead(f2, id) \ T
  BY DEF Agrees
<1>6. /\ id \in RestingIds(r) <=> id \in RestingIds(f)
      /\ id \in RestingIds(f) =>
           get(r, id) = get(f, id) /\ Ahead(r, id) \ T = Ahead(f, id) \ T
  BY DEF Agrees
<1> QED  BY <1>1, <1>2, <1>3, <1>4, <1>6

\* What one of two agreeing books accepts for an id outside T, the other
\* accepts too, and they still agree.
LEMMA AgreeOnAccepted ==
  ASSUME NEW r, SoundBook(r), NEW f, SoundBook(f), NEW T, Agrees(r, f, T),
         NEW op \in BookOp, IdOf(op) \notin T, apply_op(f, op).result = "Ok"
  PROVE  /\ apply_op(r, op).result = "Ok"
         /\ Agrees(apply_op(r, op).book, apply_op(f, op).book, T)
<1>1. IdOf(op) = IF IsAdd(op) THEN op.order.id ELSE op.id  BY DEF IdOf, IsAdd
<1>2. IdOf(op) \in OrderId
  <2>1. CASE IsAdd(op)
    <3>1. op.order \in Order  BY <2>1 DEF BookOp, IsAdd
    <3> QED  BY <1>1, <2>1, <3>1 DEF Order
  <2>2. CASE ~IsAdd(op)
    <3>1. op.id \in OrderId  BY <2>2 DEF BookOp, IsAdd
    <3> QED  BY <1>1, <2>2, <3>1
  <2> QED  BY <2>1, <2>2
<1>3. /\ IdOf(op) \in RestingIds(r) <=> IdOf(op) \in RestingIds(f)
      /\ IdOf(op) \in RestingIds(f) => get(r, IdOf(op)) = get(f, IdOf(op))
  BY <1>2 DEF Agrees
<1>4. apply_op(r, op).result = "Ok"
  <2>1. CASE IsAdd(op)  BY <1>1, <1>3, <2>1, ApplyAnswer
  <2>2. CASE ~IsAdd(op)
    <3>1. op.id \in RestingIds(f) /\ ~Grows(f, op)  BY <2>2, ApplyAnswer
    <3>2. op.id \in RestingIds(r) /\ get(r, op.id) = get(f, op.id)
      BY <1>1, <1>3, <2>2, <3>1
    <3>3. ~Grows(r, op)  BY <3>1, <3>2 DEF Grows
    <3> QED  BY <2>2, <3>2, <3>3, ApplyAnswer
  <2> QED  BY <2>1, <2>2
<1>5. PICK r2, f2 : r2 = apply_op(r, op).book /\ f2 = apply_op(f, op).book  OBVIOUS
<1>6. AcceptedAs(r, op, r2) /\ AcceptedAs(f, op, f2)  BY <1>4, <1>5, ApplyAccepted
<1>7. Agrees(r2, f2, T)
  <2>1. CASE IsAdd(op)
    <3>1. PICK o : o = op.order  OBVIOUS
    <3>2. /\ o \in Order /\ o.qty > 0
          /\ o.id \notin RestingIds(r) /\ o.id \notin RestingIds(f)
          /\ r2 = AppendOrder(r, o) /\ f2 = AppendOrder(f, o)
      BY <1>6, <2>1, <3>1 DEF AcceptedAs
    <3> QED  BY <3>2, AgreeOnAppend
  <2>2. CASE ~IsAdd(op) /\ Drops(op)
    <3>1. PICK x : x = op.id  OBVIOUS
    <3>2. /\ x \in RestingIds(r) /\ x \in RestingIds(f)
          /\ r2 = DropOrder(r, x) /\ f2 = DropOrder(f, x)
      BY <1>6, <2>2, <3>1 DEF AcceptedAs
    <3> QED  BY <3>2, AgreeOnDrop
  <2>3. CASE ~IsAdd(op) /\ ~Drops(op)
    <3>1. PICK x, n : x = op.id /\ n = op.new_qty  OBVIOUS
    <3>2. n \in Qty /\ n > 0 /\ r2 = Resize(r, x, n) /\ f2 = Resize(f, x, n)
      BY <1>6, <2>3, <3>1 DEF AcceptedAs
    <3> QED  BY <3>2, AgreeOnResize
  <2> QED  BY <2>1, <2>2, <2>3
<1> QED  BY <1>4, <1>5, <1>7

-----------------------------------------------------------------------------
(* Numbers *)

\* The order of the numbers, as a relation.
Below == {pair \in Nat \X Nat : pair[1] < pair[2]}

\* A set of numbers that is not empty has a least one.
LEMMA LeastNumber ==
  ASSUME NEW T, T \subseteq Nat, T # {}
  PROVE  \E n \in T : \A m \in T : n <= m
<1>1. IsWellFoundedOn(Below, Nat)
  BY NatLessThanWellFounded DEF OpToRel, Below
<1>2. PICK n \in T : \A m \in T : ~(<<m, n>> \in Below)
  BY <1>1, WFMin
<1>3. ASSUME NEW m \in T PROVE n <= m
  <2>1. m \in Nat /\ n \in Nat  OBVIOUS
  <2>2. <<m, n>> \in Below <=> m < n  BY <2>1 DEF Below
  <2> QED  BY <1>2, <2>1, <2>2
<1> QED  BY <1>3

\* What is true of 0 and passes from every number to the next is true of all.
LEMMA NumbersByInduction ==
  ASSUME NEW S, 0 \in S, \A n \in Nat : n \in S => n + 1 \in S
  PROVE  Nat \subseteq S
<1> SUFFICES ASSUME Nat \ S # {} PROVE FALSE  OBVIOUS
<1>1. PICK n \in Nat \ S : \A m \in Nat \ S : n <= m  BY LeastNumber
<1>2. n # 0 /\ n - 1 \in Nat  BY <1>1
<1>3. n - 1 \in S  BY <1>1, <1>2
<1> QED  BY <1>1, <1>2, <1>3

-----------------------------------------------------------------------------
(* The prices of a side, best first *)

\* A finite set of numbers, in ascending order.
Ascends(s, T) ==
    /\ s \in [1 .. Cardinality(T) -> T]
    /\ \A p \in T : \E i \in DOMAIN s : s[i] = p
    /\ \A i, j \in DOMAIN s : i < j => s[i] < s[j]

\* Every finite set of numbers can be put in ascending order.
LEMMA AscendingList ==
  ASSUME NEW T, T \subseteq Nat, IsFiniteSet(T)
  PROVE  \E s : Ascends(s, T)
<1> DEFINE S == {n \in Nat : \A U \in SUBSET Nat :
                    IsFiniteSet(U) /\ Cardinality(U) = n => \E s : Ascends(s, U)}
<1>1. 0 \in S
  <2> SUFFICES ASSUME NEW U \in SUBSET Nat, IsFiniteSet(U), Cardinality(U) = 0
               PROVE  \E s : Ascends(s, U)
    OBVIOUS
  <2>1. U = {}  BY FS_EmptySet
  <2>2. PICK s : s = [i \in 1 .. 0 |-> i]  OBVIOUS
  <2>3. DOMAIN s = {} /\ s \in [{} -> U]  BY <2>1, <2>2
  <2>4. 1 .. Cardinality(U) = {}  OBVIOUS
  <2>5. Ascends(s, U)  BY <2>1, <2>3, <2>4 DEF Ascends
  <2> QED  BY <2>5
<1>2. ASSUME NEW n \in Nat, n \in S PROVE n + 1 \in S
  <2> SUFFICES ASSUME NEW U \in SUBSET Nat, IsFiniteSet(U), Cardinality(U) = n + 1
               PROVE  \E s : Ascends(s, U)
    OBVIOUS
  <2>1. U # {}  BY FS_EmptySet
  <2>2. PICK x \in U : \A y \in U : x <= y  BY <2>1, LeastNumber
  <2> DEFINE V == U \ {x}
  <2>3. IsFiniteSet(V) /\ Cardinality(V) = n
    <3>1. IsFiniteSet(V) /\ Cardinality(V) = Cardinality(U) - 1
      BY FS_RemoveElement, <2>2
    <3> QED  BY <3>1
  <2>4. V \in SUBSET Nat  OBVIOUS
  <2>5. PICK s : Ascends(s, V)  BY <1>2, <2>3, <2>4
  <2>6. \A y \in V : x < y /\ y \in U /\ y \in Nat
    BY <2>2
  <2>7. \A y \in U : y = x \/ y \in V  OBVIOUS
  <2>8. x \in Nat  OBVIOUS
  <2> HIDE DEF V
  <2>9. /\ DOMAIN s = 1 .. n /\ \A i \in 1 .. n : s[i] \in V
        /\ \A p \in V : \E i \in 1 .. n : s[i] = p
        /\ \A i, j \in 1 .. n : i < j => s[i] < s[j]
    BY <2>3, <2>5 DEF Ascends
  <2>10. PICK t : t = [i \in 1 .. (n + 1) |-> IF i = 1 THEN x ELSE s[i - 1]]  OBVIOUS
  <2>11. \A i \in 2 .. (n + 1) : i - 1 \in 1 .. n /\ t[i] = s[i - 1] /\ t[i] \in V
    BY <2>9, <2>10
  <2>12. t[1] = x /\ DOMAIN t = 1 .. (n + 1)  BY <2>10
  <2>13. t \in [1 .. (n + 1) -> U]
    <3>1. ASSUME NEW i \in 1 .. (n + 1) PROVE t[i] \in U
      <4>1. CASE i = 1  BY <2>12, <4>1
      <4>2. CASE i # 1  BY <2>6, <2>11, <4>2
      <4> QED  BY <4>1, <4>2
    <3> QED  BY <2>10, <3>1
  <2>14. ASSUME NEW p \in U PROVE \E i \in DOMAIN t : t[i] = p
    <3>1. CASE p = x  BY <2>12, <3>1
    <3>2. CASE p \in V
      <4>1. PICK i \in 1 .. n : s[i] = p  BY <2>9, <3>2
      <4>2. i + 1 \in 2 .. (n + 1) /\ (i + 1) - 1 = i  OBVIOUS
      <4>3. t[i + 1] = p /\ i + 1 \in DOMAIN t  BY <2>11, <2>12, <4>1, <4>2
      <4> QED  BY <4>3
    <3> QED  BY <2>7, <3>1, <3>2
  <2>15. ASSUME NEW i \in DOMAIN t, NEW j \in DOMAIN t, i < j PROVE t[i] < t[j]
    <3>1. i \in 1 .. (n + 1) /\ j \in 2 .. (n + 1)  BY <2>12, <2>15
    <3>2. CASE i = 1  BY <2>6, <2>11, <2>12, <3>1, <3>2
    <3>3. CASE i # 1
      <4>1. i \in 2 .. (n + 1) /\ i - 1 < j - 1  BY <2>15, <3>1, <3>3
      <4> QED  BY <2>9, <2>11, <3>1, <4>1
    <3> QED  BY <3>2, <3>3
  <2>16. Ascends(t, U)  BY <2>13, <2>14, <2>15 DEF Ascends
  <2> QED  BY <2>16
<1> HIDE DEF S
<1>3. Nat \subseteq S  BY <1>1, <1>2, NumbersByInduction
<1>4. Cardinality(T) \in Nat  BY FS_CardinalityType
<1> QED  BY <1>3, <1>4 DEF S

\* The prices of a side that have orders.
PricesOf(b, side) == {p \in Price : b[<<side, p>>] # <<>>}

\* Prices from the best to the worst, each once.
BestFirst(best, side, prices) ==
    /\ best \in [1 .. Cardinality(prices) -> prices]
    /\ \A p \in prices : \E i \in DOMAIN best : best[i] = p
    /\ \A i, j \in DOMAIN best : i < j => Better(side, best[i], best[j])

\* depth lists the prices of a side, best first.
LEMMA DepthIsSorted ==
  ASSUME NEW b, NEW side \in Side, IsFiniteSet(PricesOf(b, side))
  PROVE  BestFirst(depth(b, side), side, PricesOf(b, side))
<1> DEFINE T == PricesOf(b, side)
           n == Cardinality(T)
<1>1. T \subseteq Nat  BY PriceAssumption DEF PricesOf
<1>2. n \in Nat  BY FS_CardinalityType
<1>3. PICK s : Ascends(s, T)  BY <1>1, AscendingList
<1>4. depth(b, side) = CHOOSE best : BestFirst(best, side, T)
  <2>1. depth(b, side) =
          CHOOSE best \in [1 .. n -> T] :
            /\ \A p \in T : \E i \in DOMAIN best : best[i] = p
            /\ \A i, j \in DOMAIN best : i < j => Better(side, best[i], best[j])
    BY DEF depth, PricesOf
  <2> HIDE DEF T, n
  <2> QED  BY <2>1 DEF BestFirst, n
<1> HIDE DEF T
<1>5. /\ s \in [1 .. n -> T] /\ DOMAIN s = 1 .. n
      /\ \A i \in 1 .. n : s[i] \in T /\ s[i] \in Nat
      /\ \A p \in T : \E i \in 1 .. n : s[i] = p
      /\ \A i, j \in 1 .. n : i < j => s[i] < s[j]
  BY <1>1, <1>3 DEF Ascends
<1> HIDE DEF n
<1>6. CASE side # "Bid"
  <2>1. BestFirst(s, side, T)  BY <1>5, <1>6 DEF BestFirst, Better, n
  <2> QED  BY <1>4, <2>1 DEF T
<1>7. CASE side = "Bid"
  <2>1. PICK t : t = [i \in 1 .. n |-> s[n + 1 - i]]  OBVIOUS
  <2>2. \A i \in 1 .. n : n + 1 - i \in 1 .. n /\ n + 1 - (n + 1 - i) = i /\ t[i] = s[n + 1 - i]
    BY <1>2, <2>1
  <2>3. t \in [1 .. n -> T] /\ DOMAIN t = 1 .. n  BY <1>5, <2>1, <2>2
  <2>4. \A p \in T : \E i \in DOMAIN t : t[i] = p
    <3> SUFFICES ASSUME NEW p \in T PROVE \E i \in DOMAIN t : t[i] = p
      OBVIOUS
    <3>1. PICK i \in 1 .. n : s[i] = p  BY <1>5
    <3>2. t[n + 1 - i] = p /\ n + 1 - i \in DOMAIN t  BY <2>2, <2>3, <3>1
    <3> QED  BY <3>2
  <2>5. ASSUME NEW i \in DOMAIN t, NEW j \in DOMAIN t, i < j PROVE Better(side, t[i], t[j])
    <3>1. /\ n + 1 - i \in 1 .. n /\ n + 1 - j \in 1 .. n /\ n + 1 - j < n + 1 - i
          /\ t[i] = s[n + 1 - i] /\ t[j] = s[n + 1 - j]
      BY <1>2, <2>2, <2>3, <2>5
    <3>2. t[j] < t[i] /\ t[i] \in Nat /\ t[j] \in Nat  BY <1>5, <3>1
    <3> QED  BY <1>7, <3>2 DEF Better
  <2>6. BestFirst(t, side, T)  BY <2>3, <2>4, <2>5 DEF BestFirst, n
  <2> QED  BY <1>4, <2>6 DEF T
<1> QED  BY <1>6, <1>7

-----------------------------------------------------------------------------
(* Lists of the resting orders *)

\* A sequence that has each order of some queues once, those of a queue in its
\* order.
Listing(orders, b, queues) ==
    /\ orders \in Seq(Order)
    /\ \A n \in DOMAIN orders :
         /\ orders[n].id \in RestingIds(b)
         /\ orders[n] = get(b, orders[n].id)
         /\ QueueOf(orders[n]) \in queues
    /\ \A id \in RestingIds(b) :
         QueueOf(get(b, id)) \in queues => \E n \in DOMAIN orders : orders[n].id = id
    /\ \A m, n \in DOMAIN orders : m < n =>
         /\ orders[m].id # orders[n].id
         /\ QueueOf(orders[m]) = QueueOf(orders[n]) => orders[m].id \in Ahead(b, orders[n].id)

\* A queue lists itself.
LEMMA QueueIsListed ==
  ASSUME NEW b, SoundBook(b), NEW k \in Queue
  PROVE  Listing(b[k], b, {k})
<1>1. b \in Book /\ b[k] \in Seq(Order) /\ Len(b[k]) \in Nat /\ DOMAIN b[k] = 1 .. Len(b[k])
  BY QueuesAreSequences DEF SoundBook
<1>2. ASSUME NEW n \in DOMAIN b[k]
      PROVE  /\ b[k][n].id \in RestingIds(b)
             /\ b[k][n] = get(b, b[k][n].id)
             /\ QueueOf(b[k][n]) = k
             /\ Ahead(b, b[k][n].id) = Before(b[k], n)
  BY RestsAt
<1>3. ASSUME NEW id \in RestingIds(b), QueueOf(get(b, id)) = k
      PROVE  \E n \in DOMAIN b[k] : b[k][n].id = id
  BY <1>3, RestsSomewhere
<1>4. ASSUME NEW m \in DOMAIN b[k], NEW n \in DOMAIN b[k], m < n
      PROVE  b[k][m].id # b[k][n].id /\ b[k][m].id \in Ahead(b, b[k][n].id)
  <2>1. m \in 1 .. (n - 1)  BY <1>1, <1>4
  <2>2. b[k][m].id \in Before(b[k], n)  BY <2>1 DEF Before
  <2>3. m # n  BY <1>1, <1>4
  <2>4. b[k][m].id # b[k][n].id  BY <2>3 DEF SoundBook, OneOrderPerId
  <2> QED  BY <1>2, <2>2, <2>4
<1> QED  BY <1>1, <1>2, <1>3, <1>4 DEF Listing

\* Nothing lists no queues.
LEMMA NothingIsListed ==
  ASSUME NEW b, NEW orders \in Seq(Order), Len(orders) = 0
  PROVE  Listing(orders, b, {})
<1>1. DOMAIN orders = {}  OBVIOUS
<1> QED  BY <1>1 DEF Listing

\* Lists of different queues, one after the other.
LEMMA ListsTogether ==
  ASSUME NEW b, NEW Q, NEW R, Q \cap R = {}, NEW x, NEW y,
         Listing(x, b, Q), Listing(y, b, R), NEW z, z = x \o y
  PROVE  Listing(z, b, Q \cup R)
<1>1. /\ x \in Seq(Order) /\ y \in Seq(Order)
      /\ Len(x) \in Nat /\ Len(y) \in Nat
      /\ DOMAIN x = 1 .. Len(x) /\ DOMAIN y = 1 .. Len(y)
  BY LenProperties DEF Listing
<1>2. /\ z \in Seq(Order) /\ Len(z) = Len(x) + Len(y)
      /\ \A i \in 1 .. Len(x) + Len(y) : z[i] = IF i <= Len(x) THEN x[i] ELSE y[i - Len(x)]
  BY <1>1, ConcatProperties
<1>3. DOMAIN z = 1 .. Len(x) + Len(y)  BY <1>2, LenProperties
<1>4. \A i \in DOMAIN x : i \in DOMAIN z /\ z[i] = x[i]  BY <1>1, <1>2, <1>3
<1>5. \A i \in DOMAIN y : i + Len(x) \in DOMAIN z /\ z[i + Len(x)] = y[i]
  <2> SUFFICES ASSUME NEW i \in DOMAIN y
               PROVE  i + Len(x) \in DOMAIN z /\ z[i + Len(x)] = y[i]
    OBVIOUS
  <2>1. /\ i + Len(x) \in 1 .. Len(x) + Len(y) /\ ~(i + Len(x) <= Len(x))
        /\ (i + Len(x)) - Len(x) = i
    BY <1>1
  <2> QED  BY <1>2, <1>3, <2>1
<1>6. \A i \in DOMAIN z : \/ i \in DOMAIN x /\ z[i] = x[i] /\ i <= Len(x)
                          \/ /\ i - Len(x) \in DOMAIN y /\ z[i] = y[i - Len(x)] /\ i > Len(x)
  <2> SUFFICES ASSUME NEW i \in DOMAIN z
               PROVE  \/ i \in DOMAIN x /\ z[i] = x[i] /\ i <= Len(x)
                      \/ /\ i - Len(x) \in DOMAIN y /\ z[i] = y[i - Len(x)] /\ i > Len(x)
    OBVIOUS
  <2>1. i \in 1 .. Len(x) + Len(y)  BY <1>3
  <2>2. CASE i <= Len(x)  BY <1>1, <1>2, <2>1, <2>2
  <2>3. CASE ~(i <= Len(x))
    <3>1. i - Len(x) \in 1 .. Len(y) /\ i > Len(x)  BY <1>1, <2>1, <2>3
    <3> QED  BY <1>1, <1>2, <2>1, <2>3, <3>1
  <2> QED  BY <2>2, <2>3
<1>7. ASSUME NEW n \in DOMAIN z
      PROVE  /\ z[n].id \in RestingIds(b)
             /\ z[n] = get(b, z[n].id)
             /\ QueueOf(z[n]) \in Q \cup R
  BY <1>6 DEF Listing
<1>8. ASSUME NEW id \in RestingIds(b), QueueOf(get(b, id)) \in Q \cup R
      PROVE  \E n \in DOMAIN z : z[n].id = id
  <2>1. CASE QueueOf(get(b, id)) \in Q
    <3>1. PICK n \in DOMAIN x : x[n].id = id  BY <2>1 DEF Listing
    <3> QED  BY <1>4, <3>1
  <2>2. CASE QueueOf(get(b, id)) \in R
    <3>1. PICK n \in DOMAIN y : y[n].id = id  BY <2>2 DEF Listing
    <3> QED  BY <1>5, <3>1
  <2> QED  BY <1>8, <2>1, <2>2
<1>9. ASSUME NEW m \in DOMAIN z, NEW n \in DOMAIN z, m < n
      PROVE  /\ z[m].id # z[n].id
             /\ QueueOf(z[m]) = QueueOf(z[n]) => z[m].id \in Ahead(b, z[n].id)
  <2>0. m \in Nat /\ n \in Nat  BY <1>3
  <2>1. CASE n \in DOMAIN x /\ z[n] = x[n] /\ n <= Len(x)
    <3>1. m \in DOMAIN x /\ z[m] = x[m]  BY <1>1, <1>4, <1>6, <1>9, <2>0, <2>1
    <3> QED  BY <1>9, <2>1, <3>1 DEF Listing
  <2>2. CASE n - Len(x) \in DOMAIN y /\ z[n] = y[n - Len(x)] /\ n > Len(x)
    <3>1. CASE m \in DOMAIN x /\ z[m] = x[m]
      <4>1. QueueOf(z[m]) \in Q /\ QueueOf(z[n]) \in R
            /\ z[m] = get(b, z[m].id) /\ z[n] = get(b, z[n].id)
        BY <2>2, <3>1 DEF Listing
      <4>2. QueueOf(z[m]) # QueueOf(z[n])  BY <4>1
      <4> QED  BY <4>1, <4>2
    <3>2. CASE m - Len(x) \in DOMAIN y /\ z[m] = y[m - Len(x)]
      <4>1. m - Len(x) < n - Len(x)  BY <1>1, <1>9, <2>0
      <4> QED  BY <2>2, <3>2, <4>1 DEF Listing
    <3> QED  BY <1>6, <3>1, <3>2
  <2> QED  BY <1>6, <2>1, <2>2
<1> QED  BY <1>2, <1>7, <1>8, <1>9 DEF Listing

\* Joining the first n lists one by one, as FlattenSeq does.
JoinedUpTo(n, run, seqs) ==
    /\ run = [i \in 1 .. n |-> run[i]]
    /\ run[1] = seqs[1]
    /\ \A i \in 1 .. (n - 1) : run[i + 1] = run[i] \o seqs[i + 1]

\* The definition of FlattenSeq, unfolded.
LEMMA FlattenJoins ==
  ASSUME NEW S, NEW seqs \in Seq(S), Len(seqs) # 0
  PROVE  \E run : /\ JoinedUpTo(Len(seqs), run, seqs)
                  /\ Lists!FlattenSeq(seqs) = run[Len(seqs)]
<1> DEFINE N == Len(seqs)
<1>0. N \in Nat \ {0}  OBVIOUS
<1> DEFINE T == {n \in Nat : \E f : JoinedUpTo(n + 1, f, seqs)}
<1>1. 0 \in T
  <2>1. PICK f : f = [i \in 1 .. 1 |-> seqs[1]]  OBVIOUS
  <2>2. f = [i \in 1 .. 1 |-> f[i]] /\ f[1] = seqs[1]  BY <2>1
  <2>3. JoinedUpTo(1, f, seqs)  BY <2>2 DEF JoinedUpTo
  <2>4. 0 + 1 = 1  OBVIOUS
  <2>5. JoinedUpTo(0 + 1, f, seqs)  BY <2>3, <2>4
  <2> QED  BY <2>5
<1>2. ASSUME NEW n \in Nat, n \in T PROVE n + 1 \in T
  <2>1. PICK f : JoinedUpTo(n + 1, f, seqs)  BY <1>2
  <2>2. PICK m : m = f[n + 1] \o seqs[n + 2]  OBVIOUS
  <2>3. PICK g : g = [i \in 1 .. (n + 2) |-> IF i = n + 2 THEN m ELSE f[i]]  OBVIOUS
  <2>4. \A i \in 1 .. (n + 1) : g[i] = f[i]
    <3> SUFFICES ASSUME NEW i \in 1 .. (n + 1) PROVE g[i] = f[i]  OBVIOUS
    <3>1. i \in 1 .. (n + 2) /\ i # n + 2  OBVIOUS
    <3> QED  BY <2>3, <3>1
  <2>5. g[n + 2] = m  BY <2>3
  <2>6. ASSUME NEW i \in 1 .. ((n + 2) - 1) PROVE g[i + 1] = g[i] \o seqs[i + 1]
    <3>1. CASE i = n + 1
      <4>1. i + 1 = n + 2 /\ g[i] = f[n + 1]  BY <2>4, <3>1
      <4> QED  BY <2>2, <2>5, <4>1
    <3>2. CASE i # n + 1
      <4>1. i \in 1 .. ((n + 1) - 1) /\ i \in 1 .. (n + 1) /\ i + 1 \in 1 .. (n + 1)  BY <3>2
      <4>2. g[i + 1] = f[i + 1] /\ g[i] = f[i]  BY <2>4, <4>1
      <4>3. f[i + 1] = f[i] \o seqs[i + 1]  BY <2>1, <4>1 DEF JoinedUpTo
      <4> QED  BY <4>2, <4>3
    <3> QED  BY <3>1, <3>2
  <2>7. g = [i \in 1 .. (n + 2) |-> g[i]]  BY <2>3
  <2>8. g[1] = seqs[1]  BY <2>1, <2>4 DEF JoinedUpTo
  <2>9. JoinedUpTo(n + 2, g, seqs)  BY <2>6, <2>7, <2>8 DEF JoinedUpTo
  <2>10. (n + 1) + 1 = n + 2  OBVIOUS
  <2>11. JoinedUpTo((n + 1) + 1, g, seqs)  BY <2>9, <2>10
  <2> QED  BY <2>11
<1>3. N - 1 \in T
  <2> HIDE DEF T
  <2>1. Nat \subseteq T  BY <1>1, <1>2, NumbersByInduction
  <2> QED  BY <1>0, <2>1
<1>4. PICK f : JoinedUpTo(N, f, seqs)
  <2>1. PICK f : JoinedUpTo((N - 1) + 1, f, seqs)  BY <1>3
  <2>2. (N - 1) + 1 = N  BY <1>0
  <2> QED  BY <2>1, <2>2
<1> HIDE DEF T
<1> DEFINE Recurs(h) ==
             h = [i \in 1 .. N |-> IF i = 1 THEN seqs[i] ELSE h[i - 1] \o seqs[i]]
           flatten == CHOOSE h : Recurs(h)
<1>5. Lists!FlattenSeq(seqs) = flatten[Len(seqs)]  BY DEF Lists!FlattenSeq
<1>6. Recurs(f)
  <2>1. ASSUME NEW i \in 1 .. N
        PROVE  f[i] = IF i = 1 THEN seqs[i] ELSE f[i - 1] \o seqs[i]
    <3>1. CASE i = 1  BY <1>4, <3>1 DEF JoinedUpTo
    <3>2. CASE i # 1
      <4>1. i - 1 \in 1 .. (N - 1) /\ (i - 1) + 1 = i  BY <1>0, <3>2
      <4>2. f[(i - 1) + 1] = f[i - 1] \o seqs[(i - 1) + 1]  BY <1>4, <4>1 DEF JoinedUpTo
      <4> QED  BY <3>2, <4>1, <4>2
    <3> QED  BY <3>1, <3>2
  <2>2. f = [i \in 1 .. N |-> f[i]]  BY <1>4 DEF JoinedUpTo
  <2> HIDE DEF N
  <2> QED  BY <2>1, <2>2
<1>7. Recurs(flatten)
  <2> HIDE DEF Recurs
  <2> QED  BY <1>6
<1>8. PICK h : h = flatten  OBVIOUS
<1> HIDE DEF flatten
<1>9. Recurs(h)
  <2> HIDE DEF Recurs
  <2> QED  BY <1>7, <1>8
<1> HIDE DEF N
<1>10. \A i \in 1 .. N : h[i] = IF i = 1 THEN seqs[i] ELSE h[i - 1] \o seqs[i]
  BY <1>9
<1>11. h = [i \in 1 .. N |-> h[i]]  BY <1>9
<1> HIDE DEF Recurs
<1>12. h[1] = seqs[1]  BY <1>0, <1>10
<1>13. ASSUME NEW i \in 1 .. (N - 1) PROVE h[i + 1] = h[i] \o seqs[i + 1]
  <2>1. i + 1 \in 1 .. N /\ i + 1 # 1 /\ (i + 1) - 1 = i  BY <1>0
  <2>2. h[i + 1] = h[(i + 1) - 1] \o seqs[i + 1]  BY <1>10, <2>1
  <2> QED  BY <2>1, <2>2
<1>14. JoinedUpTo(N, h, seqs)  BY <1>11, <1>12, <1>13 DEF JoinedUpTo
<1> QED  BY <1>5, <1>8, <1>14 DEF N

\* The orders of some queues, taken one after the other.
LEMMA FlattenedIsListed ==
  ASSUME NEW b, SoundBook(b), NEW ks \in Seq(Queue),
         \A i, j \in DOMAIN ks : ks[i] = ks[j] => i = j,
         NEW seqs, seqs = [i \in DOMAIN ks |-> b[ks[i]]]
  PROVE  Listing(Lists!FlattenSeq(seqs), b, {ks[i] : i \in DOMAIN ks})
<1> DEFINE N == Len(ks)
           Some(n) == {ks[i] : i \in 1 .. n}
<1>0. N \in Nat /\ DOMAIN ks = 1 .. N /\ b \in Book /\ \A i \in 1 .. N : ks[i] \in Queue
  BY LenProperties DEF SoundBook
<1>1. \A i \in 1 .. N : seqs[i] = b[ks[i]] /\ seqs[i] \in Seq(Order)
  BY <1>0, QueuesAreSequences
<1>2. seqs \in Seq(Seq(Order)) /\ Len(seqs) = N
  <2>1. seqs \in [1 .. N -> Seq(Order)]  BY <1>0, <1>1
  <2>2. seqs \in Seq(Seq(Order))  BY <1>0, <2>1, SeqDef
  <2>3. DOMAIN seqs = 1 .. N /\ DOMAIN seqs = 1 .. Len(seqs) /\ Len(seqs) \in Nat
    BY <2>1, <2>2, LenProperties
  <2> QED  BY <1>0, <2>2, <2>3
<1>3. CASE N = 0
  <2>1. DOMAIN seqs = {} /\ Len(seqs) = 0 /\ seqs = <<>>  BY <1>0, <1>2, <1>3
  <2>2. Lists!FlattenSeq(seqs) = seqs  BY <2>1 DEF Lists!FlattenSeq
  <2>3. {ks[i] : i \in DOMAIN ks} = {}  BY <1>0, <1>3
  <2>4. seqs \in Seq(Order)  BY <2>1
  <2>5. Listing(seqs, b, {})  BY <2>1, <2>4, NothingIsListed
  <2> QED  BY <2>2, <2>3, <2>5
<1>4. CASE N # 0
  <2>1. PICK run : JoinedUpTo(N, run, seqs) /\ Lists!FlattenSeq(seqs) = run[N]
    BY <1>2, <1>4, FlattenJoins
  <2> HIDE DEF N, Some
  <2> DEFINE T == {n \in Nat : n + 1 <= N => Listing(run[n + 1], b, Some(n + 1))}
  <2>2. 0 \in T
    <3>1. Some(1) = {ks[1]}  BY DEF Some
    <3>2. 1 \in 1 .. N  BY <1>0, <1>4
    <3>3. run[1] = b[ks[1]] /\ ks[1] \in Queue  BY <1>0, <1>1, <2>1, <3>2 DEF JoinedUpTo
    <3>4. Listing(run[1], b, Some(1))  BY <3>1, <3>3, QueueIsListed
    <3>5. 0 + 1 = 1  OBVIOUS
    <3> QED  BY <3>4, <3>5
  <2>3. ASSUME NEW n \in Nat, n \in T PROVE n + 1 \in T
    <3> SUFFICES ASSUME (n + 1) + 1 <= N
                 PROVE  Listing(run[(n + 1) + 1], b, Some((n + 1) + 1))
      OBVIOUS
    <3>1. n + 1 \in 1 .. (N - 1) /\ n + 1 <= N /\ n + 2 \in 1 .. N /\ (n + 1) + 1 = n + 2
      BY <1>0
    <3>2. Listing(run[n + 1], b, Some(n + 1))  BY <2>3, <3>1
    <3>3. run[(n + 1) + 1] = run[n + 1] \o seqs[(n + 1) + 1]  BY <2>1, <3>1 DEF JoinedUpTo
    <3>4. seqs[n + 2] = b[ks[n + 2]] /\ ks[n + 2] \in Queue  BY <1>0, <1>1, <3>1
    <3>5. Listing(b[ks[n + 2]], b, {ks[n + 2]})  BY <3>4, QueueIsListed
    <3>6. Some(n + 1) \cap {ks[n + 2]} = {}
      <4>1. \A i \in 1 .. (n + 1) : ks[i] # ks[n + 2]
        <5> SUFFICES ASSUME NEW i \in 1 .. (n + 1) PROVE ks[i] # ks[n + 2]  OBVIOUS
        <5>1. i \in 1 .. N /\ i # n + 2  BY <1>0, <3>1
        <5> QED  BY <1>0, <3>1, <5>1
      <4> QED  BY <4>1 DEF Some
    <3>7. Some(n + 1) \cup {ks[n + 2]} = Some(n + 2)
      <4>1. 1 .. (n + 2) = 1 .. (n + 1) \cup {n + 2}  OBVIOUS
      <4> QED  BY <4>1 DEF Some
    <3>8. run[n + 2] = run[n + 1] \o b[ks[n + 2]]  BY <3>1, <3>3, <3>4
    <3>9. Listing(run[n + 2], b, Some(n + 1) \cup {ks[n + 2]})
      BY <3>2, <3>5, <3>6, <3>8, ListsTogether
    <3> QED  BY <3>1, <3>7, <3>9
  <2> HIDE DEF T
  <2>4. N - 1 \in T
    <3>1. Nat \subseteq T  BY <2>2, <2>3, NumbersByInduction
    <3> QED  BY <1>0, <1>4, <3>1
  <2>5. (N - 1) + 1 = N /\ N <= N  BY <1>0
  <2>6. Listing(run[N], b, Some(N))
    <3>1. (N - 1) + 1 <= N => Listing(run[(N - 1) + 1], b, Some((N - 1) + 1))
      BY <2>4 DEF T
    <3> QED  BY <2>5, <3>1
  <2> QED  BY <1>0, <2>1, <2>6 DEF Some
<1> QED  BY <1>3, <1>4

\* A book of finitely many orders has them at finitely many prices.
LEMMA FinitePrices ==
  ASSUME NEW b, SoundBook(b), IsFiniteSet(RestingIds(b)), NEW side \in Side
  PROVE  IsFiniteSet(PricesOf(b, side))
<1> DEFINE Of == {get(b, id).price : id \in RestingIds(b)}
<1>1. IsFiniteSet(Of)
  <2> DEFINE I == RestingIds(b)
             F == [id \in I |-> get(b, id).price]
  <2>1. F \in Surjection(I, Of)  BY DEF Surjection
  <2> HIDE DEF F, Of
  <2> QED  BY <2>1, FS_Surjection
<1>2. ASSUME NEW p \in PricesOf(b, side) PROVE p \in Of
  <2>1. <<side, p>> \in Queue /\ b[<<side, p>>] # <<>>  BY DEF PricesOf, Queue
  <2> DEFINE k == <<side, p>>
  <2>2. b[k] \in Seq(Order) /\ DOMAIN b[k] = 1 .. Len(b[k]) /\ Len(b[k]) \in Nat
    BY <2>1, QueuesAreSequences DEF SoundBook
  <2>3. 1 \in DOMAIN b[k]
    <3> HIDE DEF k
    <3>1. Len(b[k]) # 0  BY <2>1, <2>2, EmptySeq DEF k
    <3> QED  BY <2>2, <3>1
  <2>4. /\ b[k][1].id \in RestingIds(b) /\ QueueOf(get(b, b[k][1].id)) = k
    BY <2>1, <2>3, RestsAt
  <2>5. get(b, b[k][1].id).price = p  BY <2>4 DEF QueueOf
  <2> QED  BY <2>4, <2>5
<1>3. PricesOf(b, side) \subseteq Of  BY <1>2
<1> HIDE DEF Of
<1> QED  BY <1>1, <1>3, FS_Subset

\* SideOrders lists the orders of a side.
LEMMA SideIsListed ==
  ASSUME NEW b, SoundBook(b), IsFiniteSet(RestingIds(b)), NEW side \in Side
  PROVE  Listing(SideOrders(b, side), b, {side} \X Price)
<1> DEFINE T == PricesOf(b, side)
           n == Cardinality(T)
           best == depth(b, side)
<1>1. IsFiniteSet(T)  BY FinitePrices
<1>2. n \in Nat  BY <1>1, FS_CardinalityType
<1>3. BestFirst(best, side, T)  BY <1>1, DepthIsSorted
<1>4. T \subseteq Price /\ T \subseteq Nat  BY PriceAssumption DEF PricesOf
<1> HIDE DEF best, T, n
<1>5. /\ best \in [1 .. n -> T] /\ DOMAIN best = 1 .. n
      /\ \A i \in 1 .. n : best[i] \in T /\ best[i] \in Price /\ best[i] \in Nat
  BY <1>3, <1>4 DEF BestFirst, n
<1>6. \A i, j \in 1 .. n : best[i] = best[j] => i = j
  <2> SUFFICES ASSUME NEW i \in 1 .. n, NEW j \in 1 .. n, i < j PROVE best[i] # best[j]
    BY <1>2
  <2>1. Better(side, best[i], best[j])  BY <1>3, <1>5 DEF BestFirst
  <2> QED  BY <1>5, <2>1 DEF Better
<1>7. PICK ks : ks = [i \in 1 .. n |-> <<side, best[i]>>]  OBVIOUS
<1>8. ks \in Seq(Queue) /\ DOMAIN ks = 1 .. n
  <2>1. ks \in [1 .. n -> Queue]  BY <1>5, <1>7 DEF Queue
  <2> QED  BY <1>2, <2>1, SeqDef
<1>9. \A i, j \in DOMAIN ks : ks[i] = ks[j] => i = j
  <2> SUFFICES ASSUME NEW i \in 1 .. n, NEW j \in 1 .. n, ks[i] = ks[j] PROVE i = j
    BY <1>8
  <2>1. best[i] = best[j]  BY <1>7
  <2> QED  BY <1>6, <2>1
<1>10. PICK seqs : seqs = [i \in DOMAIN ks |-> b[ks[i]]]  OBVIOUS
<1>11. SideOrders(b, side) = Lists!FlattenSeq(seqs)
  <2>1. seqs = [i \in DOMAIN best |-> b[<<side, best[i]>>]]
    BY <1>5, <1>7, <1>8, <1>10
  <2> QED  BY <2>1 DEF SideOrders, best
<1> DEFINE Q == {ks[i] : i \in DOMAIN ks}
           l == Lists!FlattenSeq(seqs)
<1>12. Listing(l, b, Q)  BY <1>8, <1>9, <1>10, FlattenedIsListed
<1>13. \A i \in DOMAIN ks : ks[i] \in {side} \X Price  BY <1>5, <1>7
<1>14. Q \subseteq {side} \X Price  BY <1>13
<1>15. ASSUME NEW id \in RestingIds(b), QueueOf(get(b, id)) \in {side} \X Price
       PROVE  QueueOf(get(b, id)) \in Q
  <2> DEFINE k == HomeOf(b, id)
             i == PlaceIn(b[k], id)
  <2>1. k \in Queue /\ i \in DOMAIN b[k] /\ QueueOf(get(b, id)) = k  BY RestsSomewhere
  <2> HIDE DEF k, i
  <2>2. PICK p \in Price : k = <<side, p>>  BY <1>15, <2>1
  <2>3. b[k] # <<>>  BY <2>1
  <2>4. p \in T  BY <2>2, <2>3 DEF T, PricesOf
  <2>5. PICK j \in 1 .. n : best[j] = p  BY <1>3, <1>5, <2>4 DEF BestFirst
  <2>6. ks[j] = k  BY <1>7, <2>2, <2>5
  <2> QED  BY <1>8, <2>1, <2>6
<1> HIDE DEF Q, l
<1>16. /\ l \in Seq(Order)
       /\ \A m \in DOMAIN l :
            /\ l[m].id \in RestingIds(b)
            /\ l[m] = get(b, l[m].id)
            /\ QueueOf(l[m]) \in {side} \X Price
  BY <1>12, <1>14 DEF Listing
<1>17. ASSUME NEW id \in RestingIds(b), QueueOf(get(b, id)) \in {side} \X Price
       PROVE  \E m \in DOMAIN l : l[m].id = id
  BY <1>12, <1>15, <1>17 DEF Listing
<1>18. \A i, m \in DOMAIN l : i < m =>
         /\ l[i].id # l[m].id
         /\ QueueOf(l[i]) = QueueOf(l[m]) => l[i].id \in Ahead(b, l[m].id)
  BY <1>12 DEF Listing
<1>19. Listing(l, b, {side} \X Price)  BY <1>16, <1>17, <1>18 DEF Listing
<1> QED  BY <1>11, <1>19 DEF l

\* book_order lists every order.
LEMMA BookIsListed ==
  ASSUME NEW b, SoundBook(b), IsFiniteSet(RestingIds(b))
  PROVE  Listing(book_order(b), b, Queue)
<1>1. /\ Listing(SideOrders(b, "Bid"), b, {"Bid"} \X Price)
      /\ Listing(SideOrders(b, "Ask"), b, {"Ask"} \X Price)
  BY SideIsListed DEF Side
<1>2. ({"Bid"} \X Price) \cap ({"Ask"} \X Price) = {}  OBVIOUS
<1>3. Queue = ({"Bid"} \X Price) \cup ({"Ask"} \X Price)  BY DEF Queue, Side
<1>4. book_order(b) = SideOrders(b, "Bid") \o SideOrders(b, "Ask")  BY DEF book_order
<1>5. PICK x : x = SideOrders(b, "Bid")  OBVIOUS
<1>6. PICK y : y = SideOrders(b, "Ask")  OBVIOUS
<1>7. Listing(x, b, {"Bid"} \X Price) /\ Listing(y, b, {"Ask"} \X Price) /\ book_order(b) = x \o y
  BY <1>1, <1>4, <1>5, <1>6
<1> QED  BY <1>2, <1>3, <1>7, ListsTogether

\* The ids of a queue among the first n orders of a list.
ListedAt(orders, n, q) ==
    {orders[m].id : m \in {j \in 1 .. n : QueueOf(orders[j]) = q}}

\* Ahead of an order in its list, at its price, are those ahead of it in the book.
LEMMA AheadInList ==
  ASSUME NEW b, SoundBook(b), NEW orders, Listing(orders, b, Queue), NEW n \in DOMAIN orders
  PROVE  Ahead(b, orders[n].id) = ListedAt(orders, n - 1, QueueOf(orders[n]))
<1>1. /\ orders \in Seq(Order) /\ Len(orders) \in Nat /\ DOMAIN orders = 1 .. Len(orders)
      /\ n \in 1 .. Len(orders)
  BY LenProperties DEF Listing
<1> DEFINE x == orders[n].id
           k == QueueOf(orders[n])
           M == {j \in 1 .. (n - 1) : QueueOf(orders[j]) = k}
<1>2. x \in RestingIds(b) /\ QueueOf(get(b, x)) = k  BY DEF Listing
<1>3. PICK i \in DOMAIN b[k] : b[k][i].id = x /\ k \in Queue
  BY <1>2, RestsSomewhere
<1>4. Ahead(b, x) = Before(b[k], i)  BY <1>3, RestsAt
<1>5. DOMAIN b[k] = 1 .. Len(b[k]) /\ Len(b[k]) \in Nat
  BY <1>3, QueuesAreSequences DEF SoundBook
<1>6. ASSUME NEW y \in Ahead(b, x) PROVE \E m \in M : orders[m].id = y
  <2>1. PICK j \in 1 .. (i - 1) : b[k][j].id = y  BY <1>4, <1>6 DEF Before
  <2>2. j \in DOMAIN b[k] /\ j < i  BY <1>3, <1>5, <2>1
  <2>3. /\ y \in RestingIds(b) /\ QueueOf(get(b, y)) = k /\ Ahead(b, y) = Before(b[k], j)
    BY <1>3, <2>1, <2>2, RestsAt
  <2>4. PICK m \in DOMAIN orders : orders[m].id = y  BY <1>3, <2>3 DEF Listing
  <2>5. QueueOf(orders[m]) = k  BY <2>3, <2>4 DEF Listing
  <2>6. y # x  BY <1>3, <2>1, <2>2 DEF SoundBook, OneOrderPerId
  <2>7. m # n  BY <2>4, <2>6
  <2>8. ~(n < m)
    <3> SUFFICES ASSUME n < m PROVE FALSE  OBVIOUS
    <3>1. x \in Ahead(b, y)  BY <2>4, <2>5 DEF Listing
    <3>2. PICK h \in 1 .. (j - 1) : b[k][h].id = x  BY <2>3, <3>1 DEF Before
    <3>3. h \in DOMAIN b[k] /\ h # i  BY <1>3, <1>5, <2>2, <3>2
    <3> QED  BY <1>3, <3>2, <3>3 DEF SoundBook, OneOrderPerId
  <2>9. m \in 1 .. (n - 1)  BY <1>1, <2>7, <2>8
  <2> QED  BY <2>4, <2>5, <2>9
<1>7. ASSUME NEW m \in M PROVE orders[m].id \in Ahead(b, x)
  <2>1. m \in DOMAIN orders /\ m < n /\ QueueOf(orders[m]) = k  BY <1>1
  <2> QED  BY <2>1 DEF Listing
<1> HIDE DEF M
<1>8. Ahead(b, x) = {orders[m].id : m \in M}  BY <1>6, <1>7
<1> QED  BY <1>8 DEF M, ListedAt

-----------------------------------------------------------------------------
(* Adding a list of orders *)

\* One order of the list: nothing more happens after a refusal.
AddNext(done, order) == IF done.result = "Ok" THEN add(done.book, order) ELSE done

\* The calls of the first n orders.
AddedUpTo(n, run, start, orders) ==
    /\ run = [i \in 0 .. n |-> run[i]]
    /\ run[0] = Done(start)
    /\ \A i \in 1 .. n : run[i] = AddNext(run[i - 1], orders[i])

\* The definition of AddAll, unfolded.
LEMMA AddAllRuns ==
  ASSUME NEW start, NEW orders \in Seq(Order)
  PROVE  \E run : /\ AddedUpTo(Len(orders), run, start, orders)
                  /\ AddAll(start, orders) = run[Len(orders)]
<1> DEFINE N == Len(orders)
           T == {n \in Nat : \E f : AddedUpTo(n, f, start, orders)}
<1>0. N \in Nat  OBVIOUS
<1>1. 0 \in T
  <2>1. PICK f : f = [i \in 0 .. 0 |-> Done(start)]  OBVIOUS
  <2>2. f = [i \in 0 .. 0 |-> f[i]] /\ f[0] = Done(start)  BY <2>1
  <2>3. AddedUpTo(0, f, start, orders)  BY <2>2 DEF AddedUpTo
  <2> QED  BY <2>3
<1>2. ASSUME NEW n \in Nat, n \in T PROVE n + 1 \in T
  <2>1. PICK f : AddedUpTo(n, f, start, orders)  BY <1>2
  <2>2. PICK m : m = AddNext(f[n], orders[n + 1])  OBVIOUS
  <2>3. PICK g : g = [i \in 0 .. (n + 1) |-> IF i = n + 1 THEN m ELSE f[i]]  OBVIOUS
  <2>4. \A i \in 0 .. n : g[i] = f[i]
    <3> SUFFICES ASSUME NEW i \in 0 .. n PROVE g[i] = f[i]  OBVIOUS
    <3>1. i \in 0 .. (n + 1) /\ i # n + 1  OBVIOUS
    <3> QED  BY <2>3, <3>1
  <2>5. g[n + 1] = m  BY <2>3
  <2>6. ASSUME NEW i \in 1 .. (n + 1) PROVE g[i] = AddNext(g[i - 1], orders[i])
    <3>1. CASE i = n + 1
      <4>1. i - 1 = n /\ g[i - 1] = f[n]  BY <2>4, <3>1
      <4> QED  BY <2>2, <2>5, <3>1, <4>1
    <3>2. CASE i # n + 1
      <4>1. i \in 1 .. n /\ i \in 0 .. n /\ i - 1 \in 0 .. n  BY <3>2
      <4>2. g[i] = f[i] /\ g[i - 1] = f[i - 1]  BY <2>4, <4>1
      <4> QED  BY <2>1, <4>1, <4>2 DEF AddedUpTo
    <3> QED  BY <3>1, <3>2
  <2>7. g = [i \in 0 .. (n + 1) |-> g[i]]  BY <2>3
  <2>8. g[0] = Done(start)  BY <2>1, <2>4 DEF AddedUpTo
  <2>9. AddedUpTo(n + 1, g, start, orders)  BY <2>6, <2>7, <2>8 DEF AddedUpTo
  <2> QED  BY <2>9
<1>3. N \in T
  <2> HIDE DEF T
  <2>1. Nat \subseteq T  BY <1>1, <1>2, NumbersByInduction
  <2> QED  BY <1>0, <2>1
<1>4. PICK f : AddedUpTo(N, f, start, orders)  BY <1>3
<1> HIDE DEF T
<1> DEFINE Recurs(h) ==
             h = [n \in 0 .. Len(orders) |->
                    IF n = 0 THEN Done(start)
                    ELSE IF h[n - 1].result = "Ok"
                    THEN add(h[n - 1].book, orders[n]) ELSE h[n - 1]]
           upto == CHOOSE h : Recurs(h)
<1>5. AddAll(start, orders) = upto[Len(orders)]  BY DEF AddAll
<1>6. Recurs(f)
  <2>1. ASSUME NEW n \in 0 .. N
        PROVE  f[n] = IF n = 0 THEN Done(start)
                      ELSE IF f[n - 1].result = "Ok"
                      THEN add(f[n - 1].book, orders[n]) ELSE f[n - 1]
    <3>1. CASE n = 0  BY <1>4, <3>1 DEF AddedUpTo
    <3>2. CASE n # 0
      <4>1. n \in 1 .. N  BY <1>0, <3>2
      <4> QED  BY <1>4, <3>2, <4>1 DEF AddedUpTo, AddNext
    <3> QED  BY <3>1, <3>2
  <2>2. f = [i \in 0 .. N |-> f[i]]  BY <1>4 DEF AddedUpTo
  <2> QED  BY <2>1, <2>2
<1>7. Recurs(upto)
  <2> HIDE DEF Recurs
  <2> QED  BY <1>6
<1>8. PICK h : h = upto  OBVIOUS
<1> HIDE DEF upto
<1>9. Recurs(h)
  <2> HIDE DEF Recurs
  <2> QED  BY <1>7, <1>8
<1>10. \A n \in 0 .. N : h[n] = IF n = 0 THEN Done(start)
                      ELSE IF h[n - 1].result = "Ok"
                      THEN add(h[n - 1].book, orders[n]) ELSE h[n - 1]
  BY <1>9
<1>11. h = [i \in 0 .. N |-> h[i]]  BY <1>9
<1> HIDE DEF Recurs, N
<1>12. h[0] = Done(start)  BY <1>0, <1>10
<1>13. ASSUME NEW i \in 1 .. N PROVE h[i] = AddNext(h[i - 1], orders[i])
  <2>1. i \in 0 .. N /\ i # 0  BY <1>0
  <2> QED  BY <1>10, <2>1 DEF AddNext
<1>14. AddedUpTo(N, h, start, orders)  BY <1>11, <1>12, <1>13 DEF AddedUpTo
<1> QED  BY <1>5, <1>8, <1>14 DEF N

\* What adding n new orders to a book has come to.
AddedSoFar(start, orders, n, done) ==
    /\ done.result = "Ok"
    /\ SoundBook(done.book)
    /\ RestingIds(done.book) = RestingIds(start) \cup {orders[m].id : m \in 1 .. n}
    /\ \A q \in Queue : Ids(done.book[q]) = Ids(start[q]) \cup ListedAt(orders, n, q)
    /\ \A id \in RestingIds(start) :
         get(done.book, id) = get(start, id) /\ Ahead(done.book, id) = Ahead(start, id)
    /\ \A m \in 1 .. n :
         /\ get(done.book, orders[m].id) = orders[m]
         /\ Ahead(done.book, orders[m].id)
              = Ids(start[QueueOf(orders[m])]) \cup ListedAt(orders, m - 1, QueueOf(orders[m]))

\* Orders that a book can take one after the other.
NewOrders(start, orders) ==
    /\ orders \in Seq(Order)
    /\ \A n \in DOMAIN orders : orders[n].qty > 0 /\ orders[n].id \notin RestingIds(start)
    /\ \A m, n \in DOMAIN orders : m < n => orders[m].id # orders[n].id

\* One more new order.
LEMMA OneMoreAdded ==
  ASSUME NEW start, SoundBook(start), NEW orders, NewOrders(start, orders),
         NEW n \in Nat, n + 1 \in DOMAIN orders, NEW done, AddedSoFar(start, orders, n, done)
  PROVE  AddedSoFar(start, orders, n + 1, AddNext(done, orders[n + 1]))
<1>1. PICK order : order = orders[n + 1]  OBVIOUS
<1>2. PICK b : b = done.book  OBVIOUS
<1>3. PICK step : step = AddNext(done, order)  OBVIOUS
<1>0. DOMAIN orders = 1 .. Len(orders) /\ Len(orders) \in Nat
      /\ \A m \in 1 .. (n + 1) : m \in DOMAIN orders
  BY LenProperties DEF NewOrders
<1>4. order \in Order /\ order.qty > 0 /\ order.qty # 0
  <2>1. order \in Order /\ order.qty > 0  BY <1>1, <1>0 DEF NewOrders
  <2> QED  BY <2>1
<1>5. \A m \in 1 .. n : orders[m].id # order.id /\ m \in 1 .. (n + 1) /\ m \in DOMAIN orders
  BY <1>0, <1>1 DEF NewOrders
<1>6. SoundBook(b) /\ RestingIds(b) = RestingIds(start) \cup {orders[m].id : m \in 1 .. n}
  BY <1>2 DEF AddedSoFar
<1>7. order.id \notin RestingIds(b)  BY <1>1, <1>5, <1>6 DEF NewOrders
<1>8. step.result = "Ok" /\ step.book = AppendOrder(b, order)
  BY <1>2, <1>3, <1>4, <1>7 DEF AddNext, AddedSoFar, add, Done
<1>9. PICK c : c = step.book  OBVIOUS
<1>10. SoundBook(c) /\ RestingIds(c) = RestingIds(b) \cup {order.id}
  BY <1>4, <1>6, <1>7, <1>8, <1>9, AppendSound
<1>11. /\ \A id \in RestingIds(b) : get(c, id) = get(b, id) /\ Ahead(c, id) = Ahead(b, id)
       /\ get(c, order.id) = order
       /\ Ahead(c, order.id) = Ids(b[QueueOf(order)])
  BY <1>4, <1>6, <1>7, <1>8, <1>9, AppendAhead
<1>12. 1 .. (n + 1) = 1 .. n \cup {n + 1}  OBVIOUS
<1>13. RestingIds(c) = RestingIds(start) \cup {orders[m].id : m \in 1 .. (n + 1)}
  BY <1>1, <1>6, <1>10, <1>12
<1>14. QueueOf(order) \in Queue  BY <1>4 DEF Order, QueueOf, Queue
<1>15. ASSUME NEW q \in Queue
       PROVE  Ids(c[q]) = Ids(start[q]) \cup ListedAt(orders, n + 1, q)
  <2>1. b \in Book  BY <1>6 DEF SoundBook
  <2>2. Ids(b[q]) = Ids(start[q]) \cup ListedAt(orders, n, q)  BY <1>2 DEF AddedSoFar
  <2>3. CASE q # QueueOf(order)
    <3>1. c[q] = b[q]  BY <1>4, <1>8, <1>9, <2>1, <2>3, AppendEffect
    <3>2. {j \in 1 .. (n + 1) : QueueOf(orders[j]) = q} = {j \in 1 .. n : QueueOf(orders[j]) = q}
      BY <1>1, <1>12, <2>3
    <3>3. ListedAt(orders, n + 1, q) = ListedAt(orders, n, q)  BY <3>2 DEF ListedAt
    <3> QED  BY <2>2, <3>1, <3>3
  <2>4. CASE q = QueueOf(order)
    <3>1. /\ DOMAIN c[q] = 1 .. (Len(b[q]) + 1)
          /\ \A i \in DOMAIN b[q] : c[q][i] = b[q][i]
          /\ c[q][Len(b[q]) + 1] = order
      BY <1>4, <1>8, <1>9, <2>1, <2>4, AppendEffect
    <3>2. DOMAIN b[q] = 1 .. Len(b[q]) /\ Len(b[q]) \in Nat  BY <2>1, QueuesAreSequences
    <3>3. DOMAIN c[q] = DOMAIN b[q] \cup {Len(b[q]) + 1}  BY <3>1, <3>2
    <3>4. Ids(c[q]) = Ids(b[q]) \cup {order.id}  BY <3>1, <3>3 DEF Ids
    <3>5. {j \in 1 .. (n + 1) : QueueOf(orders[j]) = q}
            = {j \in 1 .. n : QueueOf(orders[j]) = q} \cup {n + 1}
      BY <1>1, <1>12, <2>4
    <3>6. ListedAt(orders, n + 1, q) = ListedAt(orders, n, q) \cup {order.id}
      BY <1>1, <3>5 DEF ListedAt
    <3> QED  BY <2>2, <3>4, <3>6
  <2> QED  BY <2>3, <2>4
<1>16. ASSUME NEW id \in RestingIds(start)
       PROVE  get(c, id) = get(start, id) /\ Ahead(c, id) = Ahead(start, id)
  <2>1. id \in RestingIds(b)  BY <1>6
  <2>2. get(b, id) = get(start, id) /\ Ahead(b, id) = Ahead(start, id)
    BY <1>2 DEF AddedSoFar
  <2> QED  BY <1>11, <2>1, <2>2
<1>17. ASSUME NEW m \in 1 .. (n + 1)
       PROVE  /\ get(c, orders[m].id) = orders[m]
              /\ Ahead(c, orders[m].id)
                   = Ids(start[QueueOf(orders[m])]) \cup ListedAt(orders, m - 1, QueueOf(orders[m]))
  <2>1. CASE m \in 1 .. n
    <3>1. orders[m].id \in RestingIds(b)  BY <1>6, <2>1
    <3>2. /\ get(b, orders[m].id) = orders[m]
          /\ Ahead(b, orders[m].id)
               = Ids(start[QueueOf(orders[m])]) \cup ListedAt(orders, m - 1, QueueOf(orders[m]))
      BY <1>2, <2>1 DEF AddedSoFar
    <3> QED  BY <1>11, <3>1, <3>2
  <2>2. CASE m = n + 1
    <3>1. m - 1 = n  BY <2>2
    <3>2. Ids(b[QueueOf(order)]) = Ids(start[QueueOf(order)]) \cup ListedAt(orders, n, QueueOf(order))
      BY <1>2, <1>14 DEF AddedSoFar
    <3> QED  BY <1>1, <1>11, <2>2, <3>1, <3>2
  <2> QED  BY <1>12, <2>1, <2>2
<1> QED  BY <1>1, <1>3, <1>8, <1>9, <1>10, <1>13, <1>15, <1>16, <1>17 DEF AddedSoFar

\* A list of new orders is added whole, each behind those before it.
LEMMA AllAdded ==
  ASSUME NEW start, SoundBook(start), NEW orders, NewOrders(start, orders)
  PROVE  AddedSoFar(start, orders, Len(orders), AddAll(start, orders))
<1> DEFINE N == Len(orders)
<1>0. N \in Nat /\ DOMAIN orders = 1 .. N /\ orders \in Seq(Order)
  BY LenProperties DEF NewOrders
<1>1. PICK run : AddedUpTo(N, run, start, orders) /\ AddAll(start, orders) = run[N]
  BY <1>0, AddAllRuns
<1> HIDE DEF N
<1> DEFINE T == {n \in Nat : n <= N => AddedSoFar(start, orders, n, run[n])}
<1>2. 0 \in T
  <2>1. run[0] = Done(start)  BY <1>1 DEF AddedUpTo
  <2>2. 1 .. 0 = {}  OBVIOUS
  <2>3. \A q \in Queue : ListedAt(orders, 0, q) = {}  BY <2>2 DEF ListedAt
  <2>4. {orders[m].id : m \in 1 .. 0} = {}  BY <2>2
  <2>5. AddedSoFar(start, orders, 0, Done(start))
    BY <2>2, <2>3, <2>4 DEF AddedSoFar, Done
  <2> QED  BY <2>1, <2>5
<1>3. ASSUME NEW n \in Nat, n \in T PROVE n + 1 \in T
  <2> SUFFICES ASSUME n + 1 <= N PROVE AddedSoFar(start, orders, n + 1, run[n + 1])
    OBVIOUS
  <2>1. n + 1 \in 1 .. N /\ n <= N /\ (n + 1) - 1 = n  BY <1>0
  <2>2. AddedSoFar(start, orders, n, run[n])  BY <1>3, <2>1
  <2>3. run[n + 1] = AddNext(run[n], orders[n + 1])
    <3>1. run[n + 1] = AddNext(run[(n + 1) - 1], orders[n + 1])  BY <1>1, <2>1 DEF AddedUpTo
    <3> QED  BY <2>1, <3>1
  <2>4. n + 1 \in DOMAIN orders  BY <1>0, <2>1
  <2> QED  BY <2>2, <2>3, <2>4, OneMoreAdded
<1> HIDE DEF T
<1>4. Nat \subseteq T  BY <1>2, <1>3, NumbersByInduction
<1>5. N \in T /\ N <= N  BY <1>0, <1>4
<1>6. AddedSoFar(start, orders, N, run[N])  BY <1>5 DEF T
<1> QED  BY <1>1, <1>6 DEF N

\* What an empty book refuses of a list: an order without a quantity, or with the
\* id of one before it.
Faulty(orders, n) ==
    orders[n].qty = 0 \/ \E i \in 1 .. (n - 1) : orders[i].id = orders[n].id

\* The first k orders of a list have no fault; what they are then.
FaultlessTo(orders, k) == \A i \in 1 .. k : ~Faulty(orders, i)
Begins(orders, k, first) ==
    /\ first \in Seq(Order) /\ Len(first) = k
    /\ \A i \in 1 .. k : first[i] = orders[i]
    /\ NewOrders(EmptyBook, first)

\* The orders ahead of the first fault can be added.
LEMMA BeginningIsNew ==
  ASSUME NEW orders \in Seq(Order), NEW k \in 0 .. Len(orders), FaultlessTo(orders, k),
         NEW first, first = SubSeq(orders, 1, k)
  PROVE  Begins(orders, k, first)
<1>1. Len(orders) \in Nat /\ DOMAIN orders = 1 .. Len(orders) /\ k \in Nat
  BY LenProperties
<1>2. \A i \in 1 .. k : i \in DOMAIN orders /\ orders[i] \in Order
  BY <1>1
<1>3. /\ first \in Seq(Order)
      /\ Len(first) = IF 1 <= k THEN k - 1 + 1 ELSE 0
      /\ \A i \in 1 .. (k - 1 + 1) : first[i] = orders[1 + i - 1]
  BY <1>1, <1>2, SubSeqProperties
<1>4. Len(first) = k /\ DOMAIN first = 1 .. k
  <2>1. Len(first) = k  BY <1>1, <1>3
  <2> QED  BY <1>3, <2>1, LenProperties
<1>5. \A i \in 1 .. k : first[i] = orders[i]
  <2> SUFFICES ASSUME NEW i \in 1 .. k PROVE first[i] = orders[i]  OBVIOUS
  <2>1. i \in 1 .. (k - 1 + 1) /\ 1 + i - 1 = i  BY <1>1
  <2> QED  BY <1>3, <2>1
<1>6. \A i \in DOMAIN first : first[i].qty > 0 /\ first[i].id \notin RestingIds(EmptyBook)
  <2> SUFFICES ASSUME NEW i \in DOMAIN first
               PROVE  first[i].qty > 0 /\ first[i].id \notin RestingIds(EmptyBook)
    OBVIOUS
  <2>1. first[i] = orders[i] /\ orders[i] \in Order /\ ~Faulty(orders, i)
    BY <1>2, <1>4, <1>5 DEF FaultlessTo
  <2>2. first[i].qty # 0  BY <2>1 DEF Faulty
  <2>3. first[i].qty \in Nat  BY <2>1, QtyLimitAssumption DEF Order, Qty
  <2> QED  BY <2>2, <2>3, EmptySound
<1>7. \A i, j \in DOMAIN first : i < j => first[i].id # first[j].id
  <2> SUFFICES ASSUME NEW i \in DOMAIN first, NEW j \in DOMAIN first, i < j
               PROVE  first[i].id # first[j].id
    OBVIOUS
  <2>1. first[i] = orders[i] /\ first[j] = orders[j] /\ ~Faulty(orders, j)
    BY <1>4, <1>5 DEF FaultlessTo
  <2>2. i \in 1 .. (j - 1)  BY <1>1, <1>4
  <2> QED  BY <2>1, <2>2 DEF Faulty
<1> QED  BY <1>3, <1>4, <1>5, <1>6, <1>7 DEF NewOrders, Begins

\* At the first fault the insertion stops: what is ahead of it rests, and nothing
\* behind it is looked at.
LEMMA AddingStops ==
  ASSUME NEW orders \in Seq(Order), NEW k \in Nat, k < Len(orders), FaultlessTo(orders, k),
         Faulty(orders, k + 1), NEW call, call = AddAll(EmptyBook, orders)
  PROVE  /\ AddAll(EmptyBook, SubSeq(orders, 1, k)).result = "Ok"
         /\ call.book = AddAll(EmptyBook, SubSeq(orders, 1, k)).book
         /\ call.result = IF orders[k + 1].qty = 0 THEN "ZeroQty" ELSE "DuplicateOrderId"
<1>1. Len(orders) \in Nat /\ DOMAIN orders = 1 .. Len(orders)
  BY LenProperties
<1>2. PICK first : first = SubSeq(orders, 1, k)  OBVIOUS
<1>3. Begins(orders, k, first)
  <2>1. k \in 0 .. Len(orders)  BY <1>1
  <2> QED  BY <1>2, <2>1, BeginningIsNew
<1>4. PICK run : AddedUpTo(Len(orders), run, EmptyBook, orders) /\ call = run[Len(orders)]
  BY AddAllRuns
<1>5. PICK short : AddedUpTo(k, short, EmptyBook, first) /\ AddAll(EmptyBook, first) = short[k]
  BY <1>3, AddAllRuns DEF Begins
<1>6. PICK before : before = short[k]  OBVIOUS
<1>7. AddedSoFar(EmptyBook, first, k, before)
  <2>1. NewOrders(EmptyBook, first) /\ Len(first) = k  BY <1>3 DEF Begins
  <2>2. AddedSoFar(EmptyBook, first, Len(first), AddAll(EmptyBook, first))
    BY <2>1, AllAdded, EmptySound
  <2> QED  BY <1>5, <1>6, <2>1, <2>2
<1>8. run[k] = before
  <2> DEFINE T == {i \in Nat : i <= k => run[i] = short[i]}
  <2>1. 0 \in T  BY <1>4, <1>5 DEF AddedUpTo
  <2>2. ASSUME NEW i \in Nat, i \in T PROVE i + 1 \in T
    <3> SUFFICES ASSUME i + 1 <= k PROVE run[i + 1] = short[i + 1]  OBVIOUS
    <3>1. i + 1 \in 1 .. k /\ i + 1 \in 1 .. Len(orders) /\ i <= k /\ (i + 1) - 1 = i
      BY <1>1
    <3>2. run[i] = short[i]  BY <2>2, <3>1
    <3>3. run[i + 1] = AddNext(run[i], orders[i + 1])  BY <1>4, <3>1 DEF AddedUpTo
    <3>4. short[i + 1] = AddNext(short[i], first[i + 1])  BY <1>5, <3>1 DEF AddedUpTo
    <3>5. first[i + 1] = orders[i + 1]  BY <1>3, <3>1 DEF Begins
    <3> QED  BY <3>2, <3>3, <3>4, <3>5
  <2> HIDE DEF T
  <2>3. Nat \subseteq T  BY <2>1, <2>2, NumbersByInduction
  <2>4. k \in T /\ k <= k  BY <2>3
  <2> QED  BY <1>6, <2>4 DEF T
<1>9. PICK order : order = orders[k + 1]  OBVIOUS
<1>10. before.result = "Ok" /\ RestingIds(before.book) = {first[m].id : m \in 1 .. k}
  BY <1>7, EmptySound DEF AddedSoFar
<1>11. PICK stop : stop = run[k + 1]  OBVIOUS
<1>12. stop = add(before.book, order)
  <2>1. k + 1 \in 1 .. Len(orders) /\ (k + 1) - 1 = k  BY <1>1
  <2>2. run[k + 1] = AddNext(run[k], orders[k + 1])  BY <1>4, <2>1 DEF AddedUpTo
  <2> QED  BY <1>8, <1>9, <1>10, <1>11, <2>2 DEF AddNext
<1>13. /\ stop.book = before.book
       /\ stop.result = IF order.qty = 0 THEN "ZeroQty" ELSE "DuplicateOrderId"
  <2>1. CASE order.qty = 0  BY <1>12, <2>1 DEF add, Fail
  <2>2. CASE order.qty # 0
    <3>1. (k + 1) - 1 = k  OBVIOUS
    <3>2. PICK i \in 1 .. k : orders[i].id = order.id  BY <1>9, <2>2, <3>1 DEF Faulty
    <3>3. order.id \in RestingIds(before.book)  BY <1>3, <1>10, <3>2 DEF Begins
    <3> QED  BY <1>12, <2>2, <3>3 DEF add, Fail
  <2> QED  BY <2>1, <2>2
<1>14. run[Len(orders)] = stop
  <2> DEFINE T == {i \in Nat : (k + 1) + i <= Len(orders) => run[(k + 1) + i] = stop}
  <2>1. 0 \in T  BY <1>1, <1>11
  <2>2. ASSUME NEW i \in Nat, i \in T PROVE i + 1 \in T
    <3> SUFFICES ASSUME (k + 1) + (i + 1) <= Len(orders) PROVE run[(k + 1) + (i + 1)] = stop
      OBVIOUS
    <3>1. /\ (k + 1) + (i + 1) \in 1 .. Len(orders) /\ (k + 1) + i <= Len(orders)
          /\ ((k + 1) + (i + 1)) - 1 = (k + 1) + i
      BY <1>1
    <3>2. run[(k + 1) + i] = stop  BY <2>2, <3>1
    <3>3. run[(k + 1) + (i + 1)] = AddNext(run[(k + 1) + i], orders[(k + 1) + (i + 1)])
      BY <1>4, <3>1 DEF AddedUpTo
    <3>4. stop.result # "Ok"  BY <1>13
    <3> QED  BY <3>2, <3>3, <3>4 DEF AddNext
  <2> HIDE DEF T
  <2>3. Nat \subseteq T  BY <2>1, <2>2, NumbersByInduction
  <2>4. PICK rest : rest = Len(orders) - (k + 1)  OBVIOUS
  <2>5. rest \in Nat /\ (k + 1) + rest = Len(orders) /\ (k + 1) + rest <= Len(orders)
    BY <1>1, <2>4
  <2>6. rest \in T  BY <2>3, <2>5
  <2> QED  BY <2>5, <2>6 DEF T
<1> QED  BY <1>2, <1>4, <1>5, <1>6, <1>9, <1>10, <1>13, <1>14

\* A list with a fault has a first one.
LEMMA FirstFault ==
  ASSUME NEW orders \in Seq(Order), NEW n \in DOMAIN orders, Faulty(orders, n)
  PROVE  \E k \in Nat : k < Len(orders) /\ FaultlessTo(orders, k) /\ Faulty(orders, k + 1)
<1>1. Len(orders) \in Nat /\ DOMAIN orders = 1 .. Len(orders)  BY LenProperties
<1> DEFINE bad == {i \in DOMAIN orders : Faulty(orders, i)}
<1>2. bad \subseteq Nat /\ bad # {}  BY <1>1
<1>3. PICK m \in bad : \A i \in bad : m <= i
  <2> HIDE DEF bad
  <2> QED  BY <1>2, LeastNumber
<1>4. m \in 1 .. Len(orders) /\ Faulty(orders, m)  BY <1>1, <1>3
<1>5. PICK k : k = m - 1  OBVIOUS
<1>6. k \in Nat /\ k < Len(orders) /\ k + 1 = m  BY <1>1, <1>4, <1>5
<1>7. FaultlessTo(orders, k)
  <2> SUFFICES ASSUME NEW i \in 1 .. k, Faulty(orders, i) PROVE FALSE  BY DEF FaultlessTo
  <2>1. i \in DOMAIN orders /\ ~(m <= i)  BY <1>1, <1>6
  <2> QED  BY <1>3, <2>1
<1> QED  BY <1>4, <1>6, <1>7

\* A list is added whole exactly if it has no fault.
LEMMA AddsWhole ==
  ASSUME NEW orders \in Seq(Order)
  PROVE  AddAll(EmptyBook, orders).result = "Ok" <=> \A n \in DOMAIN orders : ~Faulty(orders, n)
<1>1. Len(orders) \in Nat /\ DOMAIN orders = 1 .. Len(orders)  BY LenProperties
<1>2. CASE \A n \in DOMAIN orders : ~Faulty(orders, n)
  <2>1. PICK k : k = Len(orders)  OBVIOUS
  <2>2. k \in 0 .. Len(orders) /\ FaultlessTo(orders, k)  BY <1>1, <1>2, <2>1 DEF FaultlessTo
  <2>3. PICK first : first = SubSeq(orders, 1, k)  OBVIOUS
  <2>4. Begins(orders, k, first)  BY <2>2, <2>3, BeginningIsNew
  <2>5. DOMAIN first = DOMAIN orders /\ \A i \in DOMAIN orders : first[i] = orders[i]
    BY <1>1, <2>1, <2>4, LenProperties DEF Begins
  <2>6. NewOrders(EmptyBook, orders)  BY <2>4, <2>5 DEF NewOrders, Begins
  <2>7. AddedSoFar(EmptyBook, orders, Len(orders), AddAll(EmptyBook, orders))
    BY <2>6, AllAdded, EmptySound
  <2> QED  BY <1>2, <2>7 DEF AddedSoFar
<1>3. CASE \E n \in DOMAIN orders : Faulty(orders, n)
  <2>1. PICK k \in Nat : k < Len(orders) /\ FaultlessTo(orders, k) /\ Faulty(orders, k + 1)
    BY <1>3, FirstFault
  <2>2. AddAll(EmptyBook, orders).result # "Ok"  BY <2>1, AddingStops
  <2> QED  BY <1>3, <2>2
<1> QED  BY <1>2, <1>3

\* Two books with the same orders, in the same order on every level.
SameOrders(b, c) ==
    /\ RestingIds(b) = RestingIds(c)
    /\ \A id \in RestingIds(b) : get(b, id) = get(c, id) /\ Ahead(b, id) = Ahead(c, id)

\* The list of a book's orders, added to an empty one, makes the book again.
LEMMA Rebuilt ==
  ASSUME NEW b, SoundBook(b), NEW orders, Listing(orders, b, Queue),
         NEW call, call = AddAll(EmptyBook, orders)
  PROVE  call.result = "Ok" /\ SoundBook(call.book) /\ SameOrders(call.book, b)
<1> DEFINE N == Len(orders)
<1>0. N \in Nat /\ DOMAIN orders = 1 .. N /\ orders \in Seq(Order)
  BY LenProperties DEF Listing
<1>1. SoundBook(EmptyBook) /\ RestingIds(EmptyBook) = {}  BY EmptySound
<1>2. NewOrders(EmptyBook, orders)
  <2>1. ASSUME NEW n \in DOMAIN orders PROVE orders[n].qty > 0
    <3>1. orders[n].id \in RestingIds(b) /\ orders[n] = get(b, orders[n].id)  BY DEF Listing
    <3> QED  BY <3>1, RestsSomewhere
  <2> QED  BY <1>0, <1>1, <2>1 DEF NewOrders, Listing
<1>3. AddedSoFar(EmptyBook, orders, N, call)  BY <1>1, <1>2, AllAdded
<1> HIDE DEF N
<1>4. call.result = "Ok" /\ SoundBook(call.book)  BY <1>3 DEF AddedSoFar
<1>5. RestingIds(call.book) = {orders[m].id : m \in 1 .. N}  BY <1>1, <1>3 DEF AddedSoFar
<1>6. \A id \in RestingIds(b) : \E n \in DOMAIN orders : orders[n].id = id
  <2> SUFFICES ASSUME NEW id \in RestingIds(b) PROVE \E n \in DOMAIN orders : orders[n].id = id
    OBVIOUS
  <2>1. QueueOf(get(b, id)) \in Queue  BY RestsSomewhere
  <2> QED  BY <2>1 DEF Listing
<1>7. RestingIds(call.book) = RestingIds(b)
  <2>1. \A n \in 1 .. N : orders[n].id \in RestingIds(b)  BY <1>0 DEF Listing
  <2> QED  BY <1>0, <1>5, <1>6, <2>1
<1>8. ASSUME NEW id \in RestingIds(b)
      PROVE  get(call.book, id) = get(b, id) /\ Ahead(call.book, id) = Ahead(b, id)
  <2>1. PICK n \in 1 .. N : orders[n].id = id  BY <1>0, <1>6
  <2>2. orders[n] = get(b, id)  BY <1>0, <2>1 DEF Listing
  <2>3. get(call.book, id) = orders[n]  BY <1>3, <2>1 DEF AddedSoFar
  <2>4. QueueOf(orders[n]) \in Queue  BY <1>0 DEF Listing
  <2>5. Ids(EmptyBook[QueueOf(orders[n])]) = {}  BY <2>4 DEF EmptyBook, Ids
  <2>6. Ahead(call.book, id) = ListedAt(orders, n - 1, QueueOf(orders[n]))
    BY <1>3, <2>1, <2>5 DEF AddedSoFar
  <2>7. Ahead(b, id) = ListedAt(orders, n - 1, QueueOf(orders[n]))
    BY <1>0, <2>1, AheadInList
  <2> QED  BY <2>2, <2>3, <2>6, <2>7
<1> QED  BY <1>4, <1>7, <1>8 DEF SameOrders

-----------------------------------------------------------------------------
(* Lists *)

\* A set of lists that has the empty one and every longer one has them all.
LEMMA ListsByInduction ==
  ASSUME NEW S, NEW T, <<>> \in T,
         \A s \in Seq(S) : \A x \in S : s \in T => Append(s, x) \in T
  PROVE  Seq(S) \subseteq T
<1> DEFINE U == {n \in Nat : \A s \in Seq(S) : Len(s) = n => s \in T}
<1>1. 0 \in U
  <2> SUFFICES ASSUME NEW s \in Seq(S), Len(s) = 0 PROVE s \in T  OBVIOUS
  <2>1. s = <<>>  BY EmptySeq
  <2> QED  BY <2>1
<1>2. ASSUME NEW n \in Nat, n \in U PROVE n + 1 \in U
  <2> SUFFICES ASSUME NEW s \in Seq(S), Len(s) = n + 1 PROVE s \in T  OBVIOUS
  <2>1. s # <<>>  BY EmptySeq
  <2>2. PICK r : r \in Seq(S) /\ \E x \in S : s = Append(r, x)
    BY <2>1, SequenceEmptyOrAppend
  <2>3. PICK x : x \in S /\ s = Append(r, x)  BY <2>2
  <2>4. Len(r) = n
    <3>1. Len(s) = Len(r) + 1  BY <2>2, <2>3, AppendProperties
    <3>2. Len(r) \in Nat  BY <2>2, LenProperties
    <3> QED  BY <3>1, <3>2
  <2>5. r \in T  BY <1>2, <2>2, <2>4
  <2> QED  BY <2>2, <2>3, <2>5
<1>3. Nat \subseteq U
  <2> HIDE DEF U
  <2> QED  BY <1>1, <1>2, NumbersByInduction
<1> SUFFICES ASSUME NEW s \in Seq(S) PROVE s \in T  OBVIOUS
<1>4. Len(s) \in U  BY <1>3, LenProperties
<1> QED  BY <1>4

\* A list that grows at its end grows the same behind another list.
LEMMA LongerTogether ==
  ASSUME NEW p \in Seq(Order), NEW q \in Seq(Order), NEW x \in Order
  PROVE  /\ p \o Append(q, x) = Append(p \o q, x)
         /\ p \o q \in Seq(Order) /\ Append(q, x) \in Seq(Order)
<1>1. p \o q \in Seq(Order) /\ Append(q, x) \in Seq(Order)
  BY ConcatProperties, AppendProperties
<1>2. PICK one : one = <<x>>  OBVIOUS
<1>3. one \in Seq(Order)  BY <1>2
<1>4. Append(q, x) = q \o one  BY <1>2, AppendIsConcat
<1>5. Append(p \o q, x) = (p \o q) \o one  BY <1>1, <1>2, AppendIsConcat
<1>6. (p \o q) \o one = p \o (q \o one)  BY <1>3, ConcatAssociative
<1> QED  BY <1>1, <1>4, <1>5, <1>6

\* No two orders of a list have the same id.
OnceEach(orders) == \A m, n \in DOMAIN orders : m < n => orders[m].id # orders[n].id

\* Two lists of the same orders, no two of them in opposite places, are one list.
LEMMA OneOrderOnly ==
  ASSUME NEW x \in Seq(Order), NEW y \in Seq(Order), OnceEach(x), OnceEach(y),
         \A m \in DOMAIN x : \E n \in DOMAIN y : y[n] = x[m],
         \A n \in DOMAIN y : \E m \in DOMAIN x : x[m] = y[n],
         \A m, n \in DOMAIN x, i, j \in DOMAIN y :
           m < n /\ i < j => ~(x[m] = y[j] /\ x[n] = y[i])
  PROVE  x = y
<1>1. /\ Len(x) \in Nat /\ DOMAIN x = 1 .. Len(x)
      /\ Len(y) \in Nat /\ DOMAIN y = 1 .. Len(y)
  BY LenProperties
<1>0. Len(x) \in Nat /\ Len(y) \in Nat  BY <1>1
<1>1a. /\ \A i \in DOMAIN x : i \in Nat /\ i >= 1
       /\ \A i \in DOMAIN y : i \in Nat /\ i >= 1
  BY <1>1
<1>2. \A m, n \in DOMAIN x : x[m] = x[n] => m = n
  <2> SUFFICES ASSUME NEW m \in DOMAIN x, NEW n \in DOMAIN x, m < n PROVE x[m] # x[n]
    BY <1>1
  <2> QED  BY DEF OnceEach
<1>3. \A m, n \in DOMAIN y : y[m] = y[n] => m = n
  <2> SUFFICES ASSUME NEW m \in DOMAIN y, NEW n \in DOMAIN y, m < n PROVE y[m] # y[n]
    BY <1>1
  <2> QED  BY DEF OnceEach
<1> DEFINE T == {k \in Nat : \A i \in 1 .. k :
                   (i \in DOMAIN x \/ i \in DOMAIN y)
                      => i \in DOMAIN x /\ i \in DOMAIN y /\ x[i] = y[i]}
<1>4. 0 \in T  OBVIOUS
<1>5. ASSUME NEW k \in Nat, k \in T PROVE k + 1 \in T
  <2> DEFINE h == k + 1
  <2>0. h \in Nat /\ \A i \in Nat : i < h => i <= k  OBVIOUS
  <2> HIDE DEF h
  <2>1. ASSUME NEW i \in DOMAIN x, i < h PROVE i \in DOMAIN y /\ x[i] = y[i]
    <3>1. i \in Nat /\ i >= 1 /\ i <= k  BY <1>1a, <2>0, <2>1
    <3>2. i \in 1 .. k  BY <3>1
    <3> QED  BY <1>5, <3>2
  <2>2. ASSUME NEW i \in DOMAIN y, i < h PROVE i \in DOMAIN x /\ x[i] = y[i]
    <3>1. i \in Nat /\ i >= 1 /\ i <= k  BY <1>1a, <2>0, <2>2
    <3>2. i \in 1 .. k  BY <3>1
    <3> QED  BY <1>5, <3>2
  <2>3. ASSUME h \in DOMAIN x PROVE \E j \in DOMAIN y : y[j] = x[h] /\ j >= h
    <3>1. PICK j \in DOMAIN y : y[j] = x[h]  BY <2>3
    <3>2. CASE j < h
      <4>1. j \in DOMAIN x /\ x[j] = x[h]  BY <2>2, <3>1, <3>2
      <4>2. j = h  BY <1>2, <2>3, <4>1
      <4> QED  BY <1>1, <2>0, <3>2, <4>2
    <3> QED  BY SMTT(30), <1>1, <2>0, <3>1, <3>2
  <2>4. ASSUME h \in DOMAIN y PROVE \E j \in DOMAIN x : x[j] = y[h] /\ j >= h
    <3>1. PICK j \in DOMAIN x : x[j] = y[h]  BY <2>4
    <3>2. CASE j < h
      <4>1. j \in DOMAIN y /\ y[j] = y[h]  BY <2>1, <3>1, <3>2
      <4>2. j = h  BY <1>3, <2>4, <4>1
      <4> QED  BY <1>1, <2>0, <3>2, <4>2
    <3> QED  BY <1>1, <2>0, <3>1, <3>2
  <2>5. ASSUME h \in DOMAIN x \/ h \in DOMAIN y PROVE h \in DOMAIN x /\ h \in DOMAIN y
    BY <1>1, <2>0, <2>3, <2>4, <2>5
  <2>6. ASSUME h \in DOMAIN x, h \in DOMAIN y PROVE x[h] = y[h]
    <3>1. PICK j \in DOMAIN y : y[j] = x[h] /\ j >= h  BY <2>3, <2>6
    <3>2. PICK i \in DOMAIN x : x[i] = y[h] /\ i >= h  BY <2>4, <2>6
    <3>3. ~(h < i /\ h < j)  BY <2>6, <3>1, <3>2
    <3>4. i = h \/ j = h  BY SMTT(30), <1>1a, <2>0, <3>1, <3>2, <3>3
    <3> QED  BY <3>1, <3>2, <3>4
  <2>7. ASSUME NEW i \in 1 .. h, i \in DOMAIN x \/ i \in DOMAIN y
        PROVE  i \in DOMAIN x /\ i \in DOMAIN y /\ x[i] = y[i]
    <3>1. i = h \/ i < h  BY <2>0
    <3> QED  BY <2>1, <2>2, <2>5, <2>6, <2>7, <3>1
  <2>8. h \in T  BY <2>0, <2>7
  <2> QED  BY <2>8 DEF h
<1>6. Nat \subseteq T
  <2> HIDE DEF T
  <2> QED  BY <1>4, <1>5, NumbersByInduction
<1>7. ASSUME NEW i \in Nat, i \in DOMAIN x \/ i \in DOMAIN y
      PROVE  i \in DOMAIN x /\ i \in DOMAIN y /\ x[i] = y[i]
  <2>1. i \in T  BY <1>6
  <2>2. i >= 1  BY <1>1, <1>7
  <2>3. i \in 1 .. i  BY <2>2
  <2> QED  BY <1>7, <2>1, <2>3
<1> HIDE DEF T
<1>8. \A i \in Nat : i \in 1 .. Len(x) <=> i \in 1 .. Len(y)  BY <1>1, <1>7
<1>9. Len(x) = Len(y)
  <2>1. ~(Len(x) < Len(y))
    <3> SUFFICES ASSUME Len(x) < Len(y) PROVE FALSE  OBVIOUS
    <3>1. Len(y) \in 1 .. Len(y) /\ Len(y) \notin 1 .. Len(x)  BY <1>1
    <3> QED  BY <1>1, <1>8, <3>1
  <2>2. ~(Len(y) < Len(x))
    <3> SUFFICES ASSUME Len(y) < Len(x) PROVE FALSE  OBVIOUS
    <3>1. Len(x) \in 1 .. Len(x) /\ Len(x) \notin 1 .. Len(y)  BY <1>1
    <3> QED  BY <1>1, <1>8, <3>1
  <2> QED  BY <1>0, <2>1, <2>2
<1>10. \A i \in 1 .. Len(x) : x[i] = y[i]  BY <1>1, <1>7
<1> QED  BY <1>9, <1>10, SeqEqual

-----------------------------------------------------------------------------
(* The orders of a list that are in a set *)

\* Whether the next order is kept.
KeepNext(kept, order, kind) ==
    IF order \in kind THEN Append(kept, order) ELSE kept

\* The orders kept among the first n.
KeptUpTo(n, run, orders, kind) ==
    /\ run = [i \in 0 .. n |-> run[i]]
    /\ run[0] = <<>>
    /\ \A i \in 1 .. n : run[i] = KeepNext(run[i - 1], orders[i], kind)

\* The definition of Those, unfolded.
LEMMA KeptRuns ==
  ASSUME NEW S, NEW orders \in Seq(S), NEW kind
  PROVE  \E run : /\ KeptUpTo(Len(orders), run, orders, kind)
                  /\ Those(orders, kind) = run[Len(orders)]
<1> DEFINE N == Len(orders)
           T == {n \in Nat : \E f : KeptUpTo(n, f, orders, kind)}
<1>0. N \in Nat  OBVIOUS
<1>1. 0 \in T
  <2>1. PICK f : f = [i \in 0 .. 0 |-> <<>>]  OBVIOUS
  <2>2. f = [i \in 0 .. 0 |-> f[i]] /\ f[0] = <<>>  BY <2>1
  <2>3. KeptUpTo(0, f, orders, kind)  BY <2>2 DEF KeptUpTo
  <2> QED  BY <2>3
<1>2. ASSUME NEW n \in Nat, n \in T PROVE n + 1 \in T
  <2>1. PICK f : KeptUpTo(n, f, orders, kind)  BY <1>2
  <2>2. PICK m : m = KeepNext(f[n], orders[n + 1], kind)  OBVIOUS
  <2>3. PICK g : g = [i \in 0 .. (n + 1) |-> IF i = n + 1 THEN m ELSE f[i]]  OBVIOUS
  <2>4. \A i \in 0 .. n : g[i] = f[i]
    <3> SUFFICES ASSUME NEW i \in 0 .. n PROVE g[i] = f[i]  OBVIOUS
    <3>1. i \in 0 .. (n + 1) /\ i # n + 1  OBVIOUS
    <3> QED  BY <2>3, <3>1
  <2>5. g[n + 1] = m  BY <2>3
  <2>6. ASSUME NEW i \in 1 .. (n + 1) PROVE g[i] = KeepNext(g[i - 1], orders[i], kind)
    <3>1. CASE i = n + 1
      <4>1. i - 1 = n /\ g[i - 1] = f[n]  BY <2>4, <3>1
      <4> QED  BY <2>2, <2>5, <3>1, <4>1
    <3>2. CASE i # n + 1
      <4>1. i \in 1 .. n /\ i \in 0 .. n /\ i - 1 \in 0 .. n  BY <3>2
      <4>2. g[i] = f[i] /\ g[i - 1] = f[i - 1]  BY <2>4, <4>1
      <4> QED  BY <2>1, <4>1, <4>2 DEF KeptUpTo
    <3> QED  BY <3>1, <3>2
  <2>7. g = [i \in 0 .. (n + 1) |-> g[i]]  BY <2>3
  <2>8. g[0] = <<>>  BY <2>1, <2>4 DEF KeptUpTo
  <2>9. KeptUpTo(n + 1, g, orders, kind)  BY <2>6, <2>7, <2>8 DEF KeptUpTo
  <2> QED  BY <2>9
<1>3. N \in T
  <2> HIDE DEF T
  <2>1. Nat \subseteq T  BY <1>1, <1>2, NumbersByInduction
  <2> QED  BY <1>0, <2>1
<1>4. PICK f : KeptUpTo(N, f, orders, kind)  BY <1>3
<1> HIDE DEF T
<1> DEFINE Recurs(h) ==
             h = [n \in 0 .. Len(orders) |-> IF n = 0 THEN <<>>
                ELSE IF orders[n] \in kind
                THEN Append(h[n - 1], orders[n]) ELSE h[n - 1]]
           upto == CHOOSE h : Recurs(h)
<1>5. Those(orders, kind) = upto[Len(orders)]  BY DEF Those
<1>6. Recurs(f)
  <2>1. ASSUME NEW n \in 0 .. N
        PROVE  f[n] = IF n = 0 THEN <<>>
                ELSE IF orders[n] \in kind
                THEN Append(f[n - 1], orders[n]) ELSE f[n - 1]
    <3>1. CASE n = 0  BY <1>4, <3>1 DEF KeptUpTo
    <3>2. CASE n # 0
      <4>1. n \in 1 .. N  BY <1>0, <3>2
      <4> QED  BY <1>4, <3>2, <4>1 DEF KeptUpTo, KeepNext
    <3> QED  BY <3>1, <3>2
  <2>2. f = [i \in 0 .. N |-> f[i]]  BY <1>4 DEF KeptUpTo
  <2> QED  BY <2>1, <2>2
<1>7. Recurs(upto)
  <2> HIDE DEF Recurs
  <2> QED  BY <1>6
<1>8. PICK h : h = upto  OBVIOUS
<1> HIDE DEF upto
<1>9. Recurs(h)
  <2> HIDE DEF Recurs
  <2> QED  BY <1>7, <1>8
<1>10. \A n \in 0 .. N : h[n] = IF n = 0 THEN <<>>
                ELSE IF orders[n] \in kind
                THEN Append(h[n - 1], orders[n]) ELSE h[n - 1]
  BY <1>9
<1>11. h = [i \in 0 .. N |-> h[i]]  BY <1>9
<1> HIDE DEF Recurs, N
<1>12. h[0] = <<>>
  <2>1. 0 \in 0 .. N  BY <1>0
  <2> QED  BY <1>10, <2>1, Zenon
<1>13. ASSUME NEW i \in 1 .. N PROVE h[i] = KeepNext(h[i - 1], orders[i], kind)
  <2>1. i \in 0 .. N /\ i # 0  BY <1>0
  <2> QED  BY <1>10, <2>1 DEF KeepNext
<1>14. KeptUpTo(N, h, orders, kind)  BY <1>11, <1>12, <1>13 DEF KeptUpTo
<1> QED  BY <1>5, <1>8, <1>14 DEF N

\* One more order is kept or not.
LEMMA KeptOnAppend ==
  ASSUME NEW S, NEW orders \in Seq(S), NEW last \in S, NEW kind
  PROVE  Those(Append(orders, last), kind) = KeepNext(Those(orders, kind), last, kind)
<1>1. PICK longer : longer = Append(orders, last)  OBVIOUS
<1>2. /\ longer \in Seq(S) /\ Len(orders) \in Nat /\ Len(longer) = Len(orders) + 1
      /\ \A i \in 1 .. Len(orders) : longer[i] = orders[i]
      /\ longer[Len(orders) + 1] = last
  BY <1>1
<1>3. PICK N : N = Len(orders)  OBVIOUS
<1>4. PICK f : KeptUpTo(N, f, orders, kind) /\ Those(orders, kind) = f[N]  BY <1>3, KeptRuns
<1>5. PICK g : /\ KeptUpTo(N + 1, g, longer, kind)
               /\ Those(longer, kind) = g[N + 1]
  <2>1. \E g : /\ KeptUpTo(Len(longer), g, longer, kind)
                /\ Those(longer, kind) = g[Len(longer)]
    BY <1>2, KeptRuns
  <2> QED  BY <1>2, <1>3, <2>1
<1>6. N \in Nat  BY <1>2, <1>3
<1> DEFINE T == {n \in Nat : n <= N => g[n] = f[n]}
<1>7. 0 \in T  BY <1>4, <1>5 DEF KeptUpTo
<1>8. ASSUME NEW n \in Nat, n \in T PROVE n + 1 \in T
  <2> SUFFICES ASSUME n + 1 <= N PROVE g[n + 1] = f[n + 1]  OBVIOUS
  <2>1. n <= N /\ n + 1 \in 1 .. N /\ n + 1 \in 1 .. (N + 1) /\ (n + 1) - 1 = n  BY <1>6
  <2>2. g[n] = f[n]  BY <1>8, <2>1
  <2>3. longer[n + 1] = orders[n + 1]  BY <1>2, <1>3, <2>1
  <2>4. f[n + 1] = KeepNext(f[(n + 1) - 1], orders[n + 1], kind)  BY <1>4, <2>1 DEF KeptUpTo
  <2>5. g[n + 1] = KeepNext(g[(n + 1) - 1], longer[n + 1], kind)  BY <1>5, <2>1 DEF KeptUpTo
  <2> QED  BY <2>1, <2>2, <2>3, <2>4, <2>5
<1>9. g[N] = f[N]
  <2> HIDE DEF T
  <2>1. Nat \subseteq T  BY <1>7, <1>8, NumbersByInduction
  <2>2. N \in T /\ N <= N  BY <1>6, <2>1
  <2> QED  BY <2>2 DEF T
<1>10. N + 1 \in 1 .. (N + 1) /\ (N + 1) - 1 = N  BY <1>6
<1>11. g[N + 1] = KeepNext(g[(N + 1) - 1], longer[N + 1], kind)  BY <1>5, <1>10 DEF KeptUpTo
<1> QED  BY <1>1, <1>2, <1>3, <1>4, <1>5, <1>9, <1>10, <1>11

\* Of nothing, nothing is kept.
LEMMA KeptNothing ==
  ASSUME NEW kind
  PROVE  Those(<<>>, kind) = <<>>
<1>1. PICK none : none = <<>>  OBVIOUS
<1>2. none \in Seq({}) /\ Len(none) = 0  BY <1>1
<1>3. PICK f : KeptUpTo(0, f, none, kind) /\ Those(none, kind) = f[0]
  <2>1. \E f : KeptUpTo(Len(none), f, none, kind) /\ Those(none, kind) = f[Len(none)]
    BY <1>2, KeptRuns
  <2> QED  BY <1>2, <2>1
<1> QED  BY <1>1, <1>3 DEF KeptUpTo

\* What is kept comes from the list, is of the kind, and is there once.
Kept(kept, orders, kind) ==
    /\ kept \in Seq(Order)
    /\ \A i \in DOMAIN kept :
         kept[i] \in kind /\ \E n \in DOMAIN orders : orders[n] = kept[i]
    /\ OnceEach(orders) => OnceEach(kept)

\* One more order, kept or not.
LEMMA OneMoreKept ==
  ASSUME NEW orders \in Seq(Order), NEW kind, NEW kept, Kept(kept, orders, kind),
         NEW x \in Order
  PROVE  Kept(KeepNext(kept, x, kind), Append(orders, x), kind)
<1>1. PICK more : more = Append(orders, x)  OBVIOUS
<1>2. /\ more \in Seq(Order) /\ Len(orders) \in Nat /\ DOMAIN orders = 1 .. Len(orders)
      /\ DOMAIN more = 1 .. (Len(orders) + 1)
      /\ \A i \in 1 .. Len(orders) : more[i] = orders[i]
      /\ more[Len(orders) + 1] = x
  BY <1>1, LenProperties, AppendProperties
<1>3. \A n \in DOMAIN orders : n \in DOMAIN more /\ more[n] = orders[n]  BY <1>2
<1>4. OnceEach(more) => OnceEach(orders) /\ \A n \in DOMAIN orders : orders[n].id # x.id
  <2> SUFFICES ASSUME OnceEach(more)
               PROVE  OnceEach(orders) /\ \A n \in DOMAIN orders : orders[n].id # x.id
    OBVIOUS
  <2>1. OnceEach(orders)  BY <1>2, <1>3 DEF OnceEach
  <2>2. ASSUME NEW n \in DOMAIN orders PROVE orders[n].id # x.id
    <3>1. n < Len(orders) + 1 /\ Len(orders) + 1 \in DOMAIN more  BY <1>2
    <3> QED  BY <1>2, <1>3, <3>1 DEF OnceEach
  <2> QED  BY <2>1, <2>2
<1>5. CASE x \notin kind
  <2>1. KeepNext(kept, x, kind) = kept  BY <1>5 DEF KeepNext
  <2>2. Kept(kept, more, kind)  BY <1>3, <1>4 DEF Kept
  <2> QED  BY <1>1, <2>1, <2>2
<1>6. CASE x \in kind
  <2>1. PICK then : then = Append(kept, x)  OBVIOUS
  <2>2. KeepNext(kept, x, kind) = then  BY <1>6, <2>1 DEF KeepNext
  <2>3. kept \in Seq(Order)  BY DEF Kept
  <2>4. /\ then \in Seq(Order) /\ Len(kept) \in Nat /\ DOMAIN kept = 1 .. Len(kept)
        /\ DOMAIN then = 1 .. (Len(kept) + 1)
        /\ \A i \in 1 .. Len(kept) : then[i] = kept[i]
        /\ then[Len(kept) + 1] = x
    BY <2>1, <2>3, LenProperties, AppendProperties
  <2>5. ASSUME NEW i \in DOMAIN then
        PROVE  then[i] \in kind /\ \E n \in DOMAIN more : more[n] = then[i]
    <3>1. CASE i = Len(kept) + 1
      <4>1. Len(orders) + 1 \in DOMAIN more  BY <1>2
      <4> QED  BY <1>2, <1>6, <2>4, <3>1, <4>1
    <3>2. CASE i # Len(kept) + 1
      <4>1. i \in DOMAIN kept /\ then[i] = kept[i]  BY <2>4, <3>2
      <4> QED  BY <1>3, <4>1 DEF Kept
    <3> QED  BY <3>1, <3>2
  <2>6. ASSUME OnceEach(more) PROVE OnceEach(then)
    <3>1. OnceEach(kept)  BY <1>4, <2>6 DEF Kept
    <3>2. \A i \in DOMAIN kept : kept[i].id # x.id  BY <1>4, <2>6 DEF Kept
    <3>3. ASSUME NEW m \in DOMAIN then, NEW n \in DOMAIN then, m < n
          PROVE  then[m].id # then[n].id
      <4>1. m \in DOMAIN kept /\ then[m] = kept[m]  BY <2>4, <3>3
      <4>2. CASE n = Len(kept) + 1  BY <2>4, <3>2, <4>1, <4>2
      <4>3. CASE n # Len(kept) + 1
        <5>1. n \in DOMAIN kept /\ then[n] = kept[n]  BY <2>4, <4>3
        <5> QED  BY <3>1, <3>3, <4>1, <5>1 DEF OnceEach
      <4> QED  BY <4>2, <4>3
    <3> QED  BY <3>3 DEF OnceEach
  <2>7. Kept(then, more, kind)  BY <2>4, <2>5, <2>6 DEF Kept
  <2> QED  BY <1>1, <2>2, <2>7
<1> QED  BY <1>5, <1>6

\* Those keeps what it says.
LEMMA ThoseAreKept ==
  ASSUME NEW orders \in Seq(Order), NEW kind
  PROVE  Kept(Those(orders, kind), orders, kind)
<1> DEFINE T == {s \in Seq(Order) : Kept(Those(s, kind), s, kind)}
<1>1. <<>> \in T
  <2>1. Those(<<>>, kind) = <<>>  BY KeptNothing
  <2>2. DOMAIN <<>> = {} /\ <<>> \in Seq(Order)  OBVIOUS
  <2>3. Kept(<<>>, <<>>, kind)  BY <2>2 DEF Kept, OnceEach
  <2> QED  BY <2>1, <2>2, <2>3
<1>2. ASSUME NEW s \in Seq(Order), NEW x \in Order, s \in T PROVE Append(s, x) \in T
  <2>1. Those(Append(s, x), kind) = KeepNext(Those(s, kind), x, kind)  BY KeptOnAppend
  <2>2. Kept(KeepNext(Those(s, kind), x, kind), Append(s, x), kind)  BY <1>2, OneMoreKept
  <2>3. Append(s, x) \in Seq(Order)  OBVIOUS
  <2> QED  BY <2>1, <2>2, <2>3
<1>3. Seq(Order) \subseteq T
  <2> HIDE DEF T
  <2> QED  BY <1>1, <1>2, ListsByInduction
<1> QED  BY <1>3

\* Those of two lists are those of the first, then those of the second.
LEMMA ThoseOfBoth ==
  ASSUME NEW x \in Seq(Order), NEW y \in Seq(Order), NEW kind
  PROVE  Those(x \o y, kind) = Those(x, kind) \o Those(y, kind)
<1> DEFINE T == {s \in Seq(Order) : Those(x \o s, kind) = Those(x, kind) \o Those(s, kind)}
<1>0. Those(x, kind) \in Seq(Order)  BY ThoseAreKept DEF Kept
<1>1. <<>> \in T
  <2>1. Those(<<>>, kind) = <<>>  BY KeptNothing
  <2>2. x \o <<>> = x /\ Those(x, kind) \o <<>> = Those(x, kind) /\ <<>> \in Seq(Order)
    BY <1>0, ConcatEmptySeq
  <2> QED  BY <2>1, <2>2
<1>2. ASSUME NEW s \in Seq(Order), NEW o \in Order, s \in T PROVE Append(s, o) \in T
  <2>1. x \o Append(s, o) = Append(x \o s, o) /\ x \o s \in Seq(Order)
        /\ Append(s, o) \in Seq(Order)
    BY LongerTogether
  <2>2. Those(Append(x \o s, o), kind) = KeepNext(Those(x \o s, kind), o, kind)
    BY <2>1, KeptOnAppend
  <2>3. Those(Append(s, o), kind) = KeepNext(Those(s, kind), o, kind)  BY KeptOnAppend
  <2>4. Those(s, kind) \in Seq(Order)  BY ThoseAreKept DEF Kept
  <2>5. PICK p : p = Those(x, kind)  OBVIOUS
  <2>6. PICK q : q = Those(s, kind)  OBVIOUS
  <2>7. p \in Seq(Order) /\ q \in Seq(Order)  BY <1>0, <2>4, <2>5, <2>6
  <2>8. Append(p \o q, o) = p \o Append(q, o)  BY ZenonT(60), <2>7, LongerTogether
  <2>9. KeepNext(p \o q, o, kind) = p \o KeepNext(q, o, kind)  BY <2>8 DEF KeepNext
  <2>10. Those(x \o s, kind) = p \o q  BY <1>2, <2>5, <2>6
  <2> QED  BY <2>1, <2>2, <2>3, <2>5, <2>6, <2>9, <2>10
<1>3. Seq(Order) \subseteq T
  <2> HIDE DEF T
  <2> QED  BY <1>1, <1>2, ListsByInduction
<1> QED  BY <1>3

\* It does not matter by which of two sets a list is filtered first.
LEMMA ThoseOfThose ==
  ASSUME NEW orders \in Seq(Order), NEW A, NEW B
  PROVE  Those(Those(orders, A), B) = Those(Those(orders, B), A)
<1> DEFINE T == {s \in Seq(Order) : Those(Those(s, A), B) = Those(Those(s, B), A)}
<1>1. <<>> \in T
  <2>1. Those(<<>>, A) = <<>> /\ Those(<<>>, B) = <<>>  BY KeptNothing
  <2> QED  BY <2>1
<1>2. ASSUME NEW s \in Seq(Order), NEW o \in Order, s \in T PROVE Append(s, o) \in T
  <2>1. PICK p : p = Those(s, A)  OBVIOUS
  <2>2. PICK q : q = Those(s, B)  OBVIOUS
  <2>3. p \in Seq(Order) /\ q \in Seq(Order)  BY <2>1, <2>2, ThoseAreKept DEF Kept
  <2>4. Those(p, B) = Those(q, A)  BY <1>2, <2>1, <2>2
  <2>5. /\ Those(Append(s, o), A) = KeepNext(p, o, A)
        /\ Those(Append(s, o), B) = KeepNext(q, o, B)
    BY <2>1, <2>2, KeptOnAppend
  <2>6. /\ Those(Append(p, o), B) = KeepNext(Those(p, B), o, B)
        /\ Those(Append(q, o), A) = KeepNext(Those(q, A), o, A)
    BY <2>3, KeptOnAppend
  <2>7. Those(KeepNext(p, o, A), B) = Those(KeepNext(q, o, B), A)
    <3>1. CASE o \in A /\ o \in B  BY <2>4, <2>6, <3>1 DEF KeepNext
    <3>2. CASE o \in A /\ o \notin B  BY <2>4, <2>6, <3>2 DEF KeepNext
    <3>3. CASE o \notin A /\ o \in B  BY <2>4, <2>6, <3>3 DEF KeepNext
    <3>4. CASE o \notin A /\ o \notin B  BY <2>4, <3>4 DEF KeepNext
    <3> QED  BY <3>1, <3>2, <3>3, <3>4
  <2>8. Append(s, o) \in Seq(Order)  OBVIOUS
  <2> QED  BY <2>5, <2>7, <2>8
<1>3. Seq(Order) \subseteq T
  <2> HIDE DEF T
  <2> QED  BY <1>1, <1>2, ListsByInduction
<1> QED  BY <1>3

-----------------------------------------------------------------------------
(* Lists of the orders of a book *)

\* One more order is added after the others.
LEMMA AddedOnAppend ==
  ASSUME NEW start, NEW orders \in Seq(Order), NEW last \in Order
  PROVE  AddAll(start, Append(orders, last)) = AddNext(AddAll(start, orders), last)
<1>1. PICK longer : longer = Append(orders, last)  OBVIOUS
<1>2. /\ longer \in Seq(Order) /\ Len(orders) \in Nat /\ Len(longer) = Len(orders) + 1
      /\ \A i \in 1 .. Len(orders) : longer[i] = orders[i]
      /\ longer[Len(orders) + 1] = last
  BY <1>1
<1>3. PICK N : N = Len(orders)  OBVIOUS
<1>4. PICK f : AddedUpTo(N, f, start, orders) /\ AddAll(start, orders) = f[N]  BY <1>3, AddAllRuns
<1>5. PICK g : /\ AddedUpTo(N + 1, g, start, longer)
               /\ AddAll(start, longer) = g[N + 1]
  <2>1. \E g : /\ AddedUpTo(Len(longer), g, start, longer)
                /\ AddAll(start, longer) = g[Len(longer)]
    BY <1>2, AddAllRuns
  <2> QED  BY <1>2, <1>3, <2>1
<1>6. N \in Nat  BY <1>2, <1>3
<1> DEFINE T == {n \in Nat : n <= N => g[n] = f[n]}
<1>7. 0 \in T  BY <1>4, <1>5 DEF AddedUpTo
<1>8. ASSUME NEW n \in Nat, n \in T PROVE n + 1 \in T
  <2> SUFFICES ASSUME n + 1 <= N PROVE g[n + 1] = f[n + 1]  OBVIOUS
  <2>1. n <= N /\ n + 1 \in 1 .. N /\ n + 1 \in 1 .. (N + 1) /\ (n + 1) - 1 = n  BY <1>6
  <2>2. g[n] = f[n]  BY <1>8, <2>1
  <2>3. longer[n + 1] = orders[n + 1]  BY <1>2, <1>3, <2>1
  <2>4. f[n + 1] = AddNext(f[(n + 1) - 1], orders[n + 1])  BY <1>4, <2>1 DEF AddedUpTo
  <2>5. g[n + 1] = AddNext(g[(n + 1) - 1], longer[n + 1])  BY <1>5, <2>1 DEF AddedUpTo
  <2> QED  BY <2>1, <2>2, <2>3, <2>4, <2>5
<1>9. g[N] = f[N]
  <2> HIDE DEF T
  <2>1. Nat \subseteq T  BY <1>7, <1>8, NumbersByInduction
  <2>2. N \in T /\ N <= N  BY <1>6, <2>1
  <2> QED  BY <2>2 DEF T
<1>10. N + 1 \in 1 .. (N + 1) /\ (N + 1) - 1 = N  BY <1>6
<1>11. g[N + 1] = AddNext(g[(N + 1) - 1], longer[N + 1])  BY <1>5, <1>10 DEF AddedUpTo
<1> QED  BY <1>1, <1>2, <1>3, <1>4, <1>5, <1>9, <1>10, <1>11

\* Without orders the book stays.
LEMMA AddedNothing ==
  ASSUME NEW start
  PROVE  AddAll(start, <<>>) = Done(start)
<1>1. PICK none : none = <<>>  OBVIOUS
<1>2. none \in Seq(Order) /\ Len(none) = 0  BY <1>1
<1>3. PICK f : AddedUpTo(0, f, start, none) /\ AddAll(start, none) = f[0]
  <2>1. \E f : AddedUpTo(Len(none), f, start, none) /\ AddAll(start, none) = f[Len(none)]
    BY <1>2, AddAllRuns
  <2> QED  BY <1>2, <2>1
<1> QED  BY <1>1, <1>3 DEF AddedUpTo

\* Of two orders at one price only one is ahead of the other.
LEMMA AheadOneWay ==
  ASSUME NEW b, SoundBook(b), NEW u \in RestingIds(b), NEW v \in RestingIds(b),
         u \in Ahead(b, v)
  PROVE  v \notin Ahead(b, u) /\ u # v
<1> DEFINE k == HomeOf(b, v)
           i == PlaceIn(b[k], v)
<1>1. k \in Queue /\ i \in DOMAIN b[k] /\ b[k][i].id = v  BY RestsSomewhere
<1> HIDE DEF k, i
<1>2. Ahead(b, v) = Before(b[k], i)  BY <1>1, RestsAt
<1>3. DOMAIN b[k] = 1 .. Len(b[k]) /\ Len(b[k]) \in Nat
  BY <1>1, QueuesAreSequences DEF SoundBook
<1>4. PICK j \in 1 .. (i - 1) : b[k][j].id = u  BY <1>2 DEF Before
<1>5. j \in DOMAIN b[k] /\ j < i  BY <1>1, <1>3, <1>4
<1>6. Ahead(b, u) = Before(b[k], j)  BY <1>1, <1>4, <1>5, RestsAt
<1>7. u # v  BY <1>1, <1>4, <1>5 DEF SoundBook, OneOrderPerId
<1>8. ASSUME NEW h \in 1 .. (j - 1) PROVE b[k][h].id # v
  <2>1. h \in DOMAIN b[k] /\ h # i  BY <1>1, <1>3, <1>5
  <2> QED  BY <1>1, <2>1 DEF SoundBook, OneOrderPerId
<1> QED  BY <1>6, <1>7, <1>8 DEF Before

\* A list of resting orders has none twice.
LEMMA ListedOnce ==
  ASSUME NEW x, NEW b, NEW Q, Listing(x, b, Q)
  PROVE  x \in Seq(Order) /\ OnceEach(x)
BY DEF Listing, OnceEach
=============================================================================
