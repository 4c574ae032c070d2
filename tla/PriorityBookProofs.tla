------------------------- MODULE PriorityBookProofs -------------------------
(***************************************************************************)
(* The abstract book keeps its promises for every set of ids, wallets and  *)
(* prices and every width of Qty: an id rests in one place at most, and    *)
(* from one call to the next nobody is overtaken.  That every book of the  *)
(* specification is a SoundBook is the inductive invariant of both.              *)
(***************************************************************************)
EXTENDS PriorityBook, BookQueuesProofs

Inv == SoundBook(book) /\ result \in Result

\* One call leaves the book sound.
LEMMA CallSound ==
  ASSUME Inv, [Next]_vars
  PROVE  Inv'
<1> USE DEF Inv
<1>1. ASSUME NEW order \in Order, Add(order) PROVE Inv'
  BY <1>1, AddSound DEF Add, Answers
<1>2. ASSUME NEW id \in OrderId, Remove(id) PROVE Inv'
  BY <1>2, RemoveSound DEF Remove, Answers
<1>3. ASSUME NEW id \in OrderId, NEW new_qty \in Qty, UpdateSize(id, new_qty) PROVE Inv'
  BY <1>3, UpdateSound DEF UpdateSize, Answers
<1>4. ASSUME NEW id \in OrderId, NEW new_qty \in Qty, NEW policy \in AmendPriorityPolicy,
             AmendSize(id, new_qty, policy)
      PROVE  Inv'
  BY <1>4, AmendSound DEF AmendSize, Answers
<1>5. CASE Clear
  BY <1>5, EmptySound DEF Clear, Answers, Done, Result
<1>6. CASE UNCHANGED vars
  BY <1>6 DEF vars
<1> QED  BY <1>1, <1>2, <1>3, <1>4, <1>5, <1>6 DEF Next

\* Every book of the specification is sound.
THEOREM BooksAreSound == Spec => []Inv
<1>1. Init => Inv  BY EmptySound DEF Init, Inv, Result
<1>2. Inv /\ [Next]_vars => Inv'  BY CallSound
<1> QED  BY <1>1, <1>2, PTL DEF Spec

\* An id rests in one place at most, at its own price and side, and only with
\* a quantity to fill: order_index may be a map to single slots (book.rs:109).
THEOREM OneRestingOrder == Spec => []OneRestingOrderPerId
<1>1. Inv => OneRestingOrderPerId
  BY DEF Inv, SoundBook, OneOrderPerId, OneRestingOrderPerId
<1> QED  BY <1>1, BooksAreSound, PTL

-----------------------------------------------------------------------------
(* Time priority *)

\* An order keeps its place, or its size grew and it went behind its price.
KeepsItsPlace(b, c, id) ==
    \/ Ahead(c, id) \subseteq Ahead(b, id)
    \/ /\ get(c, id).qty > get(b, id).qty
       /\ Ahead(c, id) = Ids(b[QueueOf(get(b, id))]) \ {id}

\* A cancel only moves orders forward.
LEMMA RemoveKeepsPlaces ==
  ASSUME NEW b, SoundBook(b), NEW x, NEW call, call = remove(b, x),
         NEW id \in RestingIds(b) \cap RestingIds(call.book)
  PROVE  KeepsItsPlace(b, call.book, id)
<1>1. CASE x \notin RestingIds(b)
  BY <1>1 DEF remove, Fail, KeepsItsPlace
<1>2. CASE x \in RestingIds(b)
  <2>1. call.book = DropOrder(b, x)  BY <1>2 DEF remove, Done
  <2>2. id # x  BY <1>2, <2>1, DropSound
  <2>3. Ahead(call.book, id) = Ahead(b, id) \ {x}  BY <1>2, <2>1, <2>2, DropAhead
  <2> QED  BY <2>3 DEF KeepsItsPlace
<1> QED  BY <1>1, <1>2

\* A new size in place moves nobody.
LEMMA ResizeKeepsPlaces ==
  ASSUME NEW b, SoundBook(b), NEW x, NEW new_qty \in Qty, new_qty # 0,
         NEW id \in RestingIds(b)
  PROVE  KeepsItsPlace(b, Resize(b, x, new_qty), id)
<1>1. new_qty > 0  BY QtyLimitAssumption DEF Qty
<1>2. Ahead(Resize(b, x, new_qty), id) = Ahead(b, id)  BY <1>1, ResizeAhead
<1> QED  BY <1>2 DEF KeepsItsPlace

\* Growing under LosePriorityOnIncrease costs the one its place, nobody else.
LEMMA MoveKeepsPlaces ==
  ASSUME NEW b, SoundBook(b), NEW x \in RestingIds(b), NEW new_qty \in Qty,
         new_qty # 0, new_qty > get(b, x).qty,
         NEW id \in RestingIds(b)
  PROVE  KeepsItsPlace(b, MoveToTail(Resize(b, x, new_qty), x), id)
<1> DEFINE r == Resize(b, x, new_qty)
           c == MoveToTail(r, x)
<1>1. new_qty > 0  BY QtyLimitAssumption DEF Qty
<1>2. SoundBook(r) /\ RestingIds(r) = RestingIds(b)  BY <1>1, ResizeSound
<1>3. /\ Ahead(r, id) = Ahead(b, id)
      /\ QueueOf(get(r, x)) = QueueOf(get(b, x))
      /\ get(r, x).qty = new_qty
      /\ \A k \in Queue : Ids(r[k]) = Ids(b[k])
  <2>1. Ahead(r, id) = Ahead(b, id)  BY <1>1, ResizeAhead
  <2>2. QueueOf(get(r, x)) = QueueOf(get(b, x))  BY <1>1, ResizeAhead
  <2>3. get(r, x).qty = new_qty  BY <1>1, ResizeAhead
  <2>4. \A k \in Queue : Ids(r[k]) = Ids(b[k])  BY <1>1, ResizeAhead
  <2> QED  BY <2>1, <2>2, <2>3, <2>4
<1>4. QueueOf(get(b, x)) \in Queue  BY RestsSomewhere
<1> HIDE DEF r
<1>5. /\ id # x => Ahead(c, id) = Ahead(r, id) \ {x}
      /\ Ahead(c, x) = Ids(r[QueueOf(get(r, x))]) \ {x}
      /\ get(c, x) = get(r, x)
  BY <1>2, MoveAhead
<1> HIDE DEF c
<1>6. CASE id = x
  <2>1. get(c, id).qty > get(b, id).qty  BY <1>3, <1>5, <1>6
  <2>2. Ahead(c, id) = Ids(b[QueueOf(get(b, id))]) \ {id}  BY <1>3, <1>4, <1>5, <1>6
  <2> QED  BY <2>1, <2>2 DEF KeepsItsPlace, c, r
<1>7. CASE id # x
  <2>1. Ahead(c, id) \subseteq Ahead(b, id)  BY <1>3, <1>5, <1>7
  <2> QED  BY <2>1 DEF KeepsItsPlace, c, r
<1> QED  BY <1>6, <1>7

\* No call overtakes an order that keeps resting.
LEMMA CallKeepsPlaces ==
  ASSUME Inv, Next, NEW id \in RestingIds(book) \cap RestingIds(book')
  PROVE  KeepsItsPlace(book, book', id)
<1>0. SoundBook(book)  BY DEF Inv
<1>1. ASSUME NEW order \in Order, Add(order) PROVE KeepsItsPlace(book, book', id)
  <2>1. CASE order.qty = 0 \/ order.id \in RestingIds(book)
    BY <1>1, <2>1 DEF Add, Answers, add, Fail, KeepsItsPlace
  <2>2. CASE order.qty # 0 /\ order.id \notin RestingIds(book)
    <3>1. book' = AppendOrder(book, order)
      BY <1>1, <2>2 DEF Add, Answers, add, Done
    <3>2. order.qty > 0  BY <2>2, QtyLimitAssumption DEF Order, Qty
    <3>3. Ahead(book', id) = Ahead(book, id)
      BY <1>0, <2>2, <3>1, <3>2, AppendAhead
    <3> QED  BY <3>3 DEF KeepsItsPlace
  <2> QED  BY <2>1, <2>2
<1>2. ASSUME NEW x \in OrderId, Remove(x) PROVE KeepsItsPlace(book, book', id)
  BY <1>0, <1>2, RemoveKeepsPlaces DEF Remove, Answers
<1>3. ASSUME NEW x \in OrderId, NEW new_qty \in Qty, UpdateSize(x, new_qty)
      PROVE  KeepsItsPlace(book, book', id)
  <2> DEFINE call == update_size(book, x, new_qty)
  <2>0. book' = call.book  BY <1>3 DEF UpdateSize, Answers
  <2>1. CASE x \notin RestingIds(book) \/ new_qty >= get(book, x).qty
    BY <2>0, <2>1 DEF update_size, Fail, KeepsItsPlace
  <2>2. CASE x \in RestingIds(book) /\ ~(new_qty >= get(book, x).qty) /\ new_qty = 0
    <3>1. call = remove(book, x)  BY <2>2 DEF update_size
    <3> QED  BY <1>0, <2>0, <3>1, RemoveKeepsPlaces
  <2>3. CASE x \in RestingIds(book) /\ ~(new_qty >= get(book, x).qty) /\ new_qty # 0
    <3>1. call.book = Resize(book, x, new_qty)  BY <2>3 DEF update_size, Done
    <3> QED  BY <1>0, <2>0, <2>3, <3>1, ResizeKeepsPlaces
  <2> QED  BY <2>1, <2>2, <2>3
<1>4. ASSUME NEW x \in OrderId, NEW new_qty \in Qty, NEW policy \in AmendPriorityPolicy,
             AmendSize(x, new_qty, policy)
      PROVE  KeepsItsPlace(book, book', id)
  <2> DEFINE call == amend_size_with_policy(book, x, new_qty, policy)
  <2>0. book' = call.book  BY <1>4 DEF AmendSize, Answers
  <2>1. CASE new_qty = 0 /\ call = remove(book, x)
    BY <1>0, <2>0, <2>1, RemoveKeepsPlaces
  <2>2. CASE call.book = book
    BY <2>0, <2>2 DEF KeepsItsPlace
  <2>3. CASE /\ new_qty # 0 /\ x \in RestingIds(book) /\ new_qty > get(book, x).qty
             /\ call.book = MoveToTail(Resize(book, x, new_qty), x)
    BY <1>0, <2>0, <2>3, MoveKeepsPlaces
  <2>4. CASE new_qty # 0 /\ call.book = Resize(book, x, new_qty)
    BY <1>0, <2>0, <2>4, ResizeKeepsPlaces
  <2> HIDE DEF call
  <2>5. call = amend_size_with_policy(book, x, new_qty, policy)  BY DEF call
  <2> QED  BY <2>1, <2>2, <2>3, <2>4, <2>5, AmendCases
<1>5. CASE Clear
  BY <1>5, EmptySound DEF Clear, Answers, Done
<1> QED  BY <1>1, <1>2, <1>3, <1>4, <1>5 DEF Next

\* Nobody is overtaken: an order that keeps resting gains no order ahead of it
\* unless its own size grew and it went behind its price (book.rs:419-433).
THEOREM TimePriority == Spec => NobodyIsOvertaken
<1>1. Inv /\ [Next]_vars =>
        [\A id \in RestingIds(book) \cap RestingIds(book') : KeepsItsPlace(book, book', id)]_vars
  BY CallKeepsPlaces
<1>2. NobodyIsOvertaken <=>
        [][\A id \in RestingIds(book) \cap RestingIds(book') : KeepsItsPlace(book, book', id)]_vars
  BY DEF NobodyIsOvertaken, KeepsItsPlace
<1> QED  BY <1>1, <1>2, BooksAreSound, PTL DEF Spec
=============================================================================
