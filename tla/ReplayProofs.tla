---------------------------- MODULE ReplayProofs ----------------------------
(***************************************************************************)
(* What the replay policies promise.  The policies are compared with       *)
(* apply_op case by case, for every book, whatever it holds and however it *)
(* came about; that a repeated operation is harmless needs the books that  *)
(* the specification reaches, where no id rests twice.                     *)
(***************************************************************************)
EXTENDS Replay, BookQueuesProofs

-----------------------------------------------------------------------------
(* The policies compared with apply_op (book.rs:226-313) *)

(* A policy changes what happens to an operation only where apply_op would   *)
(* refuse it, and an operation that is skipped or refused leaves the book    *)
(* alone (book.rs:226-313).                                                  *)
THEOREM OnlyTolerance == Spec => []PoliciesOnlyTolerate
<1>1. PoliciesOnlyTolerate
  BY PolicyOnlyTolerates DEF PoliciesOnlyTolerate
<1> QED
  BY <1>1, PTL

(* Under DWELLIR_TOLERANT only a new order without quantity is an error      *)
(* (types.rs:310-315): no loss, repetition or delay of sound operations can  *)
(* make the replay count one.                                                *)
THEOREM OnlyEmptyOrders == Spec => []OnlyEmptyOrdersStopReplay
<1>1. ASSUME NEW op \in BookOp,
             apply_op_with_policy(book, op, DWELLIR_TOLERANT).outcome = "Error"
      PROVE  IsAdd(op) /\ op.order.qty = 0
  <2>1. DWELLIR_TOLERANT \in ReplayPolicy
    BY DEF DWELLIR_TOLERANT, ReplayPolicy
  <2> DEFINE step == apply_op_with_policy(book, op, DWELLIR_TOLERANT)
  <2>2. ~\E reason, error : step = Tolerated(book, "Skip", reason, error)
    BY <1>1 DEF Tolerated, Outcome
  <2>3. DWELLIR_TOLERANT.duplicate_add = "Skip" /\ DWELLIR_TOLERANT.missing_order = "Skip"
        /\ DWELLIR_TOLERANT.non_decreasing_update = "TreatAsAmend"
    BY DEF DWELLIR_TOLERANT
  <2>4. CASE /\ op.kind = "UpdateSize" /\ op.id \in RestingIds(book)
             /\ step = Answered(amend_size(book, op.id, op.new_qty), "Coerced")
    BY <1>1, <2>4, AmendAnswer DEF Answered, Outcome
  <2>5. CASE /\ IsAdd(op) => op.order.id \notin RestingIds(book)
             /\ ~IsAdd(op) => op.id \in RestingIds(book)
             /\ ~Grows(book, op)
             /\ step = Answered(apply_op(book, op), "Applied")
    <3>1. apply_op(book, op).result # "Ok"
      BY <1>1, <2>5 DEF Answered, Outcome
    <3> QED
      BY <2>5, <3>1, ApplyAnswer, OpShapes DEF IsAdd
  <2> QED
    BY <2>1, <2>2, <2>3, <2>4, <2>5, PolicyCases
<1>2. OnlyEmptyOrdersStopReplay
  BY <1>1 DEF OnlyEmptyOrdersStopReplay
<1> QED
  BY <1>2, PTL

(* What is true of "Strict policy mirrors apply_op" (book.rs:222): the same  *)
(* book, and an error exactly where apply_op has one, though not always the  *)
(* same one (see the run replay_strict).                                     *)
THEOREM StrictChangesTheSame ==
  ASSUME NEW b, NEW op \in BookOp
  PROVE  LET step == apply_op_with_policy(b, op, STRICT)
         IN  /\ step.book = apply_op(b, op).book
             /\ step.outcome = "Error" <=> apply_op(b, op).result # "Ok"
<1>1. STRICT \in ReplayPolicy /\ STRICT.non_decreasing_update # "TreatAsAmend"
      /\ STRICT.duplicate_add # "Skip" /\ STRICT.missing_order # "Skip"
  BY DEF STRICT, ReplayPolicy
<1> DEFINE step == apply_op_with_policy(b, op, STRICT)
<1>2. CASE apply_op(b, op).result = "Ok"
  BY <1>1, <1>2, PolicyOnlyTolerates DEF Outcome
<1>3. CASE apply_op(b, op).result # "Ok"
  <2>1. apply_op(b, op).book = b
    BY <1>3, ApplyAnswer
  <2>2. CASE step = Answered(apply_op(b, op), "Applied")
    BY <1>3, <2>1, <2>2 DEF Answered, Outcome
  <2>3. CASE \E reason, error, t : t # "Skip" /\ step = Tolerated(b, t, reason, error)
    BY <1>3, <2>1, <2>3 DEF Tolerated, Outcome
  <2> QED
    BY <1>1, <2>2, <2>3, PolicyCases
<1> QED
  BY <1>2, <1>3

-----------------------------------------------------------------------------
(* An operation delivered twice *)

\* The book of the replay holds every id once, with a quantity to fill.
BookIsSound == SoundBook(book)

(* The books of a replay are sound: whatever the policy, each id rests in    *)
(* one place, with a quantity to fill.                                       *)
THEOREM ReplayedBooksAreSound == Spec => []BookIsSound
<1>1. Init => BookIsSound
  BY EmptySound DEF Init, BookIsSound
<1>2. BookIsSound /\ [Next]_vars => BookIsSound'
  <2> SUFFICES ASSUME SoundBook(book), [Next]_vars PROVE SoundBook(book')
    BY DEF BookIsSound
  <2>1. ASSUME NEW op \in BookOp, NEW policy \in ReplayPolicy, Apply(op, policy)
        PROVE  SoundBook(book')
    BY <2>1, PolicySound DEF Apply
  <2>2. CASE UNCHANGED vars
    BY <2>2 DEF vars
  <2> QED
    BY <2>1, <2>2 DEF Next
<1> QED
  BY <1>1, <1>2, PTL DEF Spec

\* Giving an order the size it has changes nothing.
LEMMA ResizeTwice ==
  ASSUME NEW b \in Book, NEW id, NEW new_qty \in Qty
  PROVE  Resize(Resize(b, id, new_qty), id, new_qty) = Resize(b, id, new_qty)
<1> DEFINE r == Resize(b, id, new_qty)
           t == Resize(r, id, new_qty)
<1>1. r \in Book /\ t \in Book
  <2>1. r \in Book
    BY ResizeEffect
  <2> HIDE DEF r
  <2> QED
    BY <2>1, ResizeEffect
<1>2. ASSUME NEW k \in Queue, NEW i \in DOMAIN r[k]
      PROVE  t[k][i] = r[k][i]
  <2>0. r[k][i] \in Order
    BY <1>1, QueuesAreSequences
  <2>1. /\ i \in DOMAIN b[k] /\ r[k][i].id = b[k][i].id
        /\ b[k][i].id = id => r[k][i].qty = new_qty
    BY <1>2, ResizeEffect
  <2>2. t[k][i] = IF r[k][i].id = id THEN [r[k][i] EXCEPT !.qty = new_qty] ELSE r[k][i]
    <3>1. DOMAIN r = Queue
      BY <1>1 DEF Book
    <3> HIDE DEF r
    <3> QED
      BY <3>1 DEF Resize
  <2> HIDE DEF r, t
  <2> QED
    BY <2>0, <2>1, <2>2 DEF Order
<1>3. ASSUME NEW k \in Queue
      PROVE  t[k] = r[k]
  <2>1. DOMAIN t[k] = DOMAIN r[k] /\ Len(t[k]) = Len(r[k])
    BY <1>1, ResizeEffect
  <2>2. /\ t[k] \in Seq(Order) /\ r[k] \in Seq(Order)
        /\ DOMAIN r[k] = 1 .. Len(r[k])
    BY <1>1, QueuesAreSequences
  <2> HIDE DEF t, r
  <2> QED
    BY <1>2, <2>1, <2>2, SeqEqual
<1> HIDE DEF t, r
<1>4. t = r
  BY <1>1, <1>3 DEF Book
<1> QED
  BY <1>4 DEF t, r

\* One operation and the same again under DWELLIR_TOLERANT.
LEMMA AgainIsHarmless ==
  ASSUME NEW b, SoundBook(b), NEW op \in BookOp,
         NEW once, once = apply_op_with_policy(b, op, DWELLIR_TOLERANT),
         NEW twice, twice = apply_op_with_policy(once.book, op, DWELLIR_TOLERANT)
  PROVE  /\ twice.book = once.book
         /\ once.outcome # "Error" => twice.outcome # "Error"
<1>1. /\ DWELLIR_TOLERANT \in ReplayPolicy
      /\ DWELLIR_TOLERANT.duplicate_add = "Skip" /\ DWELLIR_TOLERANT.missing_order = "Skip"
      /\ DWELLIR_TOLERANT.non_decreasing_update = "TreatAsAmend"
  BY DEF DWELLIR_TOLERANT, ReplayPolicy
<1>2. SoundBook(once.book)
  BY <1>1, PolicySound
\* a book where the operation finds nothing to do, or something in its way
<1>3. ASSUME NEW c,
             \/ IsAdd(op) /\ op.order.id \in RestingIds(c)
             \/ ~IsAdd(op) /\ op.id \notin RestingIds(c),
             NEW step, step = apply_op_with_policy(c, op, DWELLIR_TOLERANT)
      PROVE  step.book = c /\ step.outcome = "Skipped"
  <2>1. \E reason, error : step = Tolerated(c, "Skip", reason, error)
    BY <1>1, <1>3, PolicyCases DEF Grows, IsAdd
  <2> QED
    BY <2>1 DEF Tolerated, Outcome
<1>4. CASE once.book = b
  BY <1>4
<1>5. CASE IsAdd(op) /\ once.book # b
  <2>1. op.order.id \notin RestingIds(b)
    BY <1>3, <1>5
  <2>2. once = Answered(apply_op(b, op), "Applied")
    BY <1>1, <1>5, <2>1, PolicyCases DEF IsAdd
  <2>3. once.book = apply_op(b, op).book
    BY <2>2 DEF Answered, Outcome
  <2>4. op.order \in Order /\ op.kind = "Add"
    BY <1>5 DEF BookOp, IsAdd
  <2>5. apply_op(b, op) = add(b, op.order)
    BY <2>4, AddAnswer
  <2>6. op.order.qty # 0 /\ once.book = AppendOrder(b, op.order)
    BY <1>5, <2>1, <2>3, <2>5 DEF add, Done, Fail
  <2>7. op.order.qty > 0
    BY <2>4, <2>6, QtyLimitAssumption DEF Order, Qty
  <2>8. op.order.id \in RestingIds(once.book)
    BY <2>1, <2>4, <2>6, <2>7, AppendSound
  <2> QED
    BY <1>2, <1>3, <1>5, <2>8
<1>6. CASE ~IsAdd(op) /\ op.id \notin RestingIds(once.book)
  BY <1>2, <1>3, <1>6
<1>7. CASE ~IsAdd(op) /\ op.id \in RestingIds(once.book) /\ once.book # b
  <2>1. op.id \in RestingIds(b)
    BY <1>3, <1>7
  <2>2. op.kind \in {"UpdateSize", "AmendSize"} /\ op.new_qty \in Qty /\ op.new_qty # 0
        /\ once.book = Resize(b, op.id, op.new_qty)
    <3>1. ASSUME NEW call, call = remove(b, op.id), once.book = call.book
          PROVE  FALSE
      <4>1. call.book = DropOrder(b, op.id)
        BY <2>1, <3>1 DEF remove, Done
      <4> QED
        BY <1>7, <2>1, <3>1, <4>1, DropSound
    <3>2. ASSUME NEW call, call = amend_size(b, op.id, op.new_qty), once.book = call.book
          PROVE  op.new_qty # 0 /\ once.book = Resize(b, op.id, op.new_qty)
      <4>1. call = amend_size_with_policy(b, op.id, op.new_qty, "Preserve")
        BY <3>2 DEF amend_size
      <4>2. ~(op.new_qty = 0 /\ call = remove(b, op.id))
        BY <3>1, <3>2
      <4> QED
        BY <2>1, <3>2, <4>1, <4>2, AmendCases
    <3>3. CASE op.kind = "Remove"
      <4>1. once = Answered(remove(b, op.id), "Applied")
        BY ZenonT(60), <1>1, <1>7, <2>1, <3>3, PolicyCases DEF IsAdd, Grows, apply_op
      <4> QED
        BY <3>1, <4>1 DEF Answered, Outcome
    <3>4. CASE op.kind = "AmendSize"
      <4>1. once = Answered(amend_size(b, op.id, op.new_qty), "Applied")
        BY SMTT(30), <1>1, <1>7, <2>1, <3>4, PolicyCases DEF IsAdd, Grows, apply_op
      <4>2. op.new_qty \in Qty
        BY <3>4 DEF BookOp
      <4> QED
        BY <3>2, <3>4, <4>1, <4>2 DEF Answered, Outcome
    <3>5. CASE op.kind = "UpdateSize" /\ Grows(b, op)
      <4>1. once = Answered(amend_size(b, op.id, op.new_qty), "Coerced")
        BY <1>1, <1>7, <2>1, <3>5, PolicyCases DEF IsAdd
      <4>2. op.new_qty \in Qty
        BY <3>5 DEF BookOp
      <4> QED
        BY <3>2, <3>5, <4>1, <4>2 DEF Answered, Outcome
    <3>6. CASE op.kind = "UpdateSize" /\ ~Grows(b, op)
      <4>1. once = Answered(update_size(b, op.id, op.new_qty), "Applied")
        BY <1>1, <1>7, <2>1, <3>6, PolicyCases DEF IsAdd, apply_op
      <4>2. op.new_qty \in Qty
        BY <3>6 DEF BookOp
      <4>3. once.book = update_size(b, op.id, op.new_qty).book
        BY <4>1 DEF Answered, Outcome
      <4>4. ~(op.new_qty >= get(b, op.id).qty)
        BY <3>6 DEF Grows
      <4>5. op.new_qty # 0
        BY <2>1, <3>1, <4>3, <4>4 DEF update_size
      <4> QED
        BY <2>1, <3>6, <4>2, <4>3, <4>4, <4>5 DEF update_size, Done
    <3> QED
      BY <1>7, <3>3, <3>4, <3>5, <3>6, OpShapes DEF IsAdd
  <2> DEFINE r == Resize(b, op.id, op.new_qty)
  <2>3. op.new_qty > 0
    BY <2>2, QtyLimitAssumption DEF Qty
  <2>4. get(r, op.id).qty = op.new_qty /\ op.id \in RestingIds(r) /\ Resize(r, op.id, op.new_qty) = r
    <3>1. get(r, op.id).qty = op.new_qty
      BY <2>1, <2>2, <2>3, ResizeAhead
    <3>2. RestingIds(r) = RestingIds(b)
      BY <2>2, <2>3, ResizeSound
    <3> QED
      BY <2>1, <2>2, <3>1, <3>2, ResizeTwice DEF SoundBook
  <2>5. once.book = r
    BY <2>2
  <2> HIDE DEF r
  <2>6. ASSUME NEW call, call = amend_size(r, op.id, op.new_qty)
        PROVE  call.book = r /\ call.result = "Ok"
    <3>1. call = amend_size_with_policy(r, op.id, op.new_qty, "Preserve")
      BY <2>6 DEF amend_size
    <3> QED
      BY SMTT(30), <2>2, <2>4, <3>1, AmendCases
  <2>7. \E kind \in {"Applied", "Coerced"} :
          twice = Answered(amend_size(r, op.id, op.new_qty), kind)
    <3>1. CASE op.kind = "AmendSize"
      BY <1>1, <2>4, <2>5, <3>1, PolicyCases DEF IsAdd, Grows, apply_op
    <3>2. CASE op.kind = "UpdateSize"
      <4>1. Grows(r, op)
        BY <2>2, <2>4, <3>2, QtyLimitAssumption DEF Grows, Qty
      <4> QED
        BY <1>1, <2>4, <2>5, <3>2, <4>1, PolicyCases DEF IsAdd
    <3> QED
      BY <2>2, <3>1, <3>2
  <2>8. twice.book = r /\ twice.outcome \in {"Applied", "Coerced"}
    BY <2>6, <2>7 DEF Answered, Outcome
  <2> QED
    BY <2>5, <2>8
<1> QED
  BY <1>4, <1>5, <1>6, <1>7

(* An operation delivered twice in a row changes nothing the second time and *)
(* does not stop the replay (book.rs:226-313, DWELLIR_TOLERANT).             *)
THEOREM RedeliveryChangesNothing == Spec => []RedeliveryIsHarmless
<1>1. BookIsSound => RedeliveryIsHarmless
  BY AgainIsHarmless DEF RedeliveryIsHarmless, BookIsSound
<1> QED
  BY <1>1, ReplayedBooksAreSound, PTL
=============================================================================
