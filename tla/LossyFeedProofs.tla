--------------------------- MODULE LossyFeedProofs ---------------------------
(***************************************************************************)
(* Damage stays with the orders it happened to, and a snapshot repairs the *)
(* replica: proved for any ids, prices and quantities and any number of    *)
(* damaged operations.  Every operation, lost, repeated or applied under   *)
(* a policy, touches the order it names and no other (OthersStay); what    *)
(* the complete book accepts for an undamaged id the replica accepts too   *)
(* (AgreeOnAccepted); and the list of a book's orders, added to an empty   *)
(* book, makes the book again (BookIsListed, Rebuilt).                     *)
(***************************************************************************)
EXTENDS LossyFeed, BookQueuesProofs

\* Both books hold every id once, in its own queue, and only finitely many ids,
\* so that the complete book can be listed; outside the damage they agree.
LossyInv ==
    /\ SoundBook(full) /\ SoundBook(replica)
    /\ IsFiniteSet(RestingIds(full))
    /\ Agrees(replica, full, tainted)
    /\ OnlyTheDamagedAreTolerated

\* The initial books are empty.
LEMMA LossyInit == Init => LossyInv
<1> SUFFICES ASSUME Init PROVE LossyInv
  OBVIOUS
<1>1. SoundBook(full) /\ SoundBook(replica) /\ RestingIds(full) = {}
  BY EmptySound DEF Init
<1>2. IsFiniteSet(RestingIds(full))  BY <1>1, FS_EmptySet
<1>3. Agrees(replica, full, tainted)  BY DEF Init, Agrees
<1>4. OnlyTheDamagedAreTolerated  BY DEF Init, OnlyTheDamagedAreTolerated
<1> QED  BY <1>1, <1>2, <1>3, <1>4 DEF LossyInv

\* The complete feed: its book stays sound and finite, and one order changes.
LEMMA SendsTouchesOne ==
  ASSUME LossyInv, NEW op \in BookOp, Sends(op)
  PROVE  /\ SoundBook(full') /\ IsFiniteSet(RestingIds(full'))
         /\ OthersStay(full, full', IdOf(op))
<1>1. PICK c : c = apply_op(full, op).book  OBVIOUS
<1>2. SoundBook(c) /\ OthersStay(full, c, IdOf(op))
  BY <1>1, ApplyTouchesOne DEF LossyInv
<1>3. IsFiniteSet(RestingIds(c))  BY <1>2, StaysFinite DEF LossyInv
<1>4. full' = c  BY <1>1 DEF Sends
<1> QED  BY <1>2, <1>3, <1>4

\* The tolerant replica: one order of its book changes.
LEMMA FollowTouchesOne ==
  ASSUME LossyInv, NEW op \in BookOp, Follow(op)
  PROVE  SoundBook(replica') /\ OthersStay(replica, replica', IdOf(op))
<1>1. PICK c : c = apply_op_with_policy(replica, op, DWELLIR_TOLERANT).book  OBVIOUS
<1>2. DWELLIR_TOLERANT \in ReplayPolicy  BY DEF DWELLIR_TOLERANT, ReplayPolicy
<1>3. SoundBook(c) /\ OthersStay(replica, c, IdOf(op))
  BY <1>1, <1>2, PolicyTouchesOne DEF LossyInv
<1>4. replica' = c  BY <1>1 DEF Follow
<1> QED  BY <1>3, <1>4

\* A book whose orders all stay as they are.
LEMMA AllStay == \A b, x : OthersStay(b, b, x)
  BY DEF OthersStay

\* An operation that arrives in its turn.
LEMMA ArrivesKeepsInv ==
  ASSUME LossyInv, NEW op \in BookOp, Arrives(op)
  PROVE  LossyInv'
<1>1. Sends(op) /\ Follow(op) /\ tainted' = tainted  BY DEF Arrives
<1>2. /\ SoundBook(full') /\ IsFiniteSet(RestingIds(full'))
      /\ OthersStay(full, full', IdOf(op))
  BY <1>1, SendsTouchesOne
<1>3. SoundBook(replica') /\ OthersStay(replica, replica', IdOf(op))
  BY <1>1, FollowTouchesOne
<1>4. CASE IdOf(op) \in tainted
  <2>1. Agrees(replica', full', tainted')
    BY <1>1, <1>2, <1>3, <1>4, AgreeOutside DEF LossyInv
  <2>2. OnlyTheDamagedAreTolerated'
    BY <1>1, <1>4 DEF OnlyTheDamagedAreTolerated, Follow
  <2> QED  BY <1>2, <1>3, <2>1, <2>2 DEF LossyInv
<1>5. CASE IdOf(op) \notin tainted
  <2>1. /\ apply_op(replica, op).result = "Ok"
        /\ Agrees(apply_op(replica, op).book, apply_op(full, op).book, tainted)
    BY <1>1, <1>5, AgreeOnAccepted DEF LossyInv, Sends
  <2>2. apply_op_with_policy(replica, op, DWELLIR_TOLERANT)
          = Outcome(apply_op(replica, op).book, "Applied", "Ok")
    <3>1. DWELLIR_TOLERANT \in ReplayPolicy  BY DEF DWELLIR_TOLERANT, ReplayPolicy
    <3> QED  BY <2>1, <3>1, PolicyOnlyTolerates
  <2>3. replica' = apply_op(replica, op).book /\ outcome' = "Applied"
    BY <1>1, <2>2 DEF Follow, Outcome
  <2>4. Agrees(replica', full', tainted')  BY <1>1, <2>1, <2>3 DEF Sends
  <2>5. OnlyTheDamagedAreTolerated'  BY <2>3 DEF OnlyTheDamagedAreTolerated
  <2> QED  BY <1>2, <1>3, <2>4, <2>5 DEF LossyInv
<1> QED  BY <1>4, <1>5

\* An operation that is lost: its id is damaged, the replica does not move.
LEMMA LostKeepsInv ==
  ASSUME LossyInv, NEW op \in BookOp, Lost(op)
  PROVE  LossyInv'
<1>1. /\ Sends(op) /\ tainted' = tainted \cup {IdOf(op)}
      /\ replica' = replica /\ subject' = subject /\ outcome' = outcome
  BY DEF Lost, Damages
<1>2. /\ SoundBook(full') /\ IsFiniteSet(RestingIds(full'))
      /\ OthersStay(full, full', IdOf(op))
  BY <1>1, SendsTouchesOne
<1>3. OthersStay(replica, replica', IdOf(op))  BY <1>1, AllStay
<1>4. Agrees(replica', full', tainted')
  BY <1>1, <1>2, <1>3, AgreeOutside DEF LossyInv
<1>5. OnlyTheDamagedAreTolerated'
  BY <1>1 DEF LossyInv, OnlyTheDamagedAreTolerated
<1> QED  BY <1>1, <1>2, <1>4, <1>5 DEF LossyInv

\* An operation that comes again: its id is damaged, the complete feed is not.
LEMMA ArrivesAgainKeepsInv ==
  ASSUME LossyInv, NEW op \in BookOp, ArrivesAgain(op)
  PROVE  LossyInv'
<1>1. Follow(op) /\ tainted' = tainted \cup {IdOf(op)} /\ full' = full
  BY DEF ArrivesAgain, Damages
<1>2. SoundBook(replica') /\ OthersStay(replica, replica', IdOf(op))
  BY <1>1, FollowTouchesOne
<1>3. OthersStay(full, full', IdOf(op))  BY <1>1, AllStay
<1>4. Agrees(replica', full', tainted')
  BY <1>1, <1>2, <1>3, AgreeOutside DEF LossyInv
<1>5. OnlyTheDamagedAreTolerated'
  BY <1>1 DEF OnlyTheDamagedAreTolerated, Follow
<1> QED  BY <1>1, <1>2, <1>4, <1>5 DEF LossyInv

\* A snapshot of the complete book replaces the replica's (book.rs:116-208).
LEMMA ResyncRepairs ==
  ASSUME LossyInv, Resync
  PROVE  SoundBook(replica') /\ SameOrders(replica', full')
<1>1. PICK orders : orders = book_order(full)  OBVIOUS
<1>2. Listing(orders, full, Queue)  BY <1>1, BookIsListed DEF LossyInv
<1>3. PICK call : call = apply_snapshot(replica, orders)  OBVIOUS
<1>4. call = AddAll(EmptyBook, orders)
  <2>1. call = AddAll(EmptyBook, orders \o <<>>)
    BY <1>3 DEF apply_snapshot, apply_snapshot_with_policy, Replaced
  <2>2. orders \in Seq(Order)  BY <1>2 DEF Listing
  <2> QED  BY <2>1, <2>2, ConcatEmptySeq
<1>5. SoundBook(call.book) /\ SameOrders(call.book, full)
  BY <1>2, <1>4, Rebuilt DEF LossyInv
<1>6. replica' = call.book /\ full' = full  BY <1>1, <1>3 DEF Resync
<1> QED  BY <1>5, <1>6

\* After a snapshot nothing is damaged.
LEMMA ResyncKeepsInv ==
  ASSUME LossyInv, Resync
  PROVE  LossyInv'
<1>1. SoundBook(replica') /\ SameOrders(replica', full')  BY ResyncRepairs
<1>2. full' = full /\ tainted' = {} /\ subject' = NoId  BY DEF Resync
<1>3. Agrees(replica', full', tainted')  BY <1>1, <1>2 DEF Agrees, SameOrders
<1>4. OnlyTheDamagedAreTolerated'  BY <1>2 DEF OnlyTheDamagedAreTolerated
<1> QED  BY <1>1, <1>2, <1>3, <1>4 DEF LossyInv

\* The invariant holds of every behaviour: from empty books, through every
\* operation that arrives, is lost or comes again, and every snapshot.
THEOREM LossyInvHolds == Spec => []LossyInv
<1>1. LossyInv /\ [Next]_vars => LossyInv'
  <2> SUFFICES ASSUME LossyInv, [Next]_vars PROVE LossyInv'
    OBVIOUS
  <2>1. CASE \E op \in BookOp : Arrives(op)  BY <2>1, ArrivesKeepsInv
  <2>2. CASE \E op \in BookOp : Lost(op)  BY <2>2, LostKeepsInv
  <2>3. CASE \E op \in BookOp : ArrivesAgain(op)  BY <2>3, ArrivesAgainKeepsInv
  <2>4. CASE Resync  BY <2>4, ResyncKeepsInv
  <2>5. CASE UNCHANGED vars
    BY <2>5 DEF vars, LossyInv, OnlyTheDamagedAreTolerated
  <2> QED  BY <2>1, <2>2, <2>3, <2>4, <2>5 DEF Next
<1> QED  BY LossyInit, <1>1, PTL DEF Spec

\* An order whose operations all arrived once rests in the replica exactly if
\* it rests in the complete book, as the same order and behind the same
\* undamaged ones (book.rs:226-313, 116-208).
THEOREM DamageStaysConfined == Spec => []DamageIsConfined
<1>1. LossyInv => DamageIsConfined  BY DEF LossyInv, Agrees, DamageIsConfined
<1> QED  BY <1>1, LossyInvHolds, PTL

\* Nothing is skipped or coerced for an id that lost and repeated nothing since
\* the last snapshot (types.rs:310-315).
THEOREM ToleranceIsForTheDamaged == Spec => []OnlyTheDamagedAreTolerated
<1>1. LossyInv => OnlyTheDamagedAreTolerated  BY DEF LossyInv
<1> QED  BY <1>1, LossyInvHolds, PTL

\* A snapshot ends every disagreement: after it the replica holds the orders of
\* the complete book, all of them, in the same order (book.rs:116-208).
THEOREM SnapshotRepairs ==
  Spec => [][Resync => SameOrders(replica', full')]_vars
<1>1. LossyInv /\ [Next]_vars => [Resync => SameOrders(replica', full')]_vars
  BY ResyncRepairs
<1> QED  BY <1>1, LossyInvHolds, PTL DEF Spec
=============================================================================
