------------------------------ MODULE LossyFeed ------------------------------
(***************************************************************************)
(* Replaying an imperfect feed.  `full` is the book of a replay that       *)
(* misses nothing and is strict (apply_op); `replica` is the book of a     *)
(* consumer that follows the same feed under DWELLIR_TOLERANT              *)
(* (src/src/types.rs:310) while operations are lost on the way or arrive   *)
(* again long after, until a snapshot replaces the replica's book.         *)
(* `tainted` is the ids of the operations that went wrong since then.      *)
(***************************************************************************)
EXTENDS BookFeeds

VARIABLES
    full,      \* the book of the complete feed
    replica,   \* the book of the feed as received
    tainted,   \* ids whose operations were lost or repeated since the snapshot
    subject,   \* id of the operation the replica applied last, if any
    outcome    \* what the replica answered to it

vars == <<full, replica, tainted, subject, outcome>>

CONSTANTS
    NoId,         \* no operation applied since the snapshot
    MaxDamaged    \* bound: ids damaged between two snapshots

Init ==
    /\ full = EmptyBook /\ replica = EmptyBook
    /\ tainted = {} /\ subject = NoId /\ outcome = "Applied"

\* One more id is damaged: at most MaxDamaged between two snapshots.
Damages(id) ==
    /\ tainted' = tainted \cup {id}
    /\ Cardinality(tainted') <= MaxDamaged

\* The replica applies an operation under the tolerant policy.
Follow(op) ==
    LET step == apply_op_with_policy(replica, op, DWELLIR_TOLERANT)
    IN  replica' = step.book /\ outcome' = step.outcome /\ subject' = IdOf(op)

\* The feed carries operations that its complete replay accepts.
Sends(op) ==
    /\ apply_op(full, op).result = "Ok"
    /\ full' = apply_op(full, op).book

Arrives(op) == Sends(op) /\ Follow(op) /\ UNCHANGED tainted
Lost(op) ==
    /\ Sends(op)
    /\ Damages(IdOf(op))
    /\ UNCHANGED <<replica, subject, outcome>>

\* An operation comes again, however long after it was sent: any operation may.
ArrivesAgain(op) ==
    /\ Follow(op)
    /\ Damages(IdOf(op))
    /\ UNCHANGED full

\* A snapshot lists the resting orders, each level in time priority.
Resync ==
    /\ replica' = apply_snapshot(replica, book_order(full)).book
    /\ tainted' = {} /\ subject' = NoId /\ outcome' = "Applied"
    /\ UNCHANGED full

Next ==
    \/ \E op \in BookOp : Arrives(op)
    \/ \E op \in BookOp : Lost(op)
    \/ \E op \in BookOp : ArrivesAgain(op)
    \/ Resync

Spec == Init /\ [][Next]_vars

-----------------------------------------------------------------------------
(* Damage stays with the orders it happened to: an order whose operations    *)
(* all arrived once rests in the replica exactly if it rests in the complete *)
(* book, as the same order and behind the same ones of its kind              *)
(* (book.rs:226).                                                            *)
DamageIsConfined ==
    \A id \in OrderId \ tainted :
        /\ id \in RestingIds(replica) <=> id \in RestingIds(full)
        /\ id \in RestingIds(full) =>
             /\ get(replica, id) = get(full, id)
             /\ Ahead(replica, id) \ tainted = Ahead(full, id) \ tainted

(* Tolerance is not used on a clean feed: an operation is skipped or coerced *)
(* only for an id that lost or repeated an operation since the last snapshot *)
(* (ReplayPolicy::DWELLIR_TOLERANT, types.rs:310-315).                       *)
OnlyTheDamagedAreTolerated ==
    subject # NoId /\ subject \notin tainted => outcome = "Applied"
=============================================================================
