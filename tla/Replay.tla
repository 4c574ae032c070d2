------------------------------- MODULE Replay -------------------------------
(***************************************************************************)
(* A book driven by OrderBook::apply_op_with_policy (src/src/book.rs:226): *)
(* any operation, under any policy, at any time.                           *)
(***************************************************************************)
EXTENDS BookFeeds

VARIABLES
    book,      \* the resting orders
    outcome    \* what the last operation answered

vars == <<book, outcome>>

Init == book = EmptyBook /\ outcome = "Applied"

Apply(op, policy) ==
    LET step == apply_op_with_policy(book, op, policy)
    IN  book' = step.book /\ outcome' = step.outcome

Next == \E op \in BookOp, policy \in ReplayPolicy : Apply(op, policy)

Spec == Init /\ [][Next]_vars

-----------------------------------------------------------------------------
(* An operation delivered twice in a row changes nothing the second time and *)
(* does not stop the replay (book.rs:226-313 under DWELLIR_TOLERANT).        *)
RedeliveryIsHarmless ==
    \A op \in BookOp :
        LET once  == apply_op_with_policy(book, op, DWELLIR_TOLERANT)
            twice == apply_op_with_policy(once.book, op, DWELLIR_TOLERANT)
        IN  /\ twice.book = once.book
            /\ once.outcome # "Error" => twice.outcome # "Error"

(* A tolerant replay has an error at one thing only: a new order without     *)
(* quantity, for which no policy has a setting (types.rs:277-281).           *)
OnlyEmptyOrdersStopReplay ==
    \A op \in BookOp :
        apply_op_with_policy(book, op, DWELLIR_TOLERANT).outcome = "Error" =>
            IsAdd(op) /\ op.order.qty = 0

(* Every policy agrees with apply_op on the operations that apply_op         *)
(* accepts, and whatever is not applied or coerced leaves the book alone.    *)
PoliciesOnlyTolerate ==
    \A op \in BookOp, policy \in ReplayPolicy :
        LET strict == apply_op(book, op)
            step   == apply_op_with_policy(book, op, policy)
        IN  /\ strict.result = "Ok" => step = Outcome(strict.book, "Applied", "Ok")
            /\ step.outcome \in {"Skipped", "Error"} => step.book = book

(* "Strict policy mirrors apply_op" (book.rs:222): the same book and the     *)
(* same error, for every operation.                                          *)
StrictMirrorsApplyOp ==
    \A op \in BookOp :
        LET strict == apply_op(book, op)
            step   == apply_op_with_policy(book, op, STRICT)
        IN  step.book = strict.book /\ step.why = strict.result
=============================================================================
