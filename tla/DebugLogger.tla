----------------------------- MODULE DebugLogger -----------------------------
(***************************************************************************)
(* The debug logger (src/examples/dwellir_debug_log_sp500.rs:64-325): the  *)
(* book behind a feed that may send anything, the errors it counts up to   *)
(* its limit, and the log, which is flushed after every record so that "it *)
(* stays useful even if the process is interrupted" (lines 12-13).  Only   *)
(* the records that say something about the book are kept apart, and of    *)
(* the log only what its reader knows.  Messages that say nothing (pings,  *)
(* pongs, frames, texts that decode to Skip) change nothing.               *)
(***************************************************************************)
EXTENDS BookFeeds
LOCAL INSTANCE SequencesExt

CONSTANTS
    ErrorLimit,     \* ERROR_LIMIT
    UpdatesToLog,   \* updates_to_log
    MaxList         \* bound: orders of a snapshot, operations of a message

ASSUME ErrorLimitAssumption == ErrorLimit \in Nat \ {0}
ASSUME UpdatesToLogAssumption == UpdatesToLog \in Nat
ASSUME MaxListAssumption == MaxList \in Nat

VARIABLES
    phase,             \* "Reading", "Applying", "Stopped" or "Dead"
    book,              \* the program's book
    todo,              \* operations of the message not applied yet
    errors,            \* errors so far
    update_messages,   \* update messages so far, those past UpdatesToLog taken for one
    unwritten,         \* the record in hand: none or one
    reader             \* what the log shows its reader: the book, if it is known

loggerVars == <<phase, book, todo, errors, update_messages, unwritten, reader>>

-----------------------------------------------------------------------------
(* The log's reader, who starts from the empty book, takes every full book   *)
(* the log shows and applies every operation it says was applied.            *)
Knows(shown) == [known |-> TRUE, book |-> shown]
Unknown == [known |-> FALSE, book |-> EmptyBook]

Follow(knowledge, record) ==
    CASE record.event \in {"full_snapshot", "op_apply_error"} -> Knows(record.book)
      [] record.event = "snapshot_apply_error" -> Unknown
      [] record.event = "applied_book_diff" ->
           IF knowledge.known THEN Knows(apply_op(knowledge.book, record.op).book)
                              ELSE knowledge

-----------------------------------------------------------------------------
LoggerInit ==
    /\ phase = "Reading" /\ book = EmptyBook /\ todo = 0
    /\ errors = 0 /\ update_messages = 0
    /\ unwritten = <<>> /\ reader = Knows(EmptyBook)

\* The limit is looked at on every way back to the loop's head.
Continue(count) == phase' = IF count >= ErrorLimit THEN "Stopped" ELSE "Reading"

At(place) == phase = place /\ unwritten = <<>>

\* The socket fails: an error, and the end of the loop.
ReadFails ==
    /\ At("Reading")
    /\ errors' = errors + 1 /\ phase' = "Stopped"
    /\ UNCHANGED <<book, todo, update_messages, unwritten, reader>>

Closes ==
    /\ At("Reading")
    /\ phase' = "Stopped"
    /\ UNCHANGED <<book, todo, errors, update_messages, unwritten, reader>>

\* A frame that is not text, or a text that does not decode.
ReadsGarbage ==
    /\ At("Reading")
    /\ errors' = errors + 1 /\ Continue(errors + 1)
    /\ UNCHANGED <<book, todo, update_messages, unwritten, reader>>

\* A mutant of ReadsSnapshot: a failed snapshot goes back without a look at the limit.
MutReadsSnapshot(orders) ==
    LET step == apply_snapshot(book, orders)
    IN  /\ At("Reading")
        /\ book' = step.book
        /\ IF step.result = "Ok"
           THEN /\ unwritten' = <<[event |-> "full_snapshot", book |-> step.book]>>
                /\ UNCHANGED errors
           ELSE /\ unwritten' = <<[event |-> "snapshot_apply_error"]>>
                /\ errors' = errors + 1
        /\ UNCHANGED <<phase, todo, update_messages, reader>>

\* A snapshot that fails leaves its first orders in the book, and the log has
\* the error without the book.
ReadsSnapshot(orders) ==
    LET step == apply_snapshot(book, orders)
    IN  /\ At("Reading")
        /\ book' = step.book
        /\ IF step.result = "Ok"
           THEN /\ unwritten' = <<[event |-> "full_snapshot", book |-> step.book]>>
                /\ UNCHANGED errors
           ELSE /\ unwritten' = <<[event |-> "snapshot_apply_error"]>>
                /\ errors' = errors + 1
        /\ Continue(errors')
        /\ UNCHANGED <<todo, update_messages, reader>>

\* An update message.  Its operations are chosen when they are applied.
ReadsUpdate(ops) ==
    /\ At("Reading")
    /\ phase' = "Applying" /\ todo' = ops
    /\ update_messages' = IF update_messages > UpdatesToLog THEN update_messages
                                                            ELSE update_messages + 1
    /\ UNCHANGED <<book, errors, unwritten, reader>>

should_log_update == update_messages <= UpdatesToLog

\* Mutants of Applies: the limit is left to the end of the message; an applied
\* operation is logged only while updates are.
MutAppliesOn(op) ==
    LET step == apply_op(book, op)
    IN  /\ At("Applying") /\ todo > 0
        /\ book' = step.book
        /\ todo' = todo - 1
        /\ IF step.result = "Ok"
           THEN unwritten' = <<[event |-> "applied_book_diff", op |-> op]>> /\ UNCHANGED errors
           ELSE /\ unwritten' = <<[event |-> "op_apply_error", book |-> step.book]>>
                /\ errors' = errors + 1
        /\ UNCHANGED <<phase, update_messages, reader>>
MutAppliesQuietly(op) ==
    LET step == apply_op(book, op)
    IN  /\ At("Applying") /\ todo > 0
        /\ book' = step.book
        /\ IF step.result = "Ok"
           THEN /\ unwritten' = IF should_log_update
                                THEN <<[event |-> "applied_book_diff", op |-> op]>> ELSE <<>>
                /\ todo' = todo - 1 /\ UNCHANGED errors
           ELSE /\ unwritten' = <<[event |-> "op_apply_error", book |-> step.book]>>
                /\ errors' = errors + 1
                /\ todo' = IF errors + 1 >= ErrorLimit THEN 0 ELSE todo - 1
        /\ UNCHANGED <<phase, update_messages, reader>>

\* The next operation of the message; at the limit the others are dropped.
Applies(op) ==
    LET step == apply_op(book, op)
    IN  /\ At("Applying") /\ todo > 0
        /\ book' = step.book
        /\ IF step.result = "Ok"
           THEN /\ unwritten' = <<[event |-> "applied_book_diff", op |-> op]>>
                /\ todo' = todo - 1 /\ UNCHANGED errors
           ELSE /\ unwritten' = <<[event |-> "op_apply_error", book |-> step.book]>>
                /\ errors' = errors + 1
                /\ todo' = IF errors + 1 >= ErrorLimit THEN 0 ELSE todo - 1
        /\ UNCHANGED <<phase, update_messages, reader>>

\* The message is done: the book is shown after each of the first UpdatesToLog.
EndsUpdate ==
    /\ At("Applying") /\ todo = 0
    /\ unwritten' = IF should_log_update
                    THEN <<[event |-> "full_snapshot", book |-> book]>> ELSE <<>>
    /\ Continue(errors)
    /\ UNCHANGED <<book, todo, errors, update_messages, reader>>

\* PrettyJsonLog::write: the record is in the file when it returns.
Writes ==
    /\ phase # "Dead" /\ unwritten # <<>>
    /\ reader' = Follow(reader, unwritten[1])
    /\ unwritten' = <<>>
    /\ UNCHANGED <<phase, book, todo, errors, update_messages>>

\* A write fails, which ends the program, or somebody interrupts it.
Dies ==
    /\ phase # "Dead"
    /\ phase' = "Dead"
    /\ UNCHANGED <<book, todo, errors, update_messages, unwritten, reader>>

Works == (\E op \in BookOp : Applies(op)) \/ EndsUpdate \/ Writes

LoggerNext ==
    \/ ReadFails
    \/ Closes
    \/ ReadsGarbage
    \/ \E orders \in BoundedSeq(Order, MaxList) : ReadsSnapshot(orders)
    \/ \E ops \in 0 .. MaxList : ReadsUpdate(ops)
    \/ Works
    \/ Dies

\* The loop goes on until it waits for a message; none has to come.
LoggerSpec == LoggerInit /\ [][LoggerNext]_loggerVars /\ WF_loggerVars(Works)

-----------------------------------------------------------------------------
(* "It stops after 10 accumulated errors" (README.md:217-218): the limit is  *)
(* never passed, not by a message with more errors left in it and not by     *)
(* errors of different kinds (dwellir_debug_log_sp500.rs:82-300).            *)
ErrorsStayWithinTheLimit ==
    /\ errors <= ErrorLimit
    /\ phase = "Reading" => errors < ErrorLimit

(* And it does stop there: after the last error allowed no further message   *)
(* is read, the rest of the one at hand is dropped and the loop ends         *)
(* (dwellir_debug_log_sp500.rs:264-266, 298-300).                            *)
TheLimitStopsIt == errors = ErrorLimit ~> phase \in {"Stopped", "Dead"}

(* The log "stays useful even if the process is interrupted"                 *)
(* (dwellir_debug_log_sp500.rs:12-13): whenever the program dies, what the   *)
(* log shows is its book, but for the one record in hand; only from a failed *)
(* snapshot to the next full book does it show nothing                       *)
(* (dwellir_debug_log_sp500.rs:148-174, 205-266, 521-526).                   *)
Caught == IF unwritten = <<>> THEN reader ELSE Follow(reader, unwritten[1])
LogShowsTheBook == Caught.known => Caught.book = book
=============================================================================
