------------------------------ MODULE Captures ------------------------------
(***************************************************************************)
(* A capture file and what becomes of it: load_capture (src/src/           *)
(* dwellir.rs:517-603) decodes the whole file, and the replay example and  *)
(* the benchmark build a book from the result (src/examples/               *)
(* replay_capture.rs, src/benches/replay.rs).  A line is a snapshot, a     *)
(* list of diffs with the statuses of the same message, or one that the    *)
(* decoder skips: the header, an acknowledgement, a message that was no    *)
(* JSON, which the script wraps.                                           *)
(***************************************************************************)
EXTENDS DwellirDecode

NoStats ==
    [lines |-> 0, updates_messages |-> 0, total_ops |-> 0, adds |-> 0, removes |-> 0,
     size_updates |-> 0, size_amends |-> 0, unresolved_new |-> 0,
     collapsed_complete_fills |-> 0, dropped_duplicate_removes |-> 0]
EmptyCapture == [snapshot |-> <<>>, updates |-> <<>>, stats |-> NoStats]

CountOf(batch, kind) ==
    Cardinality({i \in DOMAIN batch.ops : batch.ops[i].op.kind = kind})

\* A mutant of accumulate_stats: a collapsed fill is not counted as a removal.
MutAccumulate(stats, batch) ==
    [lines |-> stats.lines,
     updates_messages |-> stats.updates_messages + 1,
     total_ops |-> stats.total_ops + Len(batch.ops),
     adds |-> stats.adds + CountOf(batch, "Add"),
     removes |-> stats.removes + CountOf(batch, "Remove") - batch.collapsed_complete_fills,
     size_updates |-> stats.size_updates + CountOf(batch, "UpdateSize"),
     size_amends |-> stats.size_amends + CountOf(batch, "AmendSize"),
     unresolved_new |-> stats.unresolved_new + batch.unresolved_new,
     collapsed_complete_fills |-> stats.collapsed_complete_fills + batch.collapsed_complete_fills,
     dropped_duplicate_removes |-> stats.dropped_duplicate_removes + batch.dropped_duplicate_removes]

accumulate_stats(stats, batch) ==
    [lines |-> stats.lines,
     updates_messages |-> stats.updates_messages + 1,
     total_ops |-> stats.total_ops + Len(batch.ops),
     adds |-> stats.adds + CountOf(batch, "Add"),
     removes |-> stats.removes + CountOf(batch, "Remove"),
     size_updates |-> stats.size_updates + CountOf(batch, "UpdateSize"),
     size_amends |-> stats.size_amends + CountOf(batch, "AmendSize"),
     unresolved_new |-> stats.unresolved_new + batch.unresolved_new,
     collapsed_complete_fills |-> stats.collapsed_complete_fills + batch.collapsed_complete_fills,
     dropped_duplicate_removes |-> stats.dropped_duplicate_removes + batch.dropped_duplicate_removes]

\* Mutants of AddSnapshot: the first snapshot is the one kept; the last one is.
MutFirstSnapshot(capture, orders) ==
    [capture EXCEPT !.snapshot = IF @ = <<>> THEN decode_snapshot(orders) ELSE @]
MutLastSnapshot(capture, orders) ==
    [capture EXCEPT !.snapshot = decode_snapshot(orders)]

\* Every snapshot of the file goes to the end of one list.
AddSnapshot(capture, orders) == [capture EXCEPT !.snapshot = @ \o decode_snapshot(orders)]

AddUpdates(capture, batch) ==
    [capture EXCEPT !.updates = Append(@, batch.ops),
                    !.stats = accumulate_stats(@, batch)]

AddLine(capture, line) ==
    LET counted == [capture EXCEPT !.stats.lines = @ + 1]
    IN  CASE line.kind = "Skip"     -> counted
          [] line.kind = "Snapshot" -> AddSnapshot(counted, line.orders)
          [] line.kind = "Updates"  ->
               AddUpdates(counted, decode_updates_with_meta(line.diffs, line.statuses))

load_capture_with_meta(file) ==
    LET upto[n \in 0 .. Len(file)] ==
            IF n = 0 THEN EmptyCapture ELSE AddLine(upto[n - 1], file[n])
    IN  upto[Len(file)]

\* The same without the causes.
load_capture(file) ==
    LET capture == load_capture_with_meta(file)
    IN  [capture EXCEPT !.updates =
            [m \in DOMAIN @ |-> [i \in DOMAIN @[m] |-> @[m][i].op]]]

-----------------------------------------------------------------------------
(* The replay: all of the snapshot first, which must be accepted, then every *)
(* operation under a policy, none of which stops it.                         *)

NoOutcomes == [kind \in {"Applied", "Skipped", "Coerced", "Error"} |-> 0]

ReplayOp(run, op, policy) ==
    LET step == apply_op_with_policy(run.book, op, policy)
    IN  [run EXCEPT !.book = step.book, !.outcomes[step.outcome] = @ + 1]

\* The operations of a message, and the messages of a capture.
ReplayOps(run, ops, policy) ==
    LET upto[n \in 0 .. Len(ops)] ==
            IF n = 0 THEN run ELSE ReplayOp(upto[n - 1], ops[n], policy)
    IN  upto[Len(ops)]
ReplayUpdates(run, updates, policy) ==
    LET upto[n \in 0 .. Len(updates)] ==
            IF n = 0 THEN run ELSE ReplayOps(upto[n - 1], updates[n], policy)
    IN  upto[Len(updates)]

\* A snapshot that is refused ends the replay: "expect".
replay_capture(capture, policy) ==
    LET start == apply_snapshot(EmptyBook, capture.snapshot)
        run   == [result |-> start.result, book |-> start.book, outcomes |-> NoOutcomes]
    IN  IF start.result # "Ok" THEN run
        ELSE ReplayUpdates(run, capture.updates, policy)

\* The benchmark's helpers: strict operations, whose errors are dropped.
apply_ops(book, ops) ==
    LET upto[n \in 0 .. Len(ops)] ==
            IF n = 0 THEN book ELSE apply_op(upto[n - 1], ops[n]).book
    IN  upto[Len(ops)]
warm_book(snapshot, updates) ==
    LET upto[n \in 0 .. Len(updates)] ==
            IF n = 0 THEN apply_snapshot(EmptyBook, snapshot).book
                     ELSE apply_ops(upto[n - 1], updates[n])
    IN  upto[Len(updates)]
=============================================================================
