---------------------------- MODULE CaptureFile ----------------------------
(***************************************************************************)
(* A capture as it grows: src/scripts/capture_l4.py:52-130 writes a header *)
(* and then every message of the feed, and whoever loads the file (Captures)*)
(* finds some prefix of it.  The script's doc has the snapshot first       *)
(* (capture_l4.py:8-9), which is the feed's to keep: the script does not   *)
(* wait for it and writes whatever comes, and every snapshot that comes.   *)
(* When it ends is CaptureScript's.                                        *)
(***************************************************************************)
EXTENDS Captures, DwellirVenue

CONSTANTS
    MaxLines,       \* bound: lines of the file
    MaxFileDiffs    \* bound: diffs in the file and in the block that follows
ASSUME FileBoundsAssumption == MaxLines \in Nat /\ MaxFileDiffs \in Nat

VARIABLE file       \* the lines written so far

fileVars == <<venue, used, diffs, statuses, file>>

DiffKind == {"new", "remove", "update", "modified", "unknown"}

\* The diffs of some kinds in the file.
InLine(line, kinds) ==
    IF line.kind # "Updates" THEN 0
    ELSE Cardinality({i \in DOMAIN line.diffs : line.diffs[i].kind \in kinds})
DiffsIn(lines, kinds) ==
    LET upto[n \in 0 .. Len(lines)] ==
            IF n = 0 THEN 0 ELSE upto[n - 1] + InLine(lines[n], kinds)
    IN  upto[Len(lines)]
DiffsOf(kinds) == DiffsIn(file, kinds)

Skipped == [kind |-> "Skip"]
FileInit == VenueInit /\ file = <<Skipped>>   \* the header

WritesLine(line) ==
    /\ Len(file) < MaxLines
    /\ file' = Append(file, line)

\* The venue trades before the subscription is there, and nobody is told.
Unheard ==
    /\ Len(file) = 1 /\ diffs # <<>>
    /\ diffs' = <<>> /\ statuses' = {}
    /\ UNCHANGED <<venue, used, file>>

\* The messages of the feed, each a line: a snapshot comes between two blocks.
RecordsSnapshot ==
    /\ diffs = <<>>
    /\ WritesLine([kind |-> "Snapshot", orders |-> book_order(venue)])
    /\ UNCHANGED venueVars

RecordsUpdates ==
    /\ diffs # <<>>
    /\ WritesLine([kind |-> "Updates", diffs |-> diffs, statuses |-> statuses])
    /\ diffs' = <<>> /\ statuses' = {}
    /\ UNCHANGED <<venue, used>>

\* An acknowledgement or a message of another channel.
RecordsOther == WritesLine(Skipped) /\ UNCHANGED venueVars

FileNext ==
    \/ /\ VenueNext
       /\ DiffsOf(DiffKind) + Len(diffs') <= MaxFileDiffs
       /\ UNCHANGED file
    \/ Unheard
    \/ RecordsSnapshot
    \/ RecordsUpdates
    \/ RecordsOther

FileSpec == FileInit /\ [][FileNext]_fileVars

-----------------------------------------------------------------------------
Loaded == load_capture(file)

(* A capture is replayed snapshot first, and the updates that were written    *)
(* before the snapshot again on top of it.  If the snapshots are accepted at  *)
(* all, this ends where following the messages in their order ends, under     *)
(* both policies and in the benchmark: the same orders in the same places     *)
(* (dwellir.rs:517-549, replay_capture.rs:37-82, benches/replay.rs:40-122).   *)
(* Except for orders that shrank below the unit: they are taken for filled    *)
(* (dwellir.rs:355), live until the next snapshot, in a replay for good.      *)
FollowLine(book, line) ==
    CASE line.kind = "Skip"     -> book
      [] line.kind = "Snapshot" -> apply_snapshot(book, decode_snapshot(line.orders)).book
      [] line.kind = "Updates"  ->
           apply_ops(book, strip_update_batch(
                               decode_updates_with_meta(line.diffs, line.statuses)).ops)
FollowLines(lines) ==
    LET upto[n \in 0 .. Len(lines)] ==
            IF n = 0 THEN EmptyBook ELSE FollowLine(upto[n - 1], lines[n])
    IN  upto[Len(lines)]
Shrunk ==
    UNION {{line.diffs[i].oid : i \in
               {j \in DOMAIN line.diffs : /\ line.diffs[j].kind \in {"update", "modified"}
                                          /\ 0 < line.diffs[j].sz /\ line.diffs[j].sz < Grain}} :
           line \in {file[n] : n \in {m \in DOMAIN file : file[m].kind = "Updates"}}}
ReplayEndsAsLive ==
    LET live == FollowLines(file)
        same(book) ==
            \A k \in Queue :
                LET others == {order \in Order : order.id \notin Shrunk}
                IN  Those(book[k], others) = Those(live[k], others)
    IN  \A policy \in {STRICT, DWELLIR_TOLERANT} :
            LET replay == replay_capture(Loaded, policy)
            IN  replay.result = "Ok" =>
                    same(replay.book) /\ same(warm_book(Loaded.snapshot, Loaded.updates))

(* The replay stops, on its first call, for two reasons only: some order      *)
(* rests in two snapshots of the file, since load_capture puts all snapshots  *)
(* of a file in one list (dwellir.rs:535-537), or one is smaller in a         *)
(* snapshot than the unit and so without a quantity (dwellir.rs:462, 484-514, *)
(* replay_capture.rs:30-31).                                                  *)
OnlyBadSnapshotsStopTheReplay ==
    LET snapshots == {n \in DOMAIN file : file[n].kind = "Snapshot"}
    IN  replay_capture(Loaded, DWELLIR_TOLERANT).result # "Ok" <=>
            \/ \E i, j \in snapshots :
                  i < j /\ Ids(file[i].orders) \cap Ids(file[j].orders) # {}
            \/ \E n \in snapshots : \E i \in DOMAIN file[n].orders :
                  file[n].orders[i].qty < Grain

(* The statistics account for every diff of the file: it became an operation  *)
(* of some kind, or it is counted as skipped or dropped, or it was of unknown *)
(* shape; and every operation has one outcome in a replay                     *)
(* (dwellir.rs:90-111, 589-603, replay_capture.rs:62-76).                     *)
StatsAccountForEveryDiff ==
    LET stats  == Loaded.stats
        replay == replay_capture(Loaded, DWELLIR_TOLERANT)
    IN  /\ stats.adds + stats.unresolved_new = DiffsOf({"new"})
        /\ stats.size_updates + stats.size_amends + stats.collapsed_complete_fills
             = DiffsOf({"update", "modified"})
        /\ stats.removes + stats.dropped_duplicate_removes
             = DiffsOf({"remove"}) + stats.collapsed_complete_fills
        /\ stats.total_ops = stats.adds + stats.removes + stats.size_updates + stats.size_amends
        /\ replay.result = "Ok" =>
             stats.total_ops = replay.outcomes.Applied + replay.outcomes.Skipped
                                 + replay.outcomes.Coerced + replay.outcomes.Error
=============================================================================
