------------------------------ MODULE LiveLoop ------------------------------
(***************************************************************************)
(* The clock of the live program (src/examples/dwellir_live_sp500.rs:45-   *)
(* 120): a loop around a blocking read, a report for every ReportEvery     *)
(* after a snapshot, and an end RunFor after it.  What messages do to the  *)
(* book is DwellirFeed's.  Instants are kept relative to the last snapshot *)
(* and times beyond Horizon are not told apart.                            *)
(*                                                                         *)
(* The doc of the example promises a report every 15 seconds for two       *)
(* minutes after the initial snapshot (dwellir_live_sp500.rs:6-8).  The    *)
(* code keeps that to a feed that sends one snapshot, as the protocol has  *)
(* it (docs/l4-protocol.md:227), and goes on sending texts: any further    *)
(* snapshot starts the two minutes again, and without a text nothing is    *)
(* reported and nothing ends.  The properties say what the code keeps.     *)
(***************************************************************************)
EXTENDS Naturals

CONSTANTS
    ReportEvery,   \* REPORT_EVERY, in ticks
    RunFor,        \* RUN_FOR, in ticks
    Horizon        \* bound: ticks counted since a snapshot

VARIABLES
    phase,         \* "Running", or how the program ended
    inbox,         \* the message ws.read() would return, or "None"
    armed,         \* snapshot_at, next_report and deadline are set
    since,         \* ticks since snapshot_at
    next_report,   \* ticks from snapshot_at to the next report
    reports        \* reports logged since snapshot_at

clockVars == <<armed, since, next_report, reports>>

\* A text that decodes to updates or to nothing; a snapshot the book accepts; a
\* ping, a pong or a raw frame; a close frame; an error of the socket, of the
\* decoder or of apply_snapshot.
Message == {"Text", "Snapshot", "Control", "Close", "Error"}

Init ==
    /\ phase = "Running" /\ inbox = "None"
    /\ armed = FALSE /\ since = 0 /\ next_report = 0 /\ reports = 0

-----------------------------------------------------------------------------
(* The world: messages arrive and time passes, also while the program works. *)

Arrives(message) ==
    /\ phase = "Running" /\ inbox = "None"
    /\ inbox' = message
    /\ UNCHANGED <<phase, armed, since, next_report, reports>>

Passes ==
    /\ since' = IF phase = "Running" /\ armed /\ since < Horizon THEN since + 1 ELSE since
    /\ UNCHANGED <<phase, inbox, armed, next_report, reports>>

-----------------------------------------------------------------------------
(* The program *)

\* A mutant of Overdue: `if` in place of `while`.
MutOverdue(elapsed, report_at) == IF elapsed < report_at THEN 0 ELSE 1

\* The reports that are due: one for every period that has passed.
Overdue(elapsed, report_at) ==
    IF elapsed < report_at THEN 0 ELSE 1 + (elapsed - report_at) \div ReportEvery

\* The end of an iteration: overdue reports first, then the deadline.
Checks(elapsed, report_at, logged) ==
    LET due == Overdue(elapsed, report_at)
    IN  /\ next_report' = report_at + due * ReportEvery
        /\ reports' = logged + due
        /\ phase' = IF elapsed >= RunFor THEN "Done" ELSE "Running"

Read(message) == phase = "Running" /\ inbox = message /\ inbox' = "None"

\* A mutant of ReadsText: every text starts the clock again.
MutReadsText ==
    /\ Read("Text")
    /\ IF armed THEN since' = 0 /\ Checks(0, ReportEvery, 0)
                ELSE UNCHANGED <<phase, since, next_report, reports>>
    /\ UNCHANGED armed

\* Before the first snapshot the iteration ends without a look at the clock.
ReadsText ==
    /\ Read("Text")
    /\ IF armed THEN Checks(since, next_report, reports)
                ELSE UNCHANGED <<phase, next_report, reports>>
    /\ UNCHANGED <<armed, since>>

\* A snapshot starts the clock, and starts it again.
ReadsSnapshot ==
    /\ Read("Snapshot")
    /\ armed' = TRUE /\ since' = 0
    /\ Checks(0, ReportEvery, 0)

\* The iteration ends without a look at the clock.
ReadsControl == Read("Control") /\ UNCHANGED <<phase, armed, since, next_report, reports>>

ReadsClose == Read("Close") /\ phase' = "Closed" /\ UNCHANGED clockVars
ReadsError == Read("Error") /\ phase' = "Failed" /\ UNCHANGED clockVars

Reads == ReadsText \/ ReadsSnapshot \/ ReadsControl \/ ReadsClose \/ ReadsError

-----------------------------------------------------------------------------
Step == Reads \/ \E message \in Message : Arrives(message)

(* A report for every period and none twice: never more reports than periods *)
(* have passed since the last snapshot, and a run that ends by its deadline  *)
(* has logged one for each, however long the connection was silent in        *)
(* between (dwellir_live_sp500.rs:100-119).                                  *)
ReportsKeepTime ==
    /\ reports * ReportEvery <= since
    /\ phase = "Done" => since >= RunFor /\ since < (reports + 1) * ReportEvery

(* The run ends if the feed lets it: once snapshots have stopped coming but  *)
(* texts have not, the deadline of the last snapshot is met.  Both           *)
(* conditions are needed, and neither is in the doc's promise of two minutes:*)
(* a silent or pinging connection is never looked at, and a snapshot sets    *)
(* the deadline anew (dwellir_live_sp500.rs:6-8, 61, 73-76, 117-119).        *)
KeepsTalking == []<>(inbox = "Text")
SnapshotsStop == <>[](inbox # "Snapshot")
EndsIfTheFeedLetsIt == KeepsTalking /\ SnapshotsStop => (armed ~> phase # "Running")
=============================================================================
