--------------------------- MODULE ReceiversProofs ---------------------------
(***************************************************************************)
(* The two clocks of Receivers, for every choice of the times: no report   *)
(* is missed or made twice, and a capture is exactly as long as it says.   *)
(***************************************************************************)
EXTENDS Receivers, TLAPS

-----------------------------------------------------------------------------
(* The reports of the live program *)

\* The next report is always the one after those that were made.
LiveInv ==
    /\ since \in Nat /\ next_report \in Nat /\ reports \in Nat
    /\ armed \in BOOLEAN
    /\ armed => next_report = (reports + 1) * ReportEvery
    /\ ~armed => phase # "Done"
    /\ reports * ReportEvery <= since
    /\ phase = "Done" => since >= RunFor /\ since < (reports + 1) * ReportEvery

\* Products of the times stay numbers: what the arithmetic of next_report needs.
LEMMA Products == \A a, b \in Nat : a + 1 \in Nat /\ a * b \in Nat
  OBVIOUS

\* Catching up makes every report that is due, and no other
\* (dwellir_live_sp500.rs:101-116).
LEMMA CatchingUp ==
  ASSUME NEW elapsed \in Nat, NEW made \in Nat, made * ReportEvery <= elapsed
  PROVE  LET due == Live!Overdue(elapsed, (made + 1) * ReportEvery)
         IN  /\ due \in Nat
             /\ (made + due) * ReportEvery <= elapsed
             /\ elapsed < (made + due + 1) * ReportEvery
             /\ (made + 1) * ReportEvery + due * ReportEvery = (made + due + 1) * ReportEvery
<1> USE LiveTimesAssumption
<1> DEFINE at == (made + 1) * ReportEvery
           due == Live!Overdue(elapsed, at)
<1>1. at \in Nat /\ at = made * ReportEvery + ReportEvery
  OBVIOUS
<1>2. CASE elapsed < at
  <2>1. due = 0
    BY <1>2 DEF Live!Overdue
  <2> QED
    BY <1>1, <1>2, <2>1
<1>3. CASE ~(elapsed < at)
  <2> DEFINE late == elapsed - at
             more == late \div ReportEvery
  <2>1. late \in Nat
    BY <1>1, <1>3
  <2> HIDE DEF late
  <2>2. more \in Nat /\ more * ReportEvery <= late /\ late < (more + 1) * ReportEvery
    BY <2>1
  <2> HIDE DEF more
  <2>3. due = 1 + more
    BY <1>3 DEF Live!Overdue, late, more
  <2>4. (made + due) * ReportEvery = at + more * ReportEvery
    BY <2>2, <2>3
  <2>5. (made + due + 1) * ReportEvery = at + (more + 1) * ReportEvery
    BY <2>2, <2>3
  <2>6. elapsed = at + late
    BY <1>1 DEF late
  <2>7. due * ReportEvery = (more + 1) * ReportEvery
    BY <2>2, <2>3
  <2> HIDE DEF at, due
  <2>8. more * ReportEvery \in Nat /\ (more + 1) * ReportEvery \in Nat
    BY <2>2
  <2>9. due \in Nat
    BY <2>2, <2>3
  <2>10. /\ at + more * ReportEvery <= elapsed
         /\ elapsed < at + (more + 1) * ReportEvery
    BY <1>1, <2>1, <2>2, <2>6, <2>8
  <2> QED
    BY <2>4, <2>5, <2>7, <2>9, <2>10 DEF at, due
<1> QED
  BY <1>2, <1>3

\* The end of an iteration restores the invariant from a clock that is right.
LEMMA ChecksKeepTime ==
  ASSUME NEW elapsed \in Nat, NEW made \in Nat, made * ReportEvery <= elapsed,
         armed', since' = elapsed,
         Live!Checks(elapsed, (made + 1) * ReportEvery, made)
  PROVE  LiveInv'
<1> DEFINE due == Live!Overdue(elapsed, (made + 1) * ReportEvery)
<1>1. /\ due \in Nat
      /\ (made + due) * ReportEvery <= elapsed
      /\ elapsed < (made + due + 1) * ReportEvery
      /\ (made + 1) * ReportEvery + due * ReportEvery = (made + due + 1) * ReportEvery
  BY CatchingUp
<1>2. /\ next_report' = (made + 1) * ReportEvery + due * ReportEvery
      /\ reports' = made + due
      /\ phase' = "Done" => elapsed >= RunFor
  BY DEF Live!Checks
<1> HIDE DEF due
<1>3. next_report' = (reports' + 1) * ReportEvery
  BY <1>1, <1>2
<1>4. reports' \in Nat
  BY <1>1, <1>2
<1>5. next_report' \in Nat
  <2>1. reports' + 1 \in Nat
    BY <1>4, Products
  <2>2. ReportEvery \in Nat
    BY LiveTimesAssumption
  <2> QED
    BY <1>3, <2>1, <2>2, Products
<1> QED
  BY <1>1, <1>2, <1>3, <1>4, <1>5 DEF LiveInv

\* The program starts with no snapshot, so nothing is due
\* (dwellir_live_sp500.rs:45-48).
LEMMA LiveInvInit == Init => LiveInv
<1>1. 0 * ReportEvery = 0
  BY LiveTimesAssumption
<1> SUFFICES ASSUME Init PROVE LiveInv
  OBVIOUS
<1>2. ~armed /\ armed \in BOOLEAN /\ phase = "Running"
  BY DEF Init, Live!Init
<1>3. since = 0 /\ next_report = 0 /\ reports = 0
  BY DEF Init, Live!Init
<1> QED
  BY <1>1, <1>2, <1>3 DEF LiveInv

\* No step breaks it: time only adds to what has passed, a text makes the reports
\* due, a snapshot starts over (dwellir_live_sp500.rs:54-120).
LEMMA LiveInvNext == LiveInv /\ [Next]_vars => LiveInv'
<1> SUFFICES ASSUME LiveInv, [Next]_vars PROVE LiveInv'
  OBVIOUS
<1> USE LiveTimesAssumption
<1>1. CASE Live!Passes
  <2>1. UNCHANGED <<phase, armed, next_report, reports>>
    BY <1>1 DEF Live!Passes
  <2>2. CASE since' = since
    BY <2>1, <2>2 DEF LiveInv
  <2>3. CASE since' = since + 1 /\ phase = "Running"
    <3>1. reports * ReportEvery \in Nat
      BY DEF LiveInv
    <3>2. since' \in Nat /\ reports * ReportEvery <= since'
      BY <2>3, <3>1 DEF LiveInv
    <3> QED
      BY <2>1, <2>3, <3>2 DEF LiveInv
  <2> QED
    BY <1>1, <2>2, <2>3 DEF Live!Passes
<1>2. CASE Live!ReadsText
  <2>1. CASE armed
    <3>1. /\ armed' = armed /\ since' = since
          /\ Live!Checks(since, next_report, reports)
      BY <1>2, <2>1 DEF Live!ReadsText
    <3>2. next_report = (reports + 1) * ReportEvery
      BY <2>1 DEF LiveInv
    <3> QED
      BY <2>1, <3>1, <3>2, ChecksKeepTime DEF LiveInv
  <2>2. CASE ~armed
    BY <1>2, <2>2 DEF Live!ReadsText, LiveInv
  <2> QED
    BY <2>1, <2>2
<1>3. CASE Live!ReadsSnapshot
  <2>1. armed' /\ since' = 0 /\ Live!Checks(0, (0 + 1) * ReportEvery, 0)
    BY <1>3 DEF Live!ReadsSnapshot
  <2>2. 0 * ReportEvery <= 0
    OBVIOUS
  <2> QED
    BY <2>1, <2>2, ChecksKeepTime
<1>4. CASE /\ UNCHANGED <<armed, since, next_report, reports>>
           /\ phase' # "Done" \/ phase' = phase
  BY <1>4 DEF LiveInv
<1>5. CASE Live!ReadsControl \/ Live!ReadsClose \/ Live!ReadsError
  BY <1>4, <1>5 DEF Live!ReadsControl, Live!ReadsClose, Live!ReadsError, Live!clockVars
<1>6. ASSUME NEW message, Live!Arrives(message) PROVE LiveInv'
  BY <1>4, <1>6 DEF Live!Arrives
<1>7. CASE UNCHANGED liveVars
  BY <1>4, <1>7 DEF liveVars
<1> QED
  BY <1>1, <1>2, <1>3, <1>5, <1>6, <1>7
  DEF Next, Tick, LiveStep, ScriptStep, Live!Step, Live!Reads, vars

(* No report is missed and none is made twice, for any period and any        *)
(* deadline, however long the connection is silent                           *)
(* (dwellir_live_sp500.rs:100-119).                                          *)
THEOREM ReportsAreOnTime == Spec => []ReportsKeepTime
<1>1. LiveInv => ReportsKeepTime
  BY DEF LiveInv, ReportsKeepTime, Live!ReportsKeepTime
<1> QED
  BY <1>1, LiveInvInit, LiveInvNext, PTL DEF Spec

-----------------------------------------------------------------------------
(* The length of a capture *)

\* From the first snapshot on, what is left and what has passed make up the
\* duration until nothing is left; a receive waits for all that is left.
ScriptInv ==
    /\ left \in Nat /\ timer \in Nat /\ age \in Nat
    /\ script_armed \in BOOLEAN
    /\ script_armed => IF left > 0 THEN age + left = Duration ELSE age >= Duration
    /\ ~script_armed => age = 0
    /\ script_phase = "Receiving" /\ script_armed => timer = left /\ age <= Duration
    /\ script_phase = "Complete" => script_armed /\ age >= Duration

\* The script starts without a deadline (capture_l4.py:69-71).
LEMMA ScriptInvInit == Init => ScriptInv
<1> SUFFICES ASSUME Init PROVE ScriptInv
  OBVIOUS
<1>1. ~script_armed /\ script_armed \in BOOLEAN /\ script_phase = "Looping"
  BY DEF Init, Script!Init
<1>2. left = 0 /\ timer = 0 /\ age = 0
  BY DEF Init, Script!Init
<1> QED
  BY <1>1, <1>2 DEF ScriptInv

\* No step breaks it: a tick moves one unit from what is left to what has passed,
\* and only the first snapshot sets the deadline (capture_l4.py:74-112).
LEMMA ScriptInvNext == ScriptInv /\ [Next]_vars => ScriptInv'
<1> SUFFICES ASSUME ScriptInv, [Next]_vars PROVE ScriptInv'
  OBVIOUS
<1> USE ScriptTimesAssumption DEF ScriptInv
<1>1. CASE Script!Passes
  <2>1. UNCHANGED <<script_phase, script_armed>>
    BY <1>1 DEF Script!Passes
  <2>2. CASE script_phase = "Receiving"
    BY <1>1, <2>1, <2>2 DEF Script!Passes, Script!Down, Script!Ended
  <2>3. CASE script_phase = "Looping"
    BY <1>1, <2>1, <2>3 DEF Script!Passes, Script!Down, Script!Ended
  <2>4. CASE script_phase \notin {"Looping", "Receiving"}
    BY <1>1, <2>1, <2>4 DEF Script!Passes, Script!Ended
  <2> QED
    BY <2>2, <2>3, <2>4
<1>2. CASE Script!Loops
  BY <1>2 DEF Script!Loops
<1>3. CASE Script!Records
  BY <1>3 DEF Script!Records
<1>4. CASE Script!TimesOut
  BY <1>4 DEF Script!TimesOut
<1>5. CASE Script!Breaks
  BY <1>5 DEF Script!Breaks
<1>6. ASSUME NEW message, Script!Arrives(message) PROVE ScriptInv'
  BY <1>6 DEF Script!Arrives
<1>7. CASE UNCHANGED scriptVars
  BY <1>7 DEF scriptVars
<1> QED
  BY <1>1, <1>2, <1>3, <1>4, <1>5, <1>6, <1>7
  DEF Next, Tick, LiveStep, ScriptStep, Script!Step, Script!Runs, vars

(* "The receive loop exits exactly at the 5-minute mark after snapshot"      *)
(* (capture_l4.py:75-76), for any duration and however many snapshots come.  *)
THEOREM CapturesLastAsLongAsTheySay == Spec => []RecordsToTheMark
<1>1. ScriptInv => RecordsToTheMark
  BY DEF ScriptInv, RecordsToTheMark, Script!RecordsToTheMark
<1> QED
  BY <1>1, ScriptInvInit, ScriptInvNext, PTL DEF Spec
=============================================================================
