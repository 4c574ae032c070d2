--------------------------- MODULE CaptureScript ---------------------------
(***************************************************************************)
(* The clock of src/scripts/capture_l4.py:69-146: before the first         *)
(* snapshot every receive may take Patience, after it what is left until a *)
(* deadline that the first snapshot sets.  The file that the script writes *)
(* is CaptureFile's.                                                       *)
(***************************************************************************)
EXTENDS Naturals

CONSTANTS
    Patience,    \* the 30 s allowed to a receive before the snapshot, in ticks
    Duration     \* duration_s, in ticks

VARIABLES
    phase,      \* "Looping", "Receiving", or how the capture ended
    inbox,      \* the message ws.recv() would return, or "None"
    armed,      \* deadline is set
    left,       \* ticks until the deadline, 0 once it has passed
    timer,      \* ticks until the receive times out
    age         \* history: ticks since the first snapshot was received

\* Everything that is not a snapshot is written alike.
Message == {"Snapshot", "Other"}
Ended == phase \notin {"Looping", "Receiving"}

Init ==
    /\ phase = "Looping" /\ inbox = "None"
    /\ armed = FALSE /\ left = 0 /\ timer = 0 /\ age = 0

-----------------------------------------------------------------------------
(* The world.  The event loop is prompt: while the script waits, no time     *)
(* passes once a message is there or the timeout is due.  Time does pass     *)
(* while a message is written.                                               *)

Arrives(message) ==
    /\ ~Ended /\ inbox = "None"
    /\ inbox' = message
    /\ UNCHANGED <<phase, armed, left, timer, age>>

\* The connection breaks, and nobody catches what recv raises.
Breaks ==
    /\ phase = "Receiving" /\ inbox = "None"
    /\ phase' = "Broken"
    /\ UNCHANGED <<inbox, armed, left, timer, age>>

Down(ticks) == IF ticks = 0 THEN 0 ELSE ticks - 1

\* An age of Duration + 1 stands for every later one.
Passes ==
    /\ phase = "Receiving" => inbox = "None" /\ timer > 0
    /\ timer' = IF phase = "Receiving" THEN timer - 1 ELSE timer
    /\ left' = IF Ended THEN left ELSE Down(left)
    /\ age' = IF ~Ended /\ armed /\ age <= Duration THEN age + 1 ELSE age
    /\ UNCHANGED <<phase, inbox, armed>>

-----------------------------------------------------------------------------
(* The script *)

\* A mutant of Loops: past the deadline a message that is there is still taken.
MutLoops ==
    /\ phase = "Looping"
    /\ phase' = "Receiving"
    /\ timer' = IF armed THEN left ELSE Patience
    /\ UNCHANGED <<inbox, armed, left, age>>

\* The top of the loop: the deadline, then a receive with its timeout.
Loops ==
    /\ phase = "Looping"
    /\ IF armed /\ left = 0
       THEN phase' = "Complete" /\ UNCHANGED timer
       ELSE /\ phase' = "Receiving"
            /\ timer' = IF armed THEN left ELSE Patience
    /\ UNCHANGED <<inbox, armed, left, age>>

\* A mutant of Records: every snapshot sets the deadline.
MutRecords ==
    /\ phase = "Receiving" /\ inbox # "None"
    /\ phase' = "Looping" /\ inbox' = "None"
    /\ armed' = (armed \/ inbox = "Snapshot")
    /\ left' = IF inbox = "Snapshot" THEN Duration ELSE left
    /\ UNCHANGED <<timer, age>>

\* A message is received and written; the first snapshot sets the deadline.
Records ==
    /\ phase = "Receiving" /\ inbox # "None"
    /\ phase' = "Looping" /\ inbox' = "None"
    /\ armed' = (armed \/ inbox = "Snapshot")
    /\ left' = IF ~armed /\ inbox = "Snapshot" THEN Duration ELSE left
    /\ UNCHANGED <<timer, age>>

\* A timeout after the snapshot is the end of the capture; one before it is
\* caught by nobody.  A message that comes at the same instant may lose.
TimesOut ==
    /\ phase = "Receiving" /\ timer = 0
    /\ phase' = IF armed THEN "Complete" ELSE "TimedOut"
    /\ UNCHANGED <<inbox, armed, left, timer, age>>

-----------------------------------------------------------------------------
Runs == Loops \/ Records \/ TimesOut
Step == Runs \/ Breaks \/ \E message \in Message : Arrives(message)

(* "The receive loop exits exactly at the 5-minute mark after snapshot"      *)
(* (capture_l4.py:75-76): every message of the file was waited for within    *)
(* Duration of the first snapshot, whatever snapshots follow, and a capture  *)
(* that completes has lasted for all of it.                                  *)
RecordsToTheMark ==
    /\ phase = "Receiving" /\ armed => age <= Duration
    /\ phase = "Complete" => age >= Duration

(* The capture ends: after a snapshot always, in silence or under a flood of *)
(* messages, and without one once the connection falls silent.  The thirty   *)
(* seconds that the script allows "before snapshot arrives" are a receive's, *)
(* and messages other than a snapshot put them off for ever                  *)
(* (capture_l4.py:77-87).                                                    *)
CaptureEnds ==
    /\ armed ~> Ended
    /\ <>[](inbox = "None") => <>Ended
=============================================================================
