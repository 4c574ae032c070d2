----------------------------- MODULE Receivers -----------------------------
(***************************************************************************)
(* The two programs that follow a live feed for a fixed time, each on a    *)
(* connection of its own, under one clock: the live program, which looks   *)
(* at the time when a text has come, and the capture script, which waits   *)
(* with a timeout.                                                         *)
(***************************************************************************)
EXTENDS Naturals

CONSTANTS ReportEvery, RunFor, Horizon, Patience, Duration

ASSUME LiveTimesAssumption ==
    /\ ReportEvery \in Nat \ {0} /\ RunFor \in Nat \ {0}
    /\ Horizon \in Nat /\ Horizon > RunFor
ASSUME ScriptTimesAssumption == Patience \in Nat \ {0} /\ Duration \in Nat \ {0}

VARIABLES
    phase, inbox, armed, since, next_report, reports,   \* LiveLoop's
    script_phase, script_inbox, script_armed, left, timer, age

Live == INSTANCE LiveLoop
Script == INSTANCE CaptureScript
            WITH phase <- script_phase, inbox <- script_inbox, armed <- script_armed

liveVars == <<phase, inbox, armed, since, next_report, reports>>
scriptVars == <<script_phase, script_inbox, script_armed, left, timer, age>>
vars == <<liveVars, scriptVars>>

Init == Live!Init /\ Script!Init

Tick == Live!Passes /\ Script!Passes
LiveStep == Live!Step /\ UNCHANGED scriptVars
ScriptStep == Script!Step /\ UNCHANGED liveVars

Next == Tick \/ LiveStep \/ ScriptStep

\* Time goes on however many messages come, and a loop takes the message it waits
\* for (or its timeout); nothing is assumed of the messages.
Spec ==
    /\ Init /\ [][Next]_vars
    /\ SF_vars(Tick)
    /\ WF_vars(Live!Reads /\ UNCHANGED scriptVars)
    /\ WF_vars(Script!Runs /\ UNCHANGED liveVars)

-----------------------------------------------------------------------------
(* Each program keeps its time and ends, whatever the other does: the        *)
(* properties of LiveLoop and CaptureScript.                                 *)
ReportsKeepTime == Live!ReportsKeepTime
RecordsToTheMark == Script!RecordsToTheMark
EndsIfTheFeedLetsIt == Live!EndsIfTheFeedLetsIt
CaptureEnds == Script!CaptureEnds
=============================================================================
