--------------------------- MODULE MCLanePolling ---------------------------
(***************************************************************************)
(* Polling for TLC: a lane whose two pollers, provider, journal and        *)
(* operator interleave; and one that also gets bars simulated through the  *)
(* HTTP interface, over a crash.  A behaviour is one of a single lane,     *)
(* chosen at the start; each has variables of its own.                     *)
(***************************************************************************)
EXTENDS LanePolling

CONSTANT Parts           \* the lanes to explore

VARIABLES part,
          now2, state2, last2, rec2, target2, stalls2, loaded2, poll2, traces2, fed2,
          faults2, slow2, requests2, crashes2

otherVars == <<now2, state2, last2, rec2, target2, stalls2, loaded2, poll2, traces2,
               fed2, faults2, slow2, requests2, crashes2>>

Simulated == INSTANCE LanePolling WITH
    MaxBar <- 2, RequiredBars <- 1, MaxNoProgress <- 2, MaxCrashes <- 1,
    now <- now2, state <- state2, last <- last2, rec <- rec2, target <- target2,
    stalls <- stalls2, loaded <- loaded2, poll <- poll2, traces <- traces2, fed <- fed2,
    faults <- faults2, slow <- slow2, requests <- requests2, crashes <- crashes2

\* The polled lane starts with up to two bars behind it, and any of them traded.
MCInit ==
    /\ part \in Parts
    /\ Init /\ (IF part = "polled" THEN now <= 2 ELSE now = 0)
    /\ Simulated!Init
    /\ part = "polled" => now2 = 0

MCNext ==
    /\ UNCHANGED part
    /\ \/ part = "polled" /\ Next /\ UNCHANGED otherVars
       \/ part = "simulated" /\ (Simulated!Next \/ Simulated!SimulateBar) /\ UNCHANGED vars

MCVars == <<part, vars, otherVars>>

\* The fairness of LanePolling for the polled lane.
MCSpec ==
    /\ MCInit /\ [][MCNext]_MCVars
    /\ WF_vars(part = "polled" /\ Poll("loop"))
    /\ WF_vars(part = "polled" /\ Poll("tick") /\ poll["tick"].pc # "idle")
-----------------------------------------------------------------------------
\* A lane whose recovery goes on knows its newest bar and its target, also when bars
\* are pushed into it from outside; and two pollers with plans of different age do
\* not give it up (LanePolling!RecoveryHasBearings, OutOfSyncHasCause).
BearingsKept ==
    /\ RecoveryHasBearings /\ OutOfSyncHasCause
    /\ part = "simulated" => Simulated!RecoveryHasBearings

\* A lane that keeps running ends up healthy at the newest bar
\* (LanePolling!CatchesUp).
LaneCatchesUp == part = "polled" => CatchesUp
=============================================================================
