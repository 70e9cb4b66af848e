---------------------------- MODULE MCDataPlane ----------------------------
(***************************************************************************)
(* The data plane for TLC: two lanes on one stream that a reload takes     *)
(* away, with faults; two lanes on one stream, and a reload that moves one *)
(* of them to another stream; a lane and a watchlist entry with a pace of  *)
(* their own on one stream.  A behaviour is one of a single instance,      *)
(* chosen at the start.  The first has variables of its own, the other two *)
(* share theirs.                                                           *)
(***************************************************************************)
EXTENDS DataPlane, TLC

CONSTANTS k1, k2, a1, a2, l1, l2,
          Parts          \* the instances to explore

OneKey == (k1 :> a1)
Lane(k, interval, grace) == [stream |-> k, interval |-> interval, grace |-> grace]
Watch(k, retention, interval) ==
    [stream |-> k, retention |-> retention, interval |-> interval]

OnAndOff ==
    {[lanes |-> (l1 :> Lane(k1, 1, 1)) @@ (l2 :> Lane(k1, 1, 1)), watch |-> {}],
     [lanes |-> <<>>, watch |-> {}]}

VARIABLES part,
          market2, phase2, cfg2, installed2, streams2, running2, killed2, last2, loop2,
          task2, tick2, polls2, asked2, faults2, requests2

vars2 == <<market2, phase2, cfg2, installed2, streams2, running2, killed2, last2, loop2,
           task2, tick2, polls2, asked2, faults2, requests2>>

Split == INSTANCE DataPlane WITH
    Keys <- {k1, k2}, Accounts <- {a1, a2}, AccountOf <- (k1 :> a1) @@ (k2 :> a2),
    Configs <- {[lanes |-> (l1 :> Lane(k1, 1, 1)) @@ (l2 :> Lane(k1, 1, 1)),
                 watch |-> {Watch(k1, 2, 1)}],
                [lanes |-> (l1 :> Lane(k1, 1, 1)) @@ (l2 :> Lane(k2, 1, 1)),
                 watch |-> {}]},
    MaxBar <- 1, MaxFaults <- 0,
    market <- market2, phase <- phase2, cfg <- cfg2, installed <- installed2,
    streams <- streams2, running <- running2, killed <- killed2, last <- last2,
    loop <- loop2, task <- task2, tick <- tick2, polls <- polls2, asked <- asked2,
    faults <- faults2, requests <- requests2

Paces == INSTANCE DataPlane WITH
    Configs <- {[lanes |-> (l1 :> Lane(k1, 2, 2)), watch |-> {Watch(k1, 1, 3)}],
                [lanes |-> (l1 :> Lane(k1, 4, 1)), watch |-> {}]},
    Timeframe <- 6, Never <- 5, MaxFaults <- 0,
    market <- market2, phase <- phase2, cfg <- cfg2, installed <- installed2,
    streams <- streams2, running <- running2, killed <- killed2, last <- last2,
    loop <- loop2, task <- task2, tick <- tick2, polls <- polls2, asked <- asked2,
    faults <- faults2, requests <- requests2

ASSUME DataPlaneConstants == ConstantsOK /\ Split!ConstantsOK /\ Paces!ConstantsOK

MCInit ==
    /\ part \in Parts
    /\ Init /\ (part # "on_and_off" => running = {} /\ cfg.lanes = <<>>)
    /\ IF part = "paces" THEN Paces!Init ELSE Split!Init
    /\ part = "on_and_off" => running2 = {} /\ cfg2.watch = {}

MCNext ==
    /\ UNCHANGED part
    /\ \/ part = "on_and_off" /\ Next /\ UNCHANGED vars2
       \/ part = "split" /\ Split!Next /\ UNCHANGED vars
       \/ part = "paces" /\ Paces!Next /\ UNCHANGED vars

MCVars == <<part, vars, vars2>>

\* The fairness of DataPlane, for the instance whose liveness is checked.
MCSpec ==
    /\ MCInit /\ [][MCNext]_MCVars
    /\ WF_vars(part = "on_and_off" /\ TakeDueStreams)
    /\ WF_vars(part = "on_and_off" /\ SpawnPolls)
    /\ WF_vars(part = "on_and_off" /\ EndCycle)
    /\ \A k \in Keys :
          WF_vars(part = "on_and_off" /\ (BareFetch(k) \/ FanOut(k) \/ RecordPollResult(k)))
    /\ WF_vars(part = "on_and_off" /\ (TickPoll \/ TickRecord))
    /\ WF_vars(part = "on_and_off" /\ ReplaceStreams)
    /\ WF_vars(part = "on_and_off" /\ Pass)
-----------------------------------------------------------------------------
\* A stream is polled no more often than its intervals allow, whatever is reloaded,
\* ticked or stale (DataPlane!WithinRateBudget).
WithinBudget ==
    /\ WithinRateBudget
    /\ part = "split" => Split!WithinRateBudget
    /\ part = "paces" => Paces!WithinRateBudget

\* A stream that stays registered ends up with the newest bar, and its running lanes
\* with it (DataPlane!StreamsCatchUp).
LanesCatchUp == part = "on_and_off" => StreamsCatchUp
=============================================================================
