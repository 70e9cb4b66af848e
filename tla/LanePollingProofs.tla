------------------------- MODULE LanePollingProofs -------------------------
(***************************************************************************)
(* Proofs about LanePolling, for every length of the warm-up, page size,   *)
(* number of pages and bound on faults; and about the bar builder, which   *)
(* loses no trade and keeps its bar well formed for any timeframe, times,  *)
(* prices and quantities, in whatever order trades come.                   *)
(*                                                                         *)
(* The inductive invariant adds to the safety invariants what a plan and   *)
(* its answer say about each other while a poll is in flight.  It says     *)
(* nothing about how they relate to the lane: that is what the stale       *)
(* checks are for.                                                         *)
(***************************************************************************)
EXTENDS LanePolling, Sequences, TLAPS

\* What a poll in flight knows.
Coherent(r) ==
    /\ r.plan.kind = "bootstrap" => r.plan.last = 0
    /\ r.plan.kind = "range" => r.plan.last > 0 /\ r.plan.target > 0
    /\ r.plan.kind = "target" => r.plan.last > 0
    /\ r.pc = "apply" /\ r.plan.kind = "bootstrap" => r.answer.bar > 0
    /\ r.pc = "apply" /\ r.plan.kind = "range" /\ r.answer.valid
          => r.answer.bar >= r.plan.last

PollsCoherent == \A p \in Pollers : Coherent(poll[p])

IInv ==
    /\ TypeOK
    /\ RecoveryHasBearings
    /\ NoProgressFailsClosed
    /\ PollsCoherent
-----------------------------------------------------------------------------
(***************************************************************************)
(* The larger and the smaller of two integers.                             *)
(***************************************************************************)
LEMMA MaxOfTwo ==
  ASSUME NEW a \in Int, NEW b \in Int
  PROVE  Max({a, b}) = IF a >= b THEN a ELSE b
BY DEF Max

\* The same for the smaller one (page ends and backfill ends).
LEMMA MinOfTwo ==
  ASSUME NEW a \in Int, NEW b \in Int
  PROVE  Min({a, b}) = IF a <= b THEN a ELSE b
BY DEF Min

(***************************************************************************)
(* The plans the planner and the pollers make are plans.                   *)
(***************************************************************************)
LEMMA PlansAreTyped ==
  ASSUME NEW l \in 0 .. MaxBar, NEW t \in 0 .. MaxBar, NEW r \in RecoveryStates
  PROVE  /\ NoPlan \in Plans
         /\ LatestBar("bootstrap", l) \in Plans
         /\ LatestBar("duplicate", l) \in Plans
         /\ LatestConfirmedTarget(l, r) \in Plans
         /\ ConfirmedRange(l, t, FALSE, FALSE) \in Plans
         /\ ConfirmedRange(l, t, TRUE, FALSE) \in Plans
         /\ ConfirmedRange(l, t, TRUE, TRUE) \in Plans
<1>1. MaxBar \in Nat
  BY PollingAssumption
<1>2. NoPlan \in Plans
  BY <1>1 DEF NoPlan, Plans, RecoveryStates
<1>3. QED
  BY <1>1, <1>2, Zenon DEF Plans, LatestBar, LatestConfirmedTarget, ConfirmedRange, NoPlan

(***************************************************************************)
(* What the plans for a single bar hold.                                   *)
(***************************************************************************)
LEMMA PlanFields ==
  ASSUME NEW l, NEW r, NEW m
  PROVE  /\ LatestBar(m, l).kind = m /\ LatestBar(m, l).last = l
         /\ LatestConfirmedTarget(l, r).kind = "target"
         /\ LatestConfirmedTarget(l, r).last = l
BY DEF LatestBar, LatestConfirmedTarget, NoPlan

\* A poller between two polls holds nothing.
LEMMA IdleIsFine == Idle \in Polls /\ Coherent(Idle)
<1>1. NoPlan \in Plans /\ NoAnswer \in Answers
  BY PollingAssumption DEF NoPlan, Plans, RecoveryStates, NoAnswer, Answers
<1>2. QED
  BY <1>1 DEF Idle, Polls, Coherent, NoPlan

(***************************************************************************)
(* A poller that moves on to a coherent state leaves the other one alone.  *)
(***************************************************************************)
PollsFine == poll \in [Pollers -> Polls] /\ PollsCoherent

\* One poller takes a coherent state, the other keeps its own.
LEMMA PollStep ==
  ASSUME PollsFine, NEW p \in Pollers, NEW r \in Polls, Coherent(r),
         poll' = [poll EXCEPT ![p] = r]
  PROVE  PollsFine'
BY DEF PollsFine, PollsCoherent

\* A poll ends: advance_lane_polling_once returns.
LEMMA FinishStep ==
  ASSUME PollsFine, NEW p \in Pollers, Finish(p)
  PROVE  PollsFine'
BY PollStep, IdleIsFine, Zenon DEF Finish

\* A poll goes on with the next plan, or has used up its pages.
LEMMA ContinueStep ==
  ASSUME PollsFine, NEW p \in Pollers, NEW plan \in Plans, Continue(p, plan),
         plan.kind \in {"duplicate", "range"},
         plan.kind = "range" => plan.last > 0 /\ plan.target > 0
  PROVE  PollsFine'
<1> DEFINE pages == poll[p].pages + (IF poll[p].plan.kind = "range" THEN 1 ELSE 0)
           r == [pc |-> "fetch", plan |-> plan, answer |-> NoAnswer, pages |-> pages]
<1>1. NoAnswer \in Answers
  BY PollingAssumption DEF NoAnswer, Answers
<1>2. poll[p].pages \in Nat
  BY DEF PollsFine, Polls
<1>3. r \in Polls
  BY <1>1, <1>2 DEF Polls
<1>4. Coherent(r)
  BY DEF Coherent
<1>5. Finish(p) \/ poll' = [poll EXCEPT ![p] = r]
  BY Zenon DEF Continue
<1>6. QED
  BY <1>3, <1>4, <1>5, FinishStep, PollStep

\* An answer arrives for the plan the poll was made for.
LEMMA ReceiveStep ==
  ASSUME PollsFine, NEW p \in Pollers, NEW a \in Answers, Receive(p, a),
         poll[p].plan.kind = "bootstrap" => a.bar > 0,
         poll[p].plan.kind = "range" /\ a.valid => a.bar >= poll[p].plan.last
  PROVE  PollsFine'
<1> DEFINE r == [poll[p] EXCEPT !.pc = "apply", !.answer = a]
<1>1. poll[p] \in Polls /\ Coherent(poll[p])
  BY DEF PollsFine, PollsCoherent
<1>2. r \in Polls
  BY <1>1, Zenon DEF Polls
<1>3. r.pc = "apply" /\ r.answer = a /\ r.plan = poll[p].plan
  BY <1>1 DEF Polls
<1>4. Coherent(r)
  BY <1>1, <1>3 DEF Coherent
<1>5. poll' = [poll EXCEPT ![p] = r]
  BY Zenon DEF Receive, PollsFine
<1> HIDE DEF r
<1>6. QED
  BY <1>2, <1>4, <1>5, PollStep, Zenon

(***************************************************************************)
(* The two halves of the invariant: the lane and the polls in flight.      *)
(***************************************************************************)
LaneFine ==
    /\ now \in 0 .. MaxBar
    /\ state \in {"down", "stopped", "killed", "running"}
    /\ last \in 0 .. MaxBar /\ target \in 0 .. MaxBar
    /\ rec \in RecoveryStates
    /\ stalls \in Nat /\ loaded \in 0 .. RequiredBars
    /\ traces \subseteq Bars /\ fed \subseteq Bars
    /\ faults \in 0 .. MaxFaults /\ slow \in 0 .. MaxSlow
    /\ requests \in 0 .. MaxRequests /\ crashes \in 0 .. MaxCrashes
    /\ RecoveryHasBearings
    /\ NoProgressFailsClosed

\* IInv is the two halves together.
LEMMA Halves == IInv <=> LaneFine /\ PollsFine
BY DEF IInv, TypeOK, LaneFine, PollsFine

\* The same after a step.
LEMMA HalvesNext == (LaneFine /\ PollsFine)' => IInv'
BY DEF IInv, TypeOK, LaneFine, PollsFine

USE PollingAssumption

(***************************************************************************)
(* A step that leaves the lane alone and keeps within the bounds.          *)
(***************************************************************************)
LEMMA LaneUntouched ==
  ASSUME LaneFine, UNCHANGED <<now, state, lane>>,
         faults' = faults \/ Fault,
         slow' = slow \/ (slow' = slow + 1 /\ slow < MaxSlow),
         UNCHANGED <<requests, crashes>>
  PROVE  LaneFine'
BY DEF LaneFine, lane, Fault, RecoveryHasBearings, NoProgressFailsClosed

\* plan_lane_polling makes a plan that fits the lane it was read from.
LEMMA StartPollKeeps ==
  ASSUME IInv, NEW p \in Pollers, StartPoll(p)
  PROVE  IInv'
<1>0. LaneFine /\ PollsFine
  BY Halves
<1>1. LaneFine'
  <2>1. UNCHANGED <<now, state, lane, faults, slow, requests, crashes>>
    BY DEF StartPoll, bounds
  <2>2. QED
    BY <1>0, <2>1, LaneUntouched
<1> DEFINE plan == PlanLanePolling
           r == [Idle EXCEPT !.pc = "fetch", !.plan = plan]
<1>2. last \in 0 .. MaxBar /\ target \in 0 .. MaxBar /\ rec \in RecoveryStates
  BY <1>0 DEF LaneFine
<1>3. /\ plan \in Plans
      /\ plan.kind = "bootstrap" => plan.last = 0
      /\ plan.kind = "range" => plan.last > 0 /\ plan.target > 0
      /\ plan.kind = "target" => plan.last > 0
  <2>1. CASE rec = "CatchingUp"
    <3>1. plan = ConfirmedRange(last, target, FALSE, FALSE)
      BY <2>1 DEF PlanLanePolling
    <3>2. plan \in Plans
      BY <1>2, <3>1, PlansAreTyped, Zenon
    <3>3. plan.kind = "range" /\ plan.last = last /\ plan.target = target
      BY <3>1 DEF ConfirmedRange, NoPlan
    <3>4. last > 0 /\ target > 0
      BY <1>0, <1>2, <2>1 DEF LaneFine, RecoveryHasBearings
    <3> HIDE DEF plan
    <3>5. QED
      BY <3>2, <3>3, <3>4
  <2>2. CASE rec # "CatchingUp" /\ last = 0
    <3>1. plan = LatestBar("bootstrap", 0)
      BY <2>2 DEF PlanLanePolling
    <3>2. plan \in Plans
      BY <1>2, <2>2, <3>1, PlansAreTyped, Zenon
    <3>3. plan.kind = "bootstrap" /\ plan.last = 0
      BY <3>1, PlanFields
    <3> HIDE DEF plan
    <3>4. QED
      BY <3>2, <3>3
  <2>3. CASE rec # "CatchingUp" /\ last # 0
    <3>1. plan = LatestConfirmedTarget(last, rec)
      BY <2>3 DEF PlanLanePolling
    <3>2. plan \in Plans
      BY <1>2, <3>1, PlansAreTyped, Zenon
    <3>3. plan.kind = "target" /\ plan.last = last
      BY <3>1, PlanFields
    <3> HIDE DEF plan
    <3>4. QED
      BY <1>2, <2>3, <3>2, <3>3
  <2>4. QED
    BY <2>1, <2>2, <2>3
<1>4. r.pc = "fetch" /\ r.plan = plan
  BY DEF Idle
<1>5. r \in Polls
  BY <1>3, IdleIsFine, Zenon DEF Polls
<1>6. Coherent(r)
  BY <1>3, <1>4 DEF Coherent
<1>7. poll' = [poll EXCEPT ![p] = r]
  BY Zenon DEF StartPoll
<1> HIDE DEF r, plan
<1>8. PollsFine'
  BY <1>0, <1>5, <1>6, <1>7, PollStep, Zenon
<1>9. QED
  BY <1>1, <1>8, HalvesNext

\* Fetching the newest bar leaves the lane alone.
LEMMA FetchBarKeeps ==
  ASSUME IInv, NEW p \in Pollers,
         FetchLatestBar(p) \/ FetchLatestConfirmedTarget(p)
  PROVE  IInv'
<1>0. LaneFine /\ PollsFine
  BY Halves
<1>1. LaneFine'
  <2>1. UNCHANGED <<now, state, lane, faults, slow, requests, crashes>>
    BY DEF FetchLatestBar, FetchLatestConfirmedTarget, bounds
  <2>2. QED
    BY <1>0, <2>1, LaneUntouched
<1> DEFINE a == [NoAnswer EXCEPT !.bar = now]
<1>2. a \in Answers /\ a.bar = now
  BY <1>0, Zenon DEF LaneFine, NoAnswer, Answers
<1>3. poll[p].plan.kind # "range"
  BY DEF FetchLatestBar, FetchLatestConfirmedTarget, Fetching
<1>4. CASE Finish(p)
  BY <1>0, <1>1, <1>4, FinishStep, HalvesNext
<1>5. CASE Receive(p, a) /\ (poll[p].plan.kind = "bootstrap" => now > 0)
  <2>1. PollsFine'
    BY <1>0, <1>2, <1>3, <1>5, ReceiveStep, Zenon
  <2>2. QED
    BY <1>1, <2>1, HalvesNext
<1>6. QED
  <2>1. now \in Nat
    BY <1>0 DEF LaneFine
  <2>2. QED
    BY <1>4, <1>5, <2>1 DEF FetchLatestBar, FetchLatestConfirmedTarget, Fetching

(***************************************************************************)
(* A page ends between the bar it starts after and the plan's target.      *)
(***************************************************************************)
LEMMA PageEndInRange ==
  ASSUME NEW plan \in Plans
  PROVE  PageEnd(plan) \in plan.last .. MaxBar
<1>1. plan.last \in 0 .. MaxBar /\ plan.target \in 0 .. MaxBar
  BY DEF Plans
<1>2. CASE plan.last >= plan.target
  BY <1>1, <1>2 DEF PageEnd
<1>3. CASE plan.last < plan.target
  <2>1. PageEnd(plan) = Min({plan.target, plan.last + PageLimit})
    BY <1>1, <1>3 DEF PageEnd
  <2>2. PageEnd(plan) = IF plan.target <= plan.last + PageLimit
                        THEN plan.target ELSE plan.last + PageLimit
    BY <1>1, <2>1, MinOfTwo
  <2>3. QED
    BY <1>1, <1>3, <2>2
<1>4. QED
  BY <1>1, <1>2, <1>3

\* A page fetched for a range starts after the last bar of the plan.
LEMMA FetchConfirmedRangeKeeps ==
  ASSUME IInv, NEW p \in Pollers, FetchConfirmedRange(p)
  PROVE  IInv'
<1> DEFINE plan == poll[p].plan
           end == PageEnd(plan)
           a == [bar |-> end, valid |-> TRUE,
                 exhausted |-> end >= plan.target \/ end - plan.last < PageLimit]
<1>0. LaneFine /\ PollsFine
  BY Halves
<1>1. UNCHANGED <<now, state, lane, faults, slow, requests, crashes>>
  BY DEF FetchConfirmedRange, bounds
<1>2. LaneFine'
  BY <1>0, <1>1, LaneUntouched
<1>3. plan \in Plans
  BY <1>0 DEF PollsFine, Polls
<1>4. plan.last \in Nat /\ end \in plan.last .. MaxBar
  BY <1>3, PageEndInRange DEF Plans
<1>5. a \in Answers
  BY <1>4 DEF Answers
<1>6. Receive(p, a) /\ plan.kind = "range"
  BY DEF FetchConfirmedRange, Fetching
<1>7. a.bar >= plan.last
  BY <1>4
<1> HIDE DEF a
<1>8. PollsFine'
  BY <1>0, <1>5, <1>6, <1>7, ReceiveStep
<1>9. QED
  BY <1>2, <1>8, HalvesNext

\* So do the answers of a provider that lags.
LEMMA FetchSlowKeeps ==
  ASSUME IInv, NEW p \in Pollers, FetchSlow(p)
  PROVE  IInv'
<1> DEFINE plan == poll[p].plan
<1>0. LaneFine /\ PollsFine
  BY Halves
<1>1. /\ UNCHANGED <<now, state, lane, faults, requests, crashes>>
      /\ slow' = slow + 1 /\ slow < MaxSlow
  BY DEF FetchSlow
<1>2. LaneFine'
  BY <1>0, <1>1, LaneUntouched
<1>3. plan \in Plans /\ now \in 0 .. MaxBar
  BY <1>0 DEF PollsFine, Polls, LaneFine
<1>4. PageEnd(plan) \in plan.last .. MaxBar /\ plan.last \in Nat
  BY <1>3, PageEndInRange DEF Plans
<1>5. ASSUME NEW b \in 0 .. now, Fetching(p, {"target"}),
             Receive(p, [NoAnswer EXCEPT !.bar = b])
      PROVE  PollsFine'
  <2> DEFINE a == [NoAnswer EXCEPT !.bar = b]
  <2>0. b \in 0 .. MaxBar
    BY <1>3
  <2>1. a \in Answers
    BY <2>0, Zenon DEF Answers, NoAnswer
  <2>2. plan.kind = "target"
    BY <1>5 DEF Fetching
  <2>3. Receive(p, a)
    BY <1>5
  <2> HIDE DEF a
  <2>4. QED
    BY <1>0, <2>1, <2>2, <2>3, ReceiveStep
<1>6. ASSUME NEW b \in plan.last .. PageEnd(plan), NEW e \in BOOLEAN,
             Fetching(p, {"range"}),
             Receive(p, [bar |-> b, valid |-> TRUE, exhausted |-> e])
      PROVE  PollsFine'
  <2> DEFINE a == [bar |-> b, valid |-> TRUE, exhausted |-> e]
  <2>1. b \in 0 .. MaxBar /\ b >= plan.last
    BY <1>4
  <2>2. a \in Answers
    BY <2>1 DEF Answers
  <2>3. a.bar >= plan.last /\ plan.kind = "range" /\ Receive(p, a)
    BY <1>6, <2>1 DEF Fetching
  <2> HIDE DEF a
  <2>4. QED
    BY <1>0, <2>2, <2>3, ReceiveStep
<1>7. ASSUME Fetching(p, {"range"}),
             Receive(p, [NoAnswer EXCEPT !.valid = FALSE])
      PROVE  PollsFine'
  <2> DEFINE a == [NoAnswer EXCEPT !.valid = FALSE]
  <2>0. NoAnswer \in Answers
    BY DEF Answers, NoAnswer
  <2>1. a \in Answers
    BY <2>0, Zenon DEF Answers
  <2>2. ~a.valid
    BY DEF NoAnswer
  <2>3. plan.kind = "range"
    BY <1>7 DEF Fetching
  <2>4. Receive(p, a)
    BY <1>7
  <2> HIDE DEF a
  <2>5. QED
    BY <1>0, <2>1, <2>2, <2>3, <2>4, ReceiveStep
<1>8. PollsFine'
  BY <1>5, <1>6, <1>7, Zenon DEF FetchSlow
<1>9. QED
  BY <1>2, <1>8, HalvesNext

\* A poll that fails applies nothing.
LEMMA PollFailsKeeps ==
  ASSUME IInv, NEW p \in Pollers, PollFails(p)
  PROVE  IInv'
<1>0. LaneFine /\ PollsFine
  BY Halves
<1>1. UNCHANGED <<now, state, lane, slow, requests, crashes>> /\ Fault /\ Finish(p)
  BY DEF PollFails
<1>2. LaneFine'
  BY <1>0, <1>1, LaneUntouched
<1>3. PollsFine'
  BY <1>0, <1>1, FinishStep
<1>4. QED
  BY <1>2, <1>3, HalvesNext
-----------------------------------------------------------------------------
(***************************************************************************)
(* What a step may do to the abstract dispatch, and to the traces.         *)
(***************************************************************************)
DispatchStep == Dispatch!Next \/ UNCHANGED Dispatch!dispatch
TradeStep == \A b \in traces' \ traces : last = 0 \/ b = last + 1

\* A step that touches neither the bars nor the traces shows nothing.
LEMMA QuietStep ==
  ASSUME UNCHANGED <<last, fed, loaded, traces>>
  PROVE  DispatchStep /\ TradeStep
BY DEF DispatchStep, TradeStep, Dispatch!dispatch, Ready

\* A single bar is dispatched to a new lane or right after the last one.
LEMMA OneBarStep ==
  ASSUME last \in Nat, NEW b \in Bars, last = 0 \/ b = last + 1,
         last' = b, fed' = fed \union {b}, Ready => Ready'
  PROVE  DispatchStep
<1>1. CASE last = 0
  <2>1. Dispatch!First(b)
    BY <1>1 DEF Dispatch!First
  <2>2. QED
    BY <2>1, Zenon DEF DispatchStep, Dispatch!Next
<1>2. CASE last # 0
  <2>1. b = last + 1 /\ b > last /\ last + 1 .. b = {b}
    BY <1>2 DEF Bars
  <2>2. Dispatch!Advance(b)
    BY <1>2, <2>1 DEF Dispatch!Advance
  <2>3. QED
    BY <2>2, Zenon DEF DispatchStep, Dispatch!Next
<1>3. QED
  BY <1>1, <1>2

\* A cycle evaluates that bar and fails.
LEMMA FailedBarStep ==
  ASSUME NEW b \in Bars, last = 0 \/ b = last + 1,
         UNCHANGED <<last, loaded>>, fed' = fed \union {b}
  PROVE  DispatchStep
<1>1. Ready' = Ready
  BY DEF Ready
<1>2. Dispatch!Attempt(b)
  BY <1>1 DEF Dispatch!Attempt
<1>3. QED
  BY <1>2, Zenon DEF DispatchStep, Dispatch!Next

(***************************************************************************)
(* replay_confirmed_bar_for_lane on the bar after the last one, or on the  *)
(* first bar of a lane.                                                    *)
(***************************************************************************)
LEMMA ReplaySteps ==
  ASSUME LaneFine, NEW b \in Bars, last = 0 \/ b = last + 1, ReplayTradable(b),
         UNCHANGED <<now, state, recovery, slow, requests, crashes>>
  PROVE  LaneFine' /\ DispatchStep /\ TradeStep
<1>1. b > last /\ b \in Nat /\ b <= MaxBar
  BY DEF LaneFine, Bars
<1>2. ProcessBarForLane(b)
  BY <1>1 DEF ReplayTradable, LaneFine
<1>3. rec' = rec /\ target' = target /\ stalls' = stalls
  BY DEF recovery
<1>4. CASE UNCHANGED <<last, loaded, fed, traces, faults>>
  <2>1. LaneFine'
    BY <1>3, <1>4 DEF LaneFine, RecoveryHasBearings, NoProgressFailsClosed
  <2>2. QED
    BY <1>4, <2>1, QuietStep
<1>5. CASE /\ ~Ready
           /\ last' = b /\ loaded' = loaded + 1 /\ fed' = fed \union {b}
           /\ UNCHANGED <<traces, faults>>
  <2>1. loaded' \in 0 .. RequiredBars
    BY <1>5 DEF LaneFine, Ready
  <2>2. LaneFine'
    BY <1>1, <1>3, <1>5, <2>1 DEF LaneFine, RecoveryHasBearings, NoProgressFailsClosed
  <2>3. DispatchStep
    BY <1>5, OneBarStep DEF LaneFine
  <2>4. QED
    BY <1>5, <2>2, <2>3 DEF TradeStep
<1>6. CASE /\ fed' = fed \union {b} /\ loaded' = loaded
           /\ traces' = traces \union {b} /\ last' = b /\ UNCHANGED faults
  <2>1. LaneFine'
    BY <1>1, <1>3, <1>6 DEF LaneFine, RecoveryHasBearings, NoProgressFailsClosed
  <2>2. Ready => Ready'
    BY <1>6 DEF Ready
  <2>3. DispatchStep
    BY <1>6, <2>2, OneBarStep DEF LaneFine
  <2>4. QED
    BY <1>6, <2>1, <2>3 DEF TradeStep
<1>7. CASE /\ fed' = fed \union {b} /\ loaded' = loaded
           /\ Fault /\ UNCHANGED <<traces, last>>
  <2>1. LaneFine'
    BY <1>3, <1>7 DEF LaneFine, Fault, RecoveryHasBearings, NoProgressFailsClosed
  <2>2. DispatchStep
    BY <1>7, FailedBarStep
  <2>3. QED
    BY <1>7, <2>1, <2>2 DEF TradeStep
<1>8. QED
  BY <1>1, <1>2, <1>4, <1>5, <1>6, <1>7 DEF ProcessBarForLane

(***************************************************************************)
(* One lemma per way of applying an answer.                                *)
(***************************************************************************)
LEMMA ApplyLatestBarPlanKeeps ==
  ASSUME IInv, NEW p \in Pollers, ApplyLatestBarPlan(p)
  PROVE  IInv' /\ DispatchStep /\ TradeStep
<1> DEFINE plan == poll[p].plan
           b == poll[p].answer.bar
<1>0. LaneFine /\ PollsFine
  BY Halves
<1>1. /\ Finish(p)
      /\ UNCHANGED <<now, state, recovery, slow, requests, crashes>>
      /\ poll[p].pc = "apply" /\ plan.kind \in {"bootstrap", "duplicate"}
  BY DEF ApplyLatestBarPlan, Applying
<1>2. PollsFine'
  BY <1>0, <1>1, FinishStep
<1>3. CASE UNCHANGED <<last, loaded, fed, traces, faults>>
  <2>1. LaneFine'
    BY <1>0, <1>1, <1>3, LaneUntouched DEF recovery, lane
  <2>2. QED
    BY <1>2, <1>3, <2>1, HalvesNext, QuietStep
<1>4. CASE last = plan.last /\ plan.kind # "duplicate" /\ ReplayTradable(b)
  <2>1. poll[p] \in Polls /\ Coherent(poll[p])
    BY <1>0 DEF PollsFine, PollsCoherent
  <2>2. b \in 0 .. MaxBar
    BY <2>1 DEF Polls, Answers
  <2>3. plan.last = 0 /\ b > 0
    BY <1>1, <1>4, <2>1 DEF Coherent
  <2>4. b \in Bars /\ last = 0
    BY <1>4, <2>2, <2>3 DEF Bars
  <2> HIDE DEF b
  <2>5. LaneFine' /\ DispatchStep /\ TradeStep
    BY <1>0, <1>1, <1>4, <2>4, ReplaySteps
  <2>6. QED
    BY <1>2, <2>5, HalvesNext
<1>5. QED
  BY <1>3, <1>4 DEF ApplyLatestBarPlan, LatestBarIsStale

\* apply_latest_confirmed_target_plan ends a recovery or plans a range.
LEMMA ApplyLatestConfirmedTargetPlanKeeps ==
  ASSUME IInv, NEW p \in Pollers, ApplyLatestConfirmedTargetPlan(p)
  PROVE  IInv' /\ DispatchStep /\ TradeStep
<1> DEFINE plan == poll[p].plan
           newest == poll[p].answer.bar
<1>0. LaneFine /\ PollsFine
  BY Halves
<1>1. /\ UNCHANGED <<now, state, last, loaded, fed, traces, slow, requests, crashes>>
      /\ poll[p].pc = "apply" /\ plan.kind = "target"
  BY DEF ApplyLatestConfirmedTargetPlan, Applying
<1>2. DispatchStep /\ TradeStep
  BY <1>1, QuietStep
<1>3. poll[p] \in Polls /\ Coherent(poll[p])
  BY <1>0 DEF PollsFine, PollsCoherent
<1>4. plan \in Plans /\ plan.last \in 0 .. MaxBar /\ newest \in 0 .. MaxBar
  BY <1>3 DEF Polls, Plans, Answers
<1>5. plan.last > 0
  BY <1>1, <1>3 DEF Coherent
<1>6. ASSUME UNCHANGED recovery, faults' = faults \/ Fault
      PROVE  LaneFine'
  BY <1>0, <1>1, <1>6, LaneUntouched DEF recovery, lane
<1>7. ASSUME CompleteLaneRecovery, faults' = faults \/ Fault
      PROVE  LaneFine'
  BY <1>0, <1>1, <1>7 DEF CompleteLaneRecovery, LaneFine, Fault, RecoveryStates,
                          RecoveryHasBearings, NoProgressFailsClosed
<1>8. LaneFine'
  <2>1. UNCHANGED recovery \/ CompleteLaneRecovery
    BY Zenon DEF ApplyLatestConfirmedTargetPlan
  <2>2. faults' = faults \/ Fault
    BY Zenon DEF ApplyLatestConfirmedTargetPlan
  <2>3. QED
    BY <1>6, <1>7, <2>1, <2>2
<1>9. CASE Finish(p)
  BY <1>0, <1>2, <1>8, <1>9, FinishStep, HalvesNext
<1>10. CASE Continue(p, LatestBar("duplicate", plan.last))
  <2> DEFINE next == LatestBar("duplicate", plan.last)
  <2>1. "Healthy" \in RecoveryStates
    BY DEF RecoveryStates
  <2>2. next \in Plans
    BY <1>4, <2>1, PlansAreTyped, Zenon
  <2>3. next.kind = "duplicate"
    BY PlanFields
  <2>4. Continue(p, next)
    BY <1>10
  <2> HIDE DEF next
  <2>5. PollsFine'
    BY <1>0, <2>2, <2>3, <2>4, ContinueStep
  <2>6. QED
    BY <1>2, <1>8, <2>5, HalvesNext
<1>11. ASSUME NEW c \in BOOLEAN, newest > plan.last,
              Continue(p, ConfirmedRange(plan.last, newest, TRUE, c))
       PROVE  PollsFine'
  <2> DEFINE next == ConfirmedRange(plan.last, newest, TRUE, c)
  <2>1. next \in Plans
    BY <1>4, PlansAreTyped, Zenon DEF RecoveryStates
  <2>2. next.kind = "range" /\ next.last = plan.last /\ next.target = newest
    BY DEF ConfirmedRange, NoPlan
  <2>3. Continue(p, next)
    BY <1>11, Zenon
  <2> HIDE DEF next
  <2>4. QED
    BY <1>0, <1>4, <1>5, <1>11, <2>1, <2>2, <2>3, ContinueStep
<1>12. QED
  <2>1. CASE newest > plan.last /\ Continue(p, ConfirmedRange(plan.last, newest, TRUE,
                                                             plan.rec = "Healthy"))
    <3>1. PollsFine'
      BY <1>11, <2>1, Zenon
    <3>2. QED
      BY <1>2, <1>8, <3>1, HalvesNext
  <2>2. QED
    BY <1>9, <1>10, <2>1, Zenon DEF ApplyLatestConfirmedTargetPlan

(***************************************************************************)
(* What an answer that is not stale says about the lane.                   *)
(***************************************************************************)
LEMMA FreshPage ==
  ASSUME IInv, NEW p \in Pollers, Applying(p, {"range"}), ~RangeIsStale(poll[p].plan)
  PROVE  /\ poll[p].plan.last = last /\ last \in Bars
         /\ poll[p].plan.target \in Bars
         /\ poll[p].answer.bar \in 0 .. MaxBar
         /\ poll[p].answer.valid => poll[p].answer.bar >= last
<1>1. poll[p] \in Polls /\ Coherent(poll[p])
  BY Halves DEF PollsFine, PollsCoherent
<1>2. /\ poll[p].plan.last \in 0 .. MaxBar /\ poll[p].plan.target \in 0 .. MaxBar
      /\ poll[p].answer.bar \in 0 .. MaxBar
  BY <1>1 DEF Polls, Plans, Answers
<1>3. poll[p].pc = "apply" /\ poll[p].plan.kind = "range" /\ last = poll[p].plan.last
  BY DEF Applying, RangeIsStale
<1>4. poll[p].plan.last > 0 /\ poll[p].plan.target > 0
  BY <1>1, <1>3 DEF Coherent
<1>5. poll[p].answer.valid => poll[p].answer.bar >= poll[p].plan.last
  BY <1>1, <1>3 DEF Coherent
<1>6. QED
  BY <1>2, <1>3, <1>4, <1>5 DEF Bars

\* apply_confirmed_range_plan, where it drops the page, refuses it or trades its bar.
LEMMA ApplyRangeEarlyKeeps ==
  ASSUME IInv, NEW p \in Pollers, ApplyRangeEarly(p)
  PROVE  IInv' /\ DispatchStep /\ TradeStep
<1> DEFINE plan == poll[p].plan
           page == poll[p].answer
<1>0. LaneFine /\ PollsFine
  BY Halves
<1>1. /\ Finish(p) /\ Applying(p, {"range"})
      /\ UNCHANGED <<now, state, slow, requests, crashes>>
  BY DEF ApplyRangeEarly
<1>2. PollsFine'
  BY <1>0, <1>1, FinishStep
<1>3. CASE UNCHANGED <<recovery, last, loaded, fed, traces, faults>>
  <2>1. LaneFine'
    BY <1>0, <1>1, <1>3, LaneUntouched DEF recovery, lane
  <2>2. QED
    BY <1>2, <1>3, <2>1, HalvesNext, QuietStep
<1>4. CASE /\ ~RangeIsStale(plan)
           /\ MarkLaneOutOfSync(target, last)
           /\ UNCHANGED <<stalls, last, loaded, fed, traces, faults>>
  <2>1. last \in Bars
    BY <1>1, <1>4, FreshPage
  <2>2. rec' = "OutOfSync" /\ target' \in Bars
    BY <1>0, <1>4, <2>1 DEF MarkLaneOutOfSync, LaneFine, Bars
  <2>3. LaneFine'
    BY <1>0, <1>1, <1>4, <2>1, <2>2
    DEF LaneFine, Bars, RecoveryStates, RecoveryHasBearings, NoProgressFailsClosed
  <2>4. QED
    BY <1>2, <1>4, <2>3, HalvesNext, QuietStep, SMTT(30)
<1>5. CASE /\ ~RangeIsStale(plan)
           /\ TakesShortcut(plan, page)
           /\ ReplayTradable(page.bar)
           /\ UNCHANGED recovery
  <2> DEFINE b == page.bar
  <2>1. b = last + 1 /\ b \in 0 .. MaxBar /\ last \in Bars
    BY <1>1, <1>5, FreshPage DEF TakesShortcut
  <2>2. b \in Bars
    BY <2>1 DEF Bars
  <2>3. ReplayTradable(b)
    BY <1>5
  <2> HIDE DEF b
  <2>4. UNCHANGED <<now, state, recovery, slow, requests, crashes>>
    BY <1>1, <1>5
  <2>5. LaneFine' /\ DispatchStep /\ TradeStep
    BY <1>0, <2>1, <2>2, <2>3, <2>4, ReplaySteps
  <2>6. QED
    BY <1>2, <2>5, HalvesNext
<1>6. QED
  BY <1>3, <1>4, <1>5, Zenon DEF ApplyRangeEarly

\* A recovery starts but its event is lost.
LEMMA StartRecoveryFailsKeeps ==
  ASSUME IInv, NEW p \in Pollers, StartRecoveryFails(p)
  PROVE  IInv' /\ DispatchStep /\ TradeStep
<1>0. LaneFine /\ PollsFine
  BY Halves
<1>1. /\ UNCHANGED <<now, state, loaded, traces, slow, requests, crashes, last, fed>>
      /\ Finish(p) /\ Fault
      /\ rec' = "CatchingUp" /\ target' = poll[p].plan.target /\ stalls' = 0
      /\ Applying(p, {"range"}) /\ ~RangeIsStale(poll[p].plan)
  BY DEF StartRecoveryFails, RecoveryPage
<1>2. last \in Bars /\ target' \in Bars
  BY <1>1, FreshPage
<1>3. LaneFine'
  BY <1>0, <1>1, <1>2
  DEF LaneFine, Bars, Fault, RecoveryStates, RecoveryHasBearings, NoProgressFailsClosed
<1>4. PollsFine'
  BY <1>0, <1>1, FinishStep
<1>5. QED
  BY <1>1, <1>3, <1>4, HalvesNext, QuietStep

(***************************************************************************)
(* The recovery after a page's plan may have started it.                   *)
(***************************************************************************)
LEMMA AfterStart ==
  ASSUME LaneFine, last \in Bars, NEW plan, plan.target \in Bars
  PROVE  /\ RecAfterStart(plan) \in RecoveryStates
         /\ TargetAfterStart(plan) \in 0 .. MaxBar
         /\ RecAfterStart(plan) # "Healthy" => TargetAfterStart(plan) # 0
         /\ StallsAfterStart(plan) \in Nat
         /\ RecAfterStart(plan) = "CatchingUp"
              => StallsAfterStart(plan) < MaxNoProgress + faults
<1>1. CASE plan.start
  BY <1>1 DEF RecAfterStart, TargetAfterStart, StallsAfterStart, LaneFine,
              RecoveryStates, Bars
<1>2. CASE ~plan.start
  BY <1>2 DEF RecAfterStart, TargetAfterStart, StallsAfterStart, LaneFine,
              RecoveryHasBearings, NoProgressFailsClosed
<1>3. QED
  BY <1>1, <1>2

\* An empty page: counted, and given up on at the limit.
LEMMA RecordRecoveryNoProgressKeeps ==
  ASSUME IInv, NEW p \in Pollers, RecordRecoveryNoProgress(p)
  PROVE  IInv' /\ DispatchStep /\ TradeStep
<1> DEFINE plan == poll[p].plan
           page == poll[p].answer
           cycles == StallsAfterStart(plan) + 1
           t == TargetAfterStart(plan)
           r == RecAfterStart(plan)
<1>0. LaneFine /\ PollsFine
  BY Halves
<1>1. /\ UNCHANGED <<now, state, loaded, traces, slow, requests, crashes, last, fed>>
      /\ Finish(p) /\ stalls' = cycles
      /\ Applying(p, {"range"}) /\ ~RangeIsStale(plan)
  BY DEF RecordRecoveryNoProgress, RecoveryPage
<1>2. last \in Bars /\ plan.target \in Bars
  BY <1>1, FreshPage
<1>3. /\ r \in RecoveryStates /\ t \in 0 .. MaxBar
      /\ r # "Healthy" => t # 0
      /\ cycles \in Nat
      /\ r = "CatchingUp" => cycles - 1 < MaxNoProgress + faults
  BY <1>0, <1>2, AfterStart
<1>4. CASE MarkLaneOutOfSync(t, last) /\ UNCHANGED faults
  <2>1. rec' = "OutOfSync" /\ target' \in Bars
    BY <1>2, <1>3, <1>4, SMTT(30) DEF MarkLaneOutOfSync, Bars
  <2>2. QED
    BY <1>0, <1>1, <1>2, <1>3, <1>4, <2>1, FinishStep, HalvesNext, QuietStep
    DEF LaneFine, Bars, RecoveryStates, RecoveryHasBearings, NoProgressFailsClosed
<1>5. CASE rec' = r /\ target' = t /\ Fault
  <2>1. LaneFine'
    BY <1>0, <1>1, <1>2, <1>3, <1>5
    DEF LaneFine, Bars, Fault, RecoveryHasBearings, NoProgressFailsClosed
  <2>2. QED
    BY <1>0, <1>1, <2>1, FinishStep, HalvesNext, QuietStep
<1>6. CASE rec' = r /\ target' = t /\ ~GivesUp(page, cycles) /\ UNCHANGED faults
  <2>1. cycles < MaxNoProgress
    <3>1. ~(cycles >= MaxNoProgress)
      BY <1>6, Zenon DEF GivesUp
    <3>2. cycles \in Nat /\ MaxNoProgress \in Nat
      BY <1>3, PollingAssumption
    <3> HIDE DEF cycles
    <3>3. QED
      BY <3>1, <3>2
  <2>2. LaneFine'
    <3>1. faults \in Nat /\ faults' = faults /\ MaxNoProgress \in Nat
      BY <1>0, <1>6, PollingAssumption DEF LaneFine
    <3>2. stalls' \in Nat /\ stalls' < MaxNoProgress + faults'
      <4>1. stalls' = cycles /\ cycles \in Nat
        BY <1>1, <1>3, Zenon
      <4> HIDE DEF cycles
      <4>2. QED
        BY <2>1, <3>1, <4>1
    <3> HIDE DEF r, t
    <3>3. RecoveryHasBearings' /\ NoProgressFailsClosed'
      BY <1>1, <1>2, <1>3, <1>6, <3>2 DEF Bars, RecoveryHasBearings, NoProgressFailsClosed
    <3>4. QED
      BY <1>0, <1>1, <1>3, <1>6, <3>2, <3>3, Zenon DEF LaneFine
  <2>3. QED
    BY <1>0, <1>1, <2>2, FinishStep, HalvesNext, QuietStep
<1>7. QED
  BY <1>4, <1>5, <1>6, Zenon DEF RecordRecoveryNoProgress

\* A page of bars advances the lane without a gap and trades nothing.
LEMMA ApplyRecoveryPageKeeps ==
  ASSUME IInv, NEW p \in Pollers, ApplyRecoveryPage(p)
  PROVE  IInv' /\ DispatchStep /\ TradeStep
<1> DEFINE plan == poll[p].plan
           page == poll[p].answer
           b == page.bar
           t == TargetAfterStart(plan)
           r == RecAfterStart(plan)
<1>0. LaneFine /\ PollsFine
  BY Halves
<1>1. /\ UNCHANGED <<now, state, loaded, traces, slow, requests, crashes>>
      /\ b > plan.last /\ last' = b /\ stalls' = 0
      /\ fed' = fed \union (plan.last + 1 .. b)
      /\ Applying(p, {"range"}) /\ ~RangeIsStale(plan)
  BY DEF ApplyRecoveryPage, RecoveryPage
<1>2. /\ plan.last = last /\ last \in Bars /\ plan.target \in Bars
      /\ b \in 0 .. MaxBar
  BY <1>1, FreshPage
<1>3. b \in Bars /\ b > last
  BY <1>1, <1>2 DEF Bars
<1>4. r \in RecoveryStates /\ t \in 0 .. MaxBar /\ (r # "Healthy" => t # 0)
  BY <1>0, <1>2, AfterStart
<1>5. last + 1 .. b \subseteq Bars
  BY <1>2, <1>3 DEF Bars
<1>6. DispatchStep
  <2>1. Ready' = Ready
    BY <1>1 DEF Ready
  <2>2. Dispatch!Advance(b)
    BY <1>1, <1>2, <1>3, <2>1 DEF Dispatch!Advance, Bars
  <2>3. QED
    BY <1>3, <2>2, Zenon DEF DispatchStep, Dispatch!Next
<1>7. TradeStep
  BY <1>1 DEF TradeStep
<1>8. ASSUME rec' \in RecoveryStates, target' \in 0 .. MaxBar,
             rec' # "Healthy" => target' # 0, faults' = faults \/ Fault
      PROVE  LaneFine'
  <2>1. fed' \subseteq Bars
    BY <1>0, <1>1, <1>2, <1>5, Zenon DEF LaneFine
  <2>2. faults' \in 0 .. MaxFaults
    BY <1>0, <1>8 DEF LaneFine, Fault
  <2> HIDE DEF b
  <2>3. QED
    BY <1>0, <1>1, <1>3, <1>8, <2>1, <2>2
    DEF LaneFine, Bars, RecoveryHasBearings, NoProgressFailsClosed
<1>9. LaneFine'
  <2>1. CASE rec' = "Healthy" /\ target' = 0 /\ UNCHANGED faults
    BY <1>8, <2>1 DEF RecoveryStates
  <2>2. CASE MarkLaneOutOfSync(t, b) /\ UNCHANGED faults
    BY <1>3, <1>4, <1>8, <2>2 DEF MarkLaneOutOfSync, RecoveryStates, Bars
  <2>3. CASE rec' = r /\ target' = t /\ (faults' = faults \/ Fault)
    BY <1>4, <1>8, <2>3
  <2>4. QED
    BY <2>1, <2>2, <2>3, Zenon DEF ApplyRecoveryPage
<1>10. PollsFine'
  <2>1. CASE Finish(p)
    BY <1>0, <2>1, FinishStep
  <2>2. CASE Continue(p, ConfirmedRange(b, plan.target, FALSE, FALSE))
    <3> DEFINE next == ConfirmedRange(b, plan.target, FALSE, FALSE)
    <3>1. "Healthy" \in RecoveryStates /\ plan.target \in 0 .. MaxBar
      BY <1>2 DEF RecoveryStates, Bars
    <3>2. next \in Plans
      BY <1>2, <3>1, PlansAreTyped, Zenon
    <3>3. next.kind = "range" /\ next.last = b /\ next.target = plan.target
      BY DEF ConfirmedRange, NoPlan
    <3>4. b > 0 /\ plan.target > 0
      BY <1>2, <1>3 DEF Bars
    <3>5. Continue(p, next)
      BY <2>2, Zenon
    <3> HIDE DEF next
    <3>6. QED
      BY <1>0, <3>2, <3>3, <3>4, <3>5, ContinueStep
  <2>3. QED
    BY <2>1, <2>2, Zenon DEF ApplyRecoveryPage
<1>11. QED
  BY <1>6, <1>7, <1>9, <1>10, HalvesNext, SMTT(30)
-----------------------------------------------------------------------------
(***************************************************************************)
(* Seeding from history.                                                   *)
(***************************************************************************)
LEMMA BackfillBounds ==
  ASSUME LaneFine, ~Ready
  PROVE  /\ BackfillStart \in Nat /\ BackfillStart > last
         /\ BackfillEnd \in Int /\ BackfillEnd <= MaxBar
         /\ BackfillEnd <= BackfillStart + RequiredBars - loaded - 1
<1>1. /\ now \in 0 .. MaxBar /\ last \in 0 .. MaxBar
      /\ loaded \in 0 .. RequiredBars /\ now - RequiredBars \in Int
  BY DEF LaneFine
<1>2. BackfillStart = (IF last >= now - RequiredBars
                       THEN last ELSE now - RequiredBars) + 1
  BY <1>1, MaxOfTwo DEF BackfillStart
<1>3. BackfillStart \in Nat /\ BackfillStart > last
  BY <1>1, <1>2
<1> DEFINE e == BackfillStart + RequiredBars - loaded - 1
<1>4. e \in Int
  BY <1>1, <1>3
<1>5. BackfillEnd = IF now <= e THEN now ELSE e
  BY <1>1, <1>4, MinOfTwo DEF BackfillEnd
<1>6. QED
  BY <1>1, <1>3, <1>4, <1>5

\* Seeding up to b is a Seed of the abstract dispatch.
LEMMA SeedSteps ==
  ASSUME LaneFine, ~Ready, NEW b \in BackfillStart .. BackfillEnd, SeedUpTo(b),
         UNCHANGED <<now, recovery, traces, slow, crashes>>,
         state' \in {"down", "stopped", "killed", "running"},
         requests' \in 0 .. MaxRequests,
         faults' = faults \/ Fault
  PROVE  LaneFine' /\ DispatchStep /\ TradeStep
<1> DEFINE a == BackfillStart
<1>1. /\ a \in Nat /\ a > last /\ b \in Nat /\ b >= a /\ b <= MaxBar
      /\ b <= a + RequiredBars - loaded - 1
      /\ last \in 0 .. MaxBar /\ loaded \in 0 .. RequiredBars
  BY BackfillBounds DEF LaneFine
<1>2. last' = b /\ fed' = fed \union (a .. b) /\ loaded' = loaded + b - a + 1
  BY DEF SeedUpTo
<1> HIDE DEF a
<1>3. a \in Bars /\ b \in Bars /\ a .. b \subseteq Bars
  BY <1>1 DEF Bars
<1>4. loaded' \in 0 .. RequiredBars
  BY <1>1, <1>2
<1>5. fed' \subseteq Bars /\ last' \in Bars
  BY <1>2, <1>3 DEF LaneFine
<1>6. rec' = rec /\ target' = target /\ stalls' = stalls
  BY DEF recovery
<1>7. LaneFine'
  BY <1>4, <1>5, <1>6
  DEF LaneFine, Bars, Fault, RecoveryHasBearings, NoProgressFailsClosed
<1>8. Dispatch!Seed(a, b)
  BY <1>1, <1>2 DEF Dispatch!Seed, Ready
<1>9. DispatchStep
  BY <1>3, <1>8, Zenon DEF DispatchStep, Dispatch!Next
<1>10. QED
  BY <1>7, <1>9 DEF TradeStep

\* A start without any seeding.
LEMMA NothingSeededSteps ==
  ASSUME LaneFine, NothingSeeded,
         UNCHANGED <<now, recovery, traces, slow, crashes>>,
         state' \in {"down", "stopped", "killed", "running"},
         requests' \in 0 .. MaxRequests,
         faults' = faults \/ Fault
  PROVE  LaneFine' /\ DispatchStep /\ TradeStep
<1>1. UNCHANGED <<last, fed, loaded, traces, rec, target, stalls>>
  BY DEF NothingSeeded, recovery
<1>2. LaneFine'
  BY <1>1 DEF LaneFine, Fault, RecoveryHasBearings, NoProgressFailsClosed
<1>3. QED
  BY <1>1, <1>2, QuietStep

\* A request leaves the polls in flight as they are.
LEMMA PollsUntouched ==
  ASSUME PollsFine, UNCHANGED poll
  PROVE  PollsFine'
BY DEF PollsFine, PollsCoherent

\* start_instance, resume_instance and startup: seed, then run.
LEMMA StartOrBootKeeps ==
  ASSUME IInv, StartLane \/ Boot
  PROVE  IInv' /\ DispatchStep /\ TradeStep
<1>0. LaneFine /\ PollsFine
  BY Halves
<1>1. UNCHANGED <<now, recovery, traces, slow, crashes>> /\ UNCHANGED poll
  BY DEF StartLane, Boot
<1>2. /\ state' \in {"down", "stopped", "killed", "running"}
      /\ requests' \in 0 .. MaxRequests
  BY <1>0 DEF StartLane, Boot, BackfillFails, LaneFine
<1>3. faults' = faults \/ Fault
  BY DEF StartLane, Boot, BackfillFails
<1>4. \/ NothingSeeded
      \/ ~Ready /\ \E b \in BackfillStart .. BackfillEnd : SeedUpTo(b)
  <2>1. CASE Backfill
    <3>1. CASE Ready \/ BackfillStart > BackfillEnd
      BY <2>1, <3>1 DEF Backfill
    <3>2. CASE ~Ready /\ ~(BackfillStart > BackfillEnd)
      <4>1. BackfillEnd \in BackfillStart .. BackfillEnd
        BY <1>0, <3>2, BackfillBounds
      <4>2. SeedUpTo(BackfillEnd)
        BY <2>1, <3>2 DEF Backfill
      <4>3. QED
        BY <3>2, <4>1, <4>2, Zenon
    <3>3. QED
      BY <3>1, <3>2
  <2>2. CASE BackfillFails
    BY <2>2, Zenon DEF BackfillFails
  <2>3. QED
    BY <2>1, <2>2, Zenon DEF StartLane, Boot
<1>5. LaneFine' /\ DispatchStep /\ TradeStep
  <2>1. CASE NothingSeeded
    BY <1>0, <1>1, <1>2, <1>3, <2>1, NothingSeededSteps
  <2>2. CASE ~Ready /\ \E b \in BackfillStart .. BackfillEnd : SeedUpTo(b)
    <3>1. PICK b \in BackfillStart .. BackfillEnd : SeedUpTo(b)
      BY <2>2
    <3>2. QED
      BY <1>0, <1>1, <1>2, <1>3, <2>2, <3>1, SeedSteps
  <2>3. QED
    BY <1>4, <2>1, <2>2
<1>6. QED
  BY <1>0, <1>1, <1>5, PollsUntouched, HalvesNext

\* Stops, the kill switch and the market do not touch the bars.
LEMMA RequestKeeps ==
  ASSUME IInv, StopLane \/ SetKillSwitch \/ ResetKillSwitch \/ ConfirmBar
  PROVE  IInv' /\ DispatchStep /\ TradeStep
<1>0. LaneFine /\ PollsFine
  BY Halves
<1>1. UNCHANGED <<last, rec, target, stalls, loaded, fed, traces>> /\ UNCHANGED poll
  BY DEF StopLane, SetKillSwitch, ResetKillSwitch, ConfirmBar, lane
<1>2. faults' = faults /\ slow' = slow /\ crashes' = crashes
  BY DEF StopLane, SetKillSwitch, ResetKillSwitch, ConfirmBar, bounds
<1>3. /\ now' \in 0 .. MaxBar /\ requests' \in 0 .. MaxRequests
      /\ state' \in {"down", "stopped", "killed", "running"}
  BY <1>0 DEF StopLane, SetKillSwitch, ResetKillSwitch, ConfirmBar, bounds, LaneFine
<1>4. LaneFine'
  BY <1>0, <1>1, <1>2, <1>3 DEF LaneFine, RecoveryHasBearings, NoProgressFailsClosed
<1>5. QED
  BY <1>0, <1>1, <1>4, PollsUntouched, HalvesNext, QuietStep

\* After a crash no poll is in flight.
LEMMA AllIdle ==
  ASSUME poll' = [p \in Pollers |-> Idle]
  PROVE  PollsFine'
BY IdleIsFine DEF PollsFine, PollsCoherent

\* A crash loses the lane, as Restart allows.
LEMMA CrashKeeps ==
  ASSUME IInv, Crash
  PROVE  IInv' /\ DispatchStep /\ TradeStep
<1>0. LaneFine
  BY Halves
<1>1. LaneFine'
  BY <1>0 DEF Crash, LaneFine, RecoveryStates, Bars, RecoveryHasBearings,
              NoProgressFailsClosed
<1>2. PollsFine'
  BY AllIdle DEF Crash
<1>3. Dispatch!Restart
  BY DEF Crash, Dispatch!Restart, Ready
<1>4. DispatchStep
  BY <1>3, Zenon DEF DispatchStep, Dispatch!Next
<1>5. TradeStep
  BY DEF Crash, TradeStep
<1>6. QED
  BY <1>1, <1>2, <1>4, <1>5, HalvesNext
-----------------------------------------------------------------------------
\* The process has not started: nothing was dispatched.
LEMMA InitIsFine == Init => IInv /\ Dispatch!Init
<1> SUFFICES ASSUME Init PROVE IInv /\ Dispatch!Init
  OBVIOUS
<1>1. LaneFine
  BY DEF Init, LaneFine, RecoveryStates, Bars, RecoveryHasBearings,
         NoProgressFailsClosed
<1>2. PollsFine
  BY IdleIsFine DEF Init, PollsFine, PollsCoherent
<1>3. Dispatch!Init
  BY DEF Init, Dispatch!Init, Ready
<1>4. QED
  BY <1>1, <1>2, <1>3, Halves

\* Fetching and planning are invisible to the indicators and to the journal.
LEMMA FetchIsQuiet ==
  ASSUME NEW p \in Pollers,
         \/ StartPoll(p) \/ FetchLatestBar(p) \/ FetchLatestConfirmedTarget(p)
         \/ FetchConfirmedRange(p) \/ FetchSlow(p) \/ PollFails(p)
  PROVE  DispatchStep /\ TradeStep
<1>1. UNCHANGED lane
  BY DEF StartPoll, FetchLatestBar, FetchLatestConfirmedTarget,
         FetchConfirmedRange, FetchSlow, PollFails
<1>2. QED
  BY <1>1, QuietStep DEF lane

\* Every step keeps the invariant, and is a step of the dispatch that trades in order.
LEMMA NextKeeps ==
  ASSUME IInv, [Next]_vars
  PROVE  IInv' /\ DispatchStep /\ TradeStep
<1>1. ASSUME NEW p \in Pollers, Poll(p)
      PROVE  IInv' /\ DispatchStep /\ TradeStep
  BY <1>1, FetchIsQuiet, StartPollKeeps, FetchBarKeeps, FetchConfirmedRangeKeeps,
     FetchSlowKeeps, PollFailsKeeps, ApplyLatestBarPlanKeeps,
     ApplyLatestConfirmedTargetPlanKeeps, ApplyRangeEarlyKeeps,
     StartRecoveryFailsKeeps, RecordRecoveryNoProgressKeeps,
     ApplyRecoveryPageKeeps, Zenon DEF Poll
<1>2. CASE StartLane \/ Boot
  BY <1>2, StartOrBootKeeps
<1>3. CASE StopLane \/ SetKillSwitch \/ ResetKillSwitch \/ ConfirmBar
  BY <1>3, RequestKeeps
<1>4. CASE Crash
  BY <1>4, CrashKeeps
<1>5. CASE UNCHANGED vars
  <2>1. UNCHANGED <<now, state, lane, faults, slow, requests, crashes>> /\ UNCHANGED poll
    BY <1>5 DEF vars, bounds
  <2>2. LaneFine' /\ PollsFine'
    BY <2>1, Halves, LaneUntouched, PollsUntouched
  <2>3. QED
    BY <2>1, <2>2, HalvesNext, QuietStep DEF lane
<1>6. QED
  BY <1>1, <1>2, <1>3, <1>4, <1>5, Zenon DEF Next

\* A simulated bar may be any bar: process_bar_for_lane moves the lane to it, but never
\* back to having none.
LEMMA SimulateBarKeeps ==
  ASSUME IInv, SimulateBar
  PROVE  IInv'
<1>0. LaneFine /\ PollsFine
  BY Halves
<1>1. PICK b \in Bars : ProcessBarForLane(b)
  BY DEF SimulateBar
<1>2. /\ UNCHANGED <<now, state, recovery, poll, slow, requests, crashes>>
      /\ rec' = rec /\ target' = target /\ stalls' = stalls
  BY DEF SimulateBar, recovery
<1>3. b \in 1 .. MaxBar
  BY DEF Bars
<1>4. PollsFine'
  BY <1>0, <1>2, PollsUntouched
<1> SUFFICES LaneFine'
  BY <1>4, HalvesNext
<1>5. CASE UNCHANGED <<last, loaded, fed, traces, faults>>
  BY <1>0, <1>2, <1>5 DEF LaneFine, RecoveryHasBearings, NoProgressFailsClosed
<1>6. CASE /\ ~Ready
           /\ last' = b /\ loaded' = loaded + 1 /\ fed' = fed \union {b}
           /\ UNCHANGED <<traces, faults>>
  <2>1. loaded' \in 0 .. RequiredBars
    BY <1>0, <1>6 DEF LaneFine, Ready
  <2>2. QED
    BY <1>0, <1>2, <1>3, <1>6, <2>1
    DEF LaneFine, RecoveryHasBearings, NoProgressFailsClosed, Bars
<1>7. CASE /\ fed' = fed \union {b} /\ loaded' = loaded
           /\ traces' = traces \union {b} /\ last' = b /\ UNCHANGED faults
  BY <1>0, <1>2, <1>3, <1>7 DEF LaneFine, RecoveryHasBearings, NoProgressFailsClosed, Bars
<1>8. CASE /\ fed' = fed \union {b} /\ loaded' = loaded
           /\ Fault /\ UNCHANGED <<traces, last>>
  BY <1>0, <1>2, <1>3, <1>8
  DEF LaneFine, Fault, RecoveryHasBearings, NoProgressFailsClosed, Bars
<1>9. QED
  BY <1>1, <1>5, <1>6, <1>7, <1>8 DEF ProcessBarForLane

-----------------------------------------------------------------------------
(***************************************************************************)
(* The invariant and what follows from it.                                 *)
(***************************************************************************)
\* Whatever the loop, the tick and the requests do in between, the lane is well
\* typed, a recovery has its bearings, stalled recoveries fail closed and a poll
\* in flight has a coherent plan and answer.
THEOREM Invariance == Spec => []IInv
<1>1. Init => IInv
  BY InitIsFine
<1>2. IInv /\ [Next]_vars => IInv'
  BY NextKeeps
<1>3. QED
  BY <1>1, <1>2, PTL DEF Spec

\* Every variable keeps its type; the warm-up never loads more bars than the
\* indicators require.
THEOREM TypeCorrect == Spec => []TypeOK
<1>1. IInv => TypeOK
  BY DEF IInv
<1>2. QED
  BY <1>1, Invariance, PTL

\* A lane that recovers always knows its last dispatched bar and its target, so
\* plan_lane_polling and apply_confirmed_range_plan never run into the errors
\* they have for a lane that lost them.
THEOREM RecoveryKeepsBearings == Spec => []RecoveryHasBearings
<1>1. IInv => RecoveryHasBearings
  BY DEF IInv
<1>2. QED
  BY <1>1, Invariance, PTL

\* The same of a lane into which bars of any time are simulated through the HTTP
\* interface: they may spoil the order of its bars, never the bearings of its recovery.
THEOREM SimulatedBarsKeepBearings == SpecWithSimulatedBars => []RecoveryHasBearings
<1>1. Init => IInv
  BY InitIsFine
<1>2. IInv /\ [Next \/ SimulateBar]_vars => IInv'
  <2>1. [Next \/ SimulateBar]_vars => [Next]_vars \/ SimulateBar
    OBVIOUS
  <2>2. QED
    BY <2>1, NextKeeps, SimulateBarKeeps
<1>3. IInv => RecoveryHasBearings
  BY DEF IInv
<1>4. QED
  BY <1>1, <1>2, <1>3, PTL DEF SpecWithSimulatedBars

\* A recovery that makes no progress is given up after MaxNoProgress empty
\* pages; only a page whose event was not journalled is an extra one.
THEOREM StalledRecoveryFailsClosed == Spec => []NoProgressFailsClosed
<1>1. IInv => NoProgressFailsClosed
  BY DEF IInv
<1>2. QED
  BY <1>1, Invariance, PTL

\* A bar is traded only by a new lane or right after the bar before it: the
\* stale checks of apply_latest_bar_plan and apply_confirmed_range_plan make up
\* for the lock that the loop does not hold while it fetches.
THEOREM NeverTradesOverAGap == Spec => TradesNextBar
<1>1. IInv /\ [Next]_vars => [TradeStep]_vars
  BY NextKeeps
<1>2. Spec => [][TradeStep]_vars
  BY <1>1, Invariance, PTL DEF Spec
<1>3. QED
  BY <1>2 DEF TradesNextBar, TradeStep

\* Polling, recovery and warm-up implement BarDispatch: the indicators see the
\* bars of the market in order, and without a gap once the lane is warm.
THEOREM Refinement == Spec => ImplementsBarDispatch
<1>1. Init => Dispatch!Init
  BY InitIsFine
<1>2. IInv /\ [Next]_vars => [Dispatch!Next]_(Dispatch!dispatch)
  BY NextKeeps DEF DispatchStep
<1>3. QED
  BY <1>1, <1>2, Invariance, PTL DEF Spec, ImplementsBarDispatch, Dispatch!Spec

-----------------------------------------------------------------------------
(* The bar builder. *)

CONSTANTS Timeframe, Times, Prices, Quantities, InOrder, MayFlush, MaxTaken

VARIABLES built, running, updates, accepted, traded, confirmed

Built == INSTANCE BarBuilder WITH bar <- built, MaxTrades <- MaxTaken

\* What BarBuilder assumes of its constants.
TradesAssumed ==
    /\ Timeframe \in Nat \ {0}
    /\ Times \subseteq Int /\ Prices \subseteq Int /\ Quantities \subseteq Int

BuiltBars == [timestamp : Int, open : Int, high : Int, low : Int, close : Int, volume : Int]

(***************************************************************************)
(* Inductive: a bar under way has a bucket and prices with low and high    *)
(* around open and close, volumes add up, and the last trade is in the     *)
(* bar's bucket.                                                           *)
(***************************************************************************)
BarInv ==
    /\ built \in BuiltBars
    /\ built # Built!NoBar =>
           /\ built.timestamp \in Built!Buckets
           /\ 0 < built.low /\ built.low <= built.open /\ built.open <= built.high
           /\ built.low <= built.close /\ built.close <= built.high

VolumeInv ==
    /\ traded \in [Built!Buckets -> Int] /\ confirmed \in [Built!Buckets -> Int]
    /\ Built!VolumeIsConserved

LastInv ==
    /\ accepted \in Seq(Built!Trades)
    /\ built # Built!NoBar => /\ accepted # <<>>
                              /\ built.timestamp = Built!Floor(Built!LastOf(accepted).time)

\* The larger and the smaller of two numbers.
LEMMA LargerPrice ==
    ASSUME NEW x \in Int, NEW y \in Int
    PROVE  Built!Max({x, y}) \in {x, y} /\ Built!Max({x, y}) >= x /\ Built!Max({x, y}) >= y
<1>1. \E z \in {x, y} : \A w \in {x, y} : z >= w
  BY x >= y \/ y >= x
<1> QED  BY <1>1 DEF Built!Max

LEMMA SmallerPrice ==
    ASSUME NEW x \in Int, NEW y \in Int
    PROVE  Built!Min({x, y}) \in {x, y} /\ Built!Min({x, y}) <= x /\ Built!Min({x, y}) <= y
<1>1. \E z \in {x, y} : \A w \in {x, y} : z <= w
  BY x <= y \/ y <= x
<1> QED  BY <1>1 DEF Built!Min

\* What a trade brings with it.
LEMMA TradeIsTyped ==
    ASSUME TradesAssumed, NEW tr \in Built!Trades
    PROVE  /\ tr.time \in Times /\ tr.time \in Int /\ tr.price \in Int /\ tr.quantity \in Int
           /\ Built!Floor(tr.time) \in Built!Buckets /\ Built!Floor(tr.time) \in Int
<1>1. tr.time \in Times /\ tr.price \in Prices /\ tr.quantity \in Quantities
  BY DEF Built!Trades
<1>2. tr.time \in Int /\ tr.price \in Int /\ tr.quantity \in Int
  BY <1>1, Zenon DEF TradesAssumed
<1>3. Built!Floor(tr.time) \in Int
  BY <1>2 DEF Built!Floor, TradesAssumed
<1> QED  BY <1>1, <1>2, <1>3 DEF Built!Buckets

\* A bar that begins with a trade.
LEMMA NewBarIsWellFormed ==
    ASSUME TradesAssumed, NEW tr \in Built!Trades, Built!Valid(tr)
    PROVE  LET b == Built!NewBar(tr)
           IN  /\ b \in BuiltBars /\ b # Built!NoBar
               /\ b.timestamp = Built!Floor(tr.time) /\ b.volume = tr.quantity
               /\ 0 < b.low /\ b.low <= b.open /\ b.open <= b.high
               /\ b.low <= b.close /\ b.close <= b.high
<1>1. tr.price \in Int /\ tr.quantity \in Int /\ Built!Floor(tr.time) \in Int /\ tr.price > 0
  BY TradeIsTyped DEF Built!Valid
<1> HIDE DEF Built!Floor
<1>2. Built!NewBar(tr).open # Built!NoBar.open
  BY <1>1 DEF Built!NewBar, Built!NoBar
<1> QED  BY <1>1, <1>2 DEF Built!NewBar, BuiltBars

\* A trade added to a bar that is well formed.
LEMMA ApplyTradeKeepsForm ==
    ASSUME TradesAssumed, NEW b \in BuiltBars, NEW tr \in Built!Trades, Built!Valid(tr),
           0 < b.low, b.low <= b.open, b.open <= b.high, b.low <= b.close, b.close <= b.high
    PROVE  LET c == Built!ApplyTrade(b, tr)
           IN  /\ c \in BuiltBars /\ c # Built!NoBar
               /\ c.timestamp = b.timestamp /\ c.volume = b.volume + tr.quantity
               /\ 0 < c.low /\ c.low <= c.open /\ c.open <= c.high
               /\ c.low <= c.close /\ c.close <= c.high
<1> DEFINE hi == Built!Max({b.high, tr.price})
           lo == Built!Min({b.low, tr.price})
<1>1. tr.price \in Int /\ tr.quantity \in Int /\ tr.price > 0
  BY TradeIsTyped DEF Built!Valid
<1>2. b.timestamp \in Int /\ b.open \in Int /\ b.high \in Int /\ b.low \in Int /\ b.volume \in Int
  BY DEF BuiltBars
<1>3. hi \in {b.high, tr.price} /\ hi >= b.high /\ hi >= tr.price
  BY <1>1, <1>2, LargerPrice, Zenon
<1>4. lo \in {b.low, tr.price} /\ lo <= b.low /\ lo <= tr.price
  BY <1>1, <1>2, SmallerPrice, Zenon
<1>5. Built!ApplyTrade(b, tr)
        = [timestamp |-> b.timestamp, open |-> b.open, high |-> hi, low |-> lo,
           close |-> tr.price, volume |-> b.volume + tr.quantity]
  BY Zenon DEF Built!ApplyTrade
<1> HIDE DEF hi, lo
<1>6. hi \in Int /\ lo \in Int /\ 0 < lo /\ lo <= b.open /\ b.open <= hi
  BY <1>1, <1>2, <1>3, <1>4, SMTT(30)
<1>7. Built!ApplyTrade(b, tr).open # Built!NoBar.open
  BY <1>2, <1>5 DEF Built!NoBar
<1> QED  BY <1>1, <1>2, <1>3, <1>4, <1>5, <1>6, <1>7 DEF BuiltBars

\* Closing a bar moves its volume from the bar to its bucket.
LEMMA ClosingConserves ==
    ASSUME VolumeInv, built \in BuiltBars, built # Built!NoBar, built.timestamp \in Built!Buckets,
           confirmed' = [confirmed EXCEPT ![built.timestamp] = @ + built.volume]
    PROVE  /\ confirmed' \in [Built!Buckets -> Int]
           /\ \A b \in Built!Buckets : traded[b] = confirmed'[b]
<1>1. built.volume \in Int
  BY DEF BuiltBars
<1>2. confirmed' \in [Built!Buckets -> Int]
  BY <1>1 DEF VolumeInv
<1>3. ASSUME NEW b \in Built!Buckets, b = built.timestamp
      PROVE  traded[b] = confirmed'[b]
  BY <1>1, <1>3 DEF VolumeInv, Built!VolumeIsConserved, Built!Building
<1>4. ASSUME NEW b \in Built!Buckets, b # built.timestamp
      PROVE  traded[b] = confirmed'[b]
  BY <1>4 DEF VolumeInv, Built!VolumeIsConserved, Built!Building
<1> QED  BY <1>2, <1>3, <1>4

\* With nothing under way, everything traded is in confirmed bars.
LEMMA EmptyConserves ==
    ASSUME VolumeInv, built = Built!NoBar
    PROVE  \A b \in Built!Buckets : traded[b] = confirmed[b]
  BY DEF VolumeInv, Built!VolumeIsConserved, Built!Building

\* A new bar with the trade's quantity, when all else is confirmed.
LEMMA OpeningConserves ==
    ASSUME TradesAssumed, NEW tr \in Built!Trades, Built!Valid(tr), built' = Built!NewBar(tr),
           traded \in [Built!Buckets -> Int], confirmed' \in [Built!Buckets -> Int],
           \A b \in Built!Buckets : traded[b] = confirmed'[b],
           traded' = [traded EXCEPT ![Built!Floor(tr.time)] = @ + tr.quantity]
    PROVE  VolumeInv'
<1>1. tr.quantity \in Int /\ Built!Floor(tr.time) \in Built!Buckets
  BY TradeIsTyped
<1>2. built' # Built!NoBar /\ built'.timestamp = Built!Floor(tr.time) /\ built'.volume = tr.quantity
  BY NewBarIsWellFormed
<1>3. traded' \in [Built!Buckets -> Int]
  BY <1>1
<1> HIDE DEF Built!Floor, Built!NewBar
<1>4. ASSUME NEW b \in Built!Buckets, b = Built!Floor(tr.time)
      PROVE  traded'[b] = confirmed'[b] + built'.volume
  BY <1>1, <1>2, <1>4
<1>5. ASSUME NEW b \in Built!Buckets, b # Built!Floor(tr.time)
      PROVE  traded'[b] = confirmed'[b] + 0
  BY <1>1, <1>5
<1> QED  BY <1>2, <1>3, <1>4, <1>5, SMTT(30) DEF VolumeInv, Built!VolumeIsConserved, Built!Building

\* A trade taken keeps the bar well formed and the volumes added up.
LEMMA PushKeepsBar ==
    ASSUME TradesAssumed, BarInv, VolumeInv, NEW tr \in Built!Trades, Built!Valid(tr),
           Built!PushTrade(tr),
           traded' = [traded EXCEPT ![Built!Floor(tr.time)] = @ + tr.quantity]
    PROVE  BarInv' /\ VolumeInv' /\ built' # Built!NoBar /\ built'.timestamp = Built!Floor(tr.time)
<1>1. tr.quantity \in Int /\ Built!Floor(tr.time) \in Built!Buckets
  BY TradeIsTyped
<1>2. traded \in [Built!Buckets -> Int] /\ confirmed \in [Built!Buckets -> Int]
  BY DEF VolumeInv
<1>3. ASSUME built' = Built!NewBar(tr)
      PROVE  BarInv' /\ built' # Built!NoBar /\ built'.timestamp = Built!Floor(tr.time)
  <2>1. /\ built' \in BuiltBars /\ built' # Built!NoBar
        /\ built'.timestamp = Built!Floor(tr.time)
        /\ 0 < built'.low /\ built'.low <= built'.open /\ built'.open <= built'.high
        /\ built'.low <= built'.close /\ built'.close <= built'.high
    BY <1>3, NewBarIsWellFormed, Zenon
  <2> HIDE DEF Built!Floor
  <2> QED  BY <1>1, <2>1, Zenon DEF BarInv
<1>4. CASE /\ Built!Building(Built!Floor(tr.time)) /\ built' = Built!ApplyTrade(built, tr)
           /\ UNCHANGED confirmed
  <2>1. /\ built' \in BuiltBars /\ built' # Built!NoBar
        /\ built'.timestamp = built.timestamp /\ built'.volume = built.volume + tr.quantity
        /\ 0 < built'.low /\ built'.low <= built'.open /\ built'.open <= built'.high
        /\ built'.low <= built'.close /\ built'.close <= built'.high
    BY <1>4, ApplyTradeKeepsForm, Zenon DEF BarInv, Built!Building
  <2>2. built # Built!NoBar /\ built.timestamp = Built!Floor(tr.time) /\ built.volume \in Int
    BY <1>4 DEF Built!Building, BarInv, BuiltBars
  <2> HIDE DEF Built!Floor
  <2>3. BarInv'
    BY <1>1, <2>1, <2>2, Zenon DEF BarInv
  <2>4. traded' \in [Built!Buckets -> Int] /\ confirmed' \in [Built!Buckets -> Int]
    BY <1>1, <1>2, <1>4
  <2>5. ASSUME NEW b \in Built!Buckets, b = Built!Floor(tr.time)
        PROVE  traded'[b] = confirmed'[b] + built'.volume
    BY <1>1, <1>2, <1>4, <2>1, <2>2, <2>5, SMTT(30)
       DEF VolumeInv, Built!VolumeIsConserved, Built!Building
  <2>6. ASSUME NEW b \in Built!Buckets, b # Built!Floor(tr.time)
        PROVE  traded'[b] = confirmed'[b] + 0
    <3>1. traded[b] = confirmed[b] + 0
      BY <2>2, <2>6, Zenon DEF VolumeInv, Built!VolumeIsConserved, Built!Building
    <3>2. traded'[b] = traded[b] /\ confirmed'[b] = confirmed[b]
      BY <1>1, <1>2, <1>4, <2>6
    <3> QED  BY <3>1, <3>2, Zenon
  <2>7. VolumeInv'
    BY <2>1, <2>2, <2>4, <2>5, <2>6, SMTT(30) DEF VolumeInv, Built!VolumeIsConserved, Built!Building
  <2> QED  BY <2>1, <2>2, <2>3, <2>7, Zenon
<1>5. CASE built = Built!NoBar /\ built' = Built!NewBar(tr) /\ UNCHANGED confirmed
  <2>1. \A b \in Built!Buckets : traded[b] = confirmed'[b]
    BY <1>5, EmptyConserves
  <2> QED  BY <1>2, <1>3, <1>5, <2>1, OpeningConserves, Zenon
<1>6. CASE /\ built # Built!NoBar /\ built' = Built!NewBar(tr)
           /\ confirmed' = [confirmed EXCEPT ![built.timestamp] = @ + built.volume]
  <2>1. confirmed' \in [Built!Buckets -> Int] /\ \A b \in Built!Buckets : traded[b] = confirmed'[b]
    BY <1>6, ClosingConserves DEF BarInv
  <2> QED  BY <1>2, <1>3, <1>6, <2>1, OpeningConserves, Zenon
<1> QED  BY <1>4, <1>5, <1>6, ZenonT(30) DEF Built!PushTrade

\* The invariant holds at first and every step keeps it.
LEMMA BuiltInit == Built!Init => BarInv /\ VolumeInv /\ LastInv
  BY DEF Built!Init, BarInv, VolumeInv, LastInv, Built!VolumeIsConserved, Built!Building,
         BuiltBars, Built!NoBar

LEMMA BuiltNext ==
    TradesAssumed /\ BarInv /\ VolumeInv /\ LastInv /\ [Built!Next]_Built!vars
        => BarInv' /\ VolumeInv' /\ LastInv'
<1> SUFFICES ASSUME TradesAssumed, BarInv, VolumeInv, LastInv, [Built!Next]_Built!vars
             PROVE  BarInv' /\ VolumeInv' /\ LastInv'
  OBVIOUS
<1>1. ASSUME NEW tr \in Built!Trades, Built!ProcessTrade(tr)
      PROVE  BarInv' /\ VolumeInv' /\ LastInv'
  <2>1. BarInv' /\ VolumeInv' /\ built' # Built!NoBar /\ built'.timestamp = Built!Floor(tr.time)
    BY <1>1, PushKeepsBar, Zenon DEF Built!ProcessTrade
  <2>2. accepted' = Append(accepted, tr) /\ accepted \in Seq(Built!Trades)
    BY <1>1 DEF Built!ProcessTrade, LastInv
  <2>3. accepted' \in Seq(Built!Trades) /\ accepted' # <<>> /\ Built!LastOf(accepted') = tr
    BY <2>2 DEF Built!LastOf
  <2> QED  BY <2>1, <2>3, SMTT(30) DEF LastInv
<1>2. ASSUME UNCHANGED <<built, accepted, traded, confirmed>>
      PROVE  BarInv' /\ VolumeInv' /\ LastInv'
  BY <1>2 DEF BarInv, VolumeInv, Built!VolumeIsConserved, Built!Building, LastInv
<1>3. CASE Built!Flush
  <2>1. built # Built!NoBar /\ built' = Built!NoBar /\ traded' = traded /\ accepted' = accepted
    BY <1>3 DEF Built!Flush
  <2>2. confirmed' \in [Built!Buckets -> Int] /\ \A b \in Built!Buckets : traded[b] = confirmed'[b]
    BY <1>3, <2>1, ClosingConserves DEF Built!Flush, BarInv
  <2>3. BarInv' /\ LastInv'
    BY <2>1 DEF BarInv, LastInv, BuiltBars, Built!NoBar
  <2>4. VolumeInv'
    BY <2>1, <2>2 DEF VolumeInv, Built!VolumeIsConserved, Built!Building
  <2> QED  BY <2>3, <2>4
<1>4. CASE \E tr \in Built!Trades : Built!RejectTrade(tr)
  BY <1>2, <1>4 DEF Built!RejectTrade
<1>5. CASE Built!PauseOrResume
  BY <1>2, <1>5 DEF Built!PauseOrResume
<1>6. CASE UNCHANGED Built!vars
  BY <1>2, <1>6 DEF Built!vars
<1> QED  BY <1>1, <1>3, <1>4, <1>5, <1>6, SMTT(30) DEF Built!Next

LEMMA BarInvariant ==
    TradesAssumed => (Built!Spec => [](BarInv /\ VolumeInv /\ LastInv))
<1> SUFFICES ASSUME TradesAssumed PROVE Built!Spec => [](BarInv /\ VolumeInv /\ LastInv)
  OBVIOUS
<1> DEFINE Inv == BarInv /\ VolumeInv /\ LastInv
<1>1. Built!Init => Inv
  BY BuiltInit
<1>2. Inv /\ [Built!Next]_Built!vars => Inv'
  BY BuiltNext
<1> QED  BY <1>1, <1>2, PTL DEF Built!Spec

(***************************************************************************)
(* The bar builder neither loses a trade nor counts it twice, in whatever  *)
(* order trades arrive (push_trade, flush_confirmed).                      *)
(***************************************************************************)
THEOREM VolumeConserved == TradesAssumed => (Built!Spec => []Built!VolumeIsConserved)
<1> SUFFICES ASSUME TradesAssumed PROVE Built!Spec => []Built!VolumeIsConserved
  OBVIOUS
<1>0. Built!Spec => [](BarInv /\ VolumeInv /\ LastInv)
  BY BarInvariant
<1>1. VolumeInv => Built!VolumeIsConserved
  BY DEF VolumeInv
<1> QED  BY <1>0, <1>1, PTL

(***************************************************************************)
(* The bar under way has low and high around open and close, and covers    *)
(* the time of the last trade (apply_trade_to_bar, floor_to_timeframe).    *)
(***************************************************************************)
THEOREM BarsWellFormed == TradesAssumed => (Built!Spec => []Built!BarsAreWellFormed)
<1> SUFFICES ASSUME TradesAssumed PROVE Built!Spec => []Built!BarsAreWellFormed
  OBVIOUS
<1>0. Built!Spec => [](BarInv /\ VolumeInv /\ LastInv)
  BY BarInvariant
<1>1. BarInv /\ LastInv => Built!BarsAreWellFormed
  <2> SUFFICES ASSUME BarInv, LastInv, built # Built!NoBar
               PROVE  /\ 0 < built.low
                      /\ {built.open, built.close} \subseteq built.low .. built.high
                      /\ Built!LastOf(accepted).time
                           \in built.timestamp .. built.timestamp + Timeframe - 1
    BY DEF Built!BarsAreWellFormed
  <2>1. 0 < built.low /\ {built.open, built.close} \subseteq built.low .. built.high
    BY DEF BarInv, BuiltBars
  <2>2. /\ Built!LastOf(accepted) \in Built!Trades
        /\ built.timestamp = Built!Floor(Built!LastOf(accepted).time)
    BY DEF LastInv, Built!LastOf
  <2>3. Built!LastOf(accepted).time \in Int
    BY <2>2, TradeIsTyped
  <2>4. \A t \in Int : t \in Built!Floor(t) .. Built!Floor(t) + Timeframe - 1
    BY DEF Built!Floor, TradesAssumed
  <2> QED  BY <2>1, <2>2, <2>3, <2>4
<1> QED  BY <1>0, <1>1, PTL

=============================================================================
