---------------------------- MODULE LanePolling ----------------------------
(***************************************************************************)
(* Polling, recovery and warm-up of one lane.                              *)
(*                                                                         *)
(* Two pollers walk the same plans: the background loop, which plans under *)
(* the read lock, fetches with no lock and applies the answer under the    *)
(* write lock, and the HTTP tick, which holds the write lock throughout.   *)
(* Between the loop's plan and its apply the lane may be polled by a tick, *)
(* stopped, started again (which seeds it) or killed.                      *)
(*                                                                         *)
(* A confirmed bar is its position in the market's history, 0 stands for   *)
(* None.  What a cycle does with a bar is the subject of LaneCycle; here   *)
(* it either completes and leaves a trace, or fails after the indicators   *)
(* have evaluated the bar.                                                 *)
(***************************************************************************)
EXTENDS Integers, FiniteSetsExt

CONSTANTS
    MaxBar,         \* bound: bars the market confirms
    RequiredBars,   \* warm-up length of the lane's indicators
    PageLimit,      \* RECOVERY_PAGE_LIMIT
    MaxPages,       \* MAX_RECOVERY_PAGES_PER_CYCLE
    MaxNoProgress,  \* MAX_RECOVERY_NO_PROGRESS_CYCLES
    MaxFaults,      \* bound: failed fetches, cycles and journal writes
    MaxSlow,        \* bound: incomplete or malformed answers of the provider
    MaxRequests,    \* bound: stops, kill switches, starts of a running lane
    MaxCrashes      \* bound: crashes of the process

ASSUME PollingAssumption ==
    /\ {MaxBar, RequiredBars, MaxPages, MaxNoProgress} \subseteq Nat
    /\ {MaxFaults, MaxSlow, MaxRequests, MaxCrashes} \subseteq Nat
    /\ PageLimit \in Nat /\ PageLimit >= 2
    /\ MaxNoProgress >= 1

VARIABLES
    now,      \* newest bar the provider has confirmed
    state,    \* of the lane: down (no process), stopped, killed or running
    last,     \* last_dispatched_bar_timestamp
    rec,      \* recovery_state
    target,   \* recovery_target_timestamp
    stalls,   \* recovery_consecutive_no_progress_cycles
    loaded,   \* warmup.loaded_bars
    poll,     \* what each poller is doing
    traces,   \* bars with a cycle trace in the journal
    fed,      \* history: bars the indicators evaluated in this process
    faults, slow, requests, crashes

recovery == <<rec, target, stalls>>
lane == <<last, rec, target, stalls, loaded, fed, traces>>
bounds == <<faults, slow, requests, crashes>>
vars == <<now, state, lane, poll, bounds>>

Bars == 1 .. MaxBar
Pollers == {"loop", "tick"}
RecoveryStates == {"Healthy", "CatchingUp", "OutOfSync"}

NoPlan == [kind |-> "none", last |-> 0, rec |-> "Healthy", target |-> 0,
           start |-> FALSE, shortcut |-> FALSE]
NoAnswer == [bar |-> 0, valid |-> TRUE, exhausted |-> FALSE]
Idle == [pc |-> "idle", plan |-> NoPlan, answer |-> NoAnswer, pages |-> 0]

LatestBar(mode, expected) == [NoPlan EXCEPT !.kind = mode, !.last = expected]
LatestConfirmedTarget(l, r) ==
    [NoPlan EXCEPT !.kind = "target", !.last = l, !.rec = r]
ConfirmedRange(after, to, start, shortcut) ==
    [NoPlan EXCEPT !.kind = "range", !.last = after, !.target = to,
                   !.start = start, !.shortcut = shortcut]

Ready == loaded >= RequiredBars

\* The tick keeps the runtime's write lock while it polls.
LockFree == state # "down" /\ poll["tick"].pc = "idle"
HasLock(p) == p = "tick" \/ LockFree

Fault == faults < MaxFaults /\ faults' = faults + 1

Init ==
    /\ now \in 0 .. MaxBar
    /\ state = "down"
    /\ last = 0 /\ rec = "Healthy" /\ target = 0 /\ stalls = 0 /\ loaded = 0
    /\ poll = [p \in Pollers |-> Idle]
    /\ traces \in SUBSET (1 .. now)
    /\ fed = {}
    /\ faults = 0 /\ slow = 0 /\ requests = 0 /\ crashes = 0
-----------------------------------------------------------------------------
(***************************************************************************)
(* Planning and fetching.                                                  *)
(***************************************************************************)
\* plan_lane_polling
PlanLanePolling ==
    CASE rec = "CatchingUp" -> ConfirmedRange(last, target, FALSE, FALSE)
      [] rec # "CatchingUp" /\ last = 0 -> LatestBar("bootstrap", 0)
      [] OTHER -> LatestConfirmedTarget(last, rec)

\* lane_polling_context refuses a lane that is not running, or that is
\* catching up without a target.
StartPoll(p) ==
    /\ poll[p].pc = "idle"
    /\ LockFree
    /\ state = "running"
    /\ rec = "CatchingUp" => target # 0
    /\ poll' = [poll EXCEPT ![p] = [Idle EXCEPT !.pc = "fetch",
                                                !.plan = PlanLanePolling]]
    /\ UNCHANGED <<now, state, lane, bounds>>

Finish(p) == poll' = [poll EXCEPT ![p] = Idle]

\* The loop over plans stops when the pages of this poll are used up.
Continue(p, plan) ==
    LET pages == poll[p].pages + (IF poll[p].plan.kind = "range" THEN 1 ELSE 0)
    IN  IF plan.kind = "range" /\ pages >= Max({MaxPages, 1})
        THEN Finish(p)
        ELSE poll' = [poll EXCEPT ![p] = [pc |-> "fetch", plan |-> plan,
                                          answer |-> NoAnswer, pages |-> pages]]

Receive(p, answer) ==
    poll' = [poll EXCEPT ![p].pc = "apply", ![p].answer = answer]

Fetching(p, kinds) == poll[p].pc = "fetch" /\ poll[p].plan.kind \in kinds

\* The newest confirmed bar; none yet is an error of fetch_latest_bar.
FetchLatestBar(p) ==
    /\ Fetching(p, {"bootstrap", "duplicate"})
    /\ IF now = 0 THEN Finish(p) ELSE Receive(p, [NoAnswer EXCEPT !.bar = now])
    /\ UNCHANGED <<now, state, lane, bounds>>

FetchLatestConfirmedTarget(p) ==
    /\ Fetching(p, {"target"})
    /\ Receive(p, [NoAnswer EXCEPT !.bar = now])
    /\ UNCHANGED <<now, state, lane, bounds>>

\* A page holds the bars after plan.last up to answer.bar.
PageEnd(plan) ==
    IF plan.last >= plan.target THEN plan.last
    ELSE Min({plan.target, plan.last + PageLimit})

FetchConfirmedRange(p) ==
    LET plan == poll[p].plan
        end == PageEnd(plan)
    IN  /\ Fetching(p, {"range"})
        /\ Receive(p, [bar |-> end, valid |-> TRUE,
                       exhausted |-> end >= plan.target \/ end - plan.last < PageLimit])
        /\ UNCHANGED <<now, state, lane, bounds>>

\* A provider that lags behind itself: an older newest bar, a page that stops
\* short, exhausted or not, or one that is out of order or beyond the target.
FetchSlow(p) ==
    LET plan == poll[p].plan
    IN  /\ slow < MaxSlow /\ slow' = slow + 1
        /\ \/ /\ Fetching(p, {"target"})
              /\ \E b \in 0 .. now : Receive(p, [NoAnswer EXCEPT !.bar = b])
           \/ /\ Fetching(p, {"range"})
              /\ \E b \in plan.last .. PageEnd(plan), e \in BOOLEAN :
                    Receive(p, [bar |-> b, valid |-> TRUE, exhausted |-> e])
           \/ /\ Fetching(p, {"range"})
              /\ Receive(p, [NoAnswer EXCEPT !.valid = FALSE])
        /\ UNCHANGED <<now, state, lane, faults, requests, crashes>>

\* A failed fetch, or a failed write of the events it left for the journal,
\* ends the poll with nothing applied.
PollFails(p) ==
    /\ poll[p].pc # "idle"
    /\ poll[p].pc = "apply" => HasLock(p)
    /\ Fault
    /\ Finish(p)
    /\ UNCHANGED <<now, state, lane, slow, requests, crashes>>
-----------------------------------------------------------------------------
(***************************************************************************)
(* Applying an answer, under the write lock.                               *)
(***************************************************************************)
\* process_bar_for_lane: a traced bar is a duplicate; a lane that is not warm
\* is only seeded; one that is recovering or not running is left alone.
ProcessBarForLane(b) ==
    \/ /\ b \in traces \/ state = "killed"
       /\ UNCHANGED <<last, loaded, fed, traces, faults>>
    \/ /\ b \notin traces /\ state # "killed" /\ ~Ready
       /\ IF b > last
          THEN last' = b /\ loaded' = loaded + 1 /\ fed' = fed \union {b}
          ELSE UNCHANGED <<last, loaded, fed>>
       /\ UNCHANGED <<traces, faults>>
    \/ /\ b \notin traces /\ state # "killed" /\ Ready
       /\ rec # "Healthy" \/ state # "running"
       /\ UNCHANGED <<last, loaded, fed, traces, faults>>
    \/ /\ b \notin traces /\ Ready
       /\ rec = "Healthy" /\ state = "running"
       /\ fed' = fed \union {b}
       /\ \/ traces' = traces \union {b} /\ last' = b /\ UNCHANGED faults
          \/ Fault /\ UNCHANGED <<traces, last>>  \* a later stage failed
       /\ UNCHANGED loaded

\* replay_confirmed_bar_for_lane in the mode LiveConfirmedTradable
ReplayTradable(b) ==
    IF last >= b THEN UNCHANGED <<last, loaded, fed, traces, faults>>
                 ELSE ProcessBarForLane(b)

Applying(p, kinds) ==
    /\ poll[p].pc = "apply"
    /\ poll[p].plan.kind \in kinds
    /\ HasLock(p)

\* Mutant: a latest bar is applied whatever happened since it was planned.
LatestBarNeverStale(plan) == FALSE

\* The lane has moved since the plan was made.
LatestBarIsStale(plan) == last # plan.last
TargetIsStale(plan) == last # plan.last \/ rec # plan.rec

RangeIsStale(plan) == last # plan.last

\* apply_latest_bar_plan; a duplicate is only recorded in the dataplane.
ApplyLatestBarPlan(p) ==
    LET plan == poll[p].plan
    IN  /\ Applying(p, {"bootstrap", "duplicate"})
        /\ Finish(p)
        /\ IF LatestBarIsStale(plan) \/ plan.kind = "duplicate"
           THEN UNCHANGED <<last, loaded, fed, traces, faults>>
           ELSE ReplayTradable(poll[p].answer.bar)
        /\ UNCHANGED <<now, state, recovery, slow, requests, crashes>>

\* Mutant: the recovery's bookkeeping is reset but not its state.
CompleteKeepsState ==
    UNCHANGED rec /\ target' = 0 /\ stalls' = 0

\* complete_lane_recovery_state
CompleteLaneRecovery ==
    rec' = "Healthy" /\ target' = 0 /\ stalls' = 0

\* apply_latest_confirmed_target_plan.  Whether the event of a completed
\* recovery is written decides if the poll goes on.
ApplyLatestConfirmedTargetPlan(p) ==
    LET plan == poll[p].plan
        newest == poll[p].answer.bar
    IN  /\ Applying(p, {"target"})
        /\ \/ /\ TargetIsStale(plan) \/ newest = 0
              /\ Finish(p)
              /\ UNCHANGED <<recovery, faults>>
           \/ /\ ~TargetIsStale(plan) /\ newest # 0 /\ newest <= plan.last
              /\ IF plan.rec = "Healthy" THEN UNCHANGED recovery
                                         ELSE CompleteLaneRecovery
              /\ \/ Continue(p, LatestBar("duplicate", plan.last)) /\ UNCHANGED faults
                 \/ plan.rec # "Healthy" /\ Fault /\ Finish(p)
           \/ /\ ~TargetIsStale(plan) /\ newest > plan.last
              /\ Continue(p, ConfirmedRange(plan.last, newest, TRUE,
                                            plan.rec = "Healthy"))
              /\ UNCHANGED <<recovery, faults>>
        /\ UNCHANGED <<now, state, last, loaded, fed, traces, slow, requests, crashes>>

\* Mutant: the target does not fall back to the last dispatched bar.
MarkWithoutFallback(t, l) ==
    rec' = "OutOfSync" /\ target' = t

\* mark_lane_out_of_sync_state: t is the recovery target before it, l the
\* last dispatched bar.
MarkLaneOutOfSync(t, l) ==
    rec' = "OutOfSync" /\ target' = IF t = 0 THEN l ELSE t

\* validate_recovery_bars: in order, after the last dispatched bar, up to the
\* target.
ValidPage(plan, page) == page.valid /\ (page.bar > plan.last => plan.last >= last)

\* apply_confirmed_range_plan, up to the shortcut for a single new bar.
TakesShortcut(plan, page) ==
    /\ plan.shortcut
    /\ page.exhausted
    /\ page.bar = plan.last + 1
    /\ page.bar = plan.target

ApplyRangeEarly(p) ==
    LET plan == poll[p].plan
        page == poll[p].answer
    IN  /\ Applying(p, {"range"})
        /\ Finish(p)
        /\ \/ /\ RangeIsStale(plan)
              /\ UNCHANGED <<recovery, last, loaded, fed, traces, faults>>
           \/ /\ ~RangeIsStale(plan) /\ (last = 0 \/ ~ValidPage(plan, page))
              /\ MarkLaneOutOfSync(target, last)
              /\ UNCHANGED <<stalls, last, loaded, fed, traces, faults>>
           \/ /\ ~RangeIsStale(plan) /\ last # 0 /\ ValidPage(plan, page)
              /\ TakesShortcut(plan, page)
              /\ ReplayTradable(page.bar)
              /\ UNCHANGED recovery
        /\ UNCHANGED <<now, state, slow, requests, crashes>>

\* The rest of apply_confirmed_range_plan: the recovery starts if the plan says
\* so, and a page of bars is fed to the indicators without trading.
RecoveryPage(p) ==
    /\ Applying(p, {"range"})
    /\ ~RangeIsStale(poll[p].plan) /\ last # 0
    /\ ValidPage(poll[p].plan, poll[p].answer)
    /\ ~TakesShortcut(poll[p].plan, poll[p].answer)
    /\ UNCHANGED <<now, state, loaded, traces, slow, requests, crashes>>

RecAfterStart(plan) == IF plan.start THEN "CatchingUp" ELSE rec
TargetAfterStart(plan) == IF plan.start THEN plan.target ELSE target
StallsAfterStart(plan) == IF plan.start THEN 0 ELSE stalls

\* start_lane_recovery changes the lane, then fails to write its event.
StartRecoveryFails(p) ==
    LET plan == poll[p].plan
    IN  /\ RecoveryPage(p)
        /\ plan.start
        /\ rec' = "CatchingUp" /\ target' = plan.target /\ stalls' = 0
        /\ Fault /\ Finish(p)
        /\ UNCHANGED <<last, fed>>

\* record_recovery_no_progress_state: should_fail
GivesUp(page, cycles) == page.exhausted \/ cycles >= MaxNoProgress

\* record_recovery_no_progress; its event is written before the lane is marked.
RecordRecoveryNoProgress(p) ==
    LET plan == poll[p].plan
        page == poll[p].answer
        cycles == StallsAfterStart(plan) + 1
    IN  /\ RecoveryPage(p)
        /\ page.bar = plan.last
        /\ stalls' = cycles
        /\ Finish(p)
        /\ \/ /\ GivesUp(page, cycles)
              /\ MarkLaneOutOfSync(TargetAfterStart(plan), last)
              /\ UNCHANGED faults
           \/ /\ rec' = RecAfterStart(plan) /\ target' = TargetAfterStart(plan)
              /\ \/ Fault
                 \/ ~GivesUp(page, cycles) /\ UNCHANGED faults
        /\ UNCHANGED <<last, fed>>

\* apply_recovery_page, its event, and what becomes of the recovery.
ApplyRecoveryPage(p) ==
    LET plan == poll[p].plan
        page == poll[p].answer
        t == TargetAfterStart(plan)
    IN  /\ RecoveryPage(p)
        /\ page.bar > plan.last
        /\ last' = page.bar
        /\ fed' = fed \union (plan.last + 1 .. page.bar)
        /\ stalls' = 0
        /\ \/ /\ page.bar >= plan.target
              /\ rec' = "Healthy" /\ target' = 0
              /\ Finish(p) /\ UNCHANGED faults
           \/ /\ page.bar < plan.target /\ page.exhausted
              /\ MarkLaneOutOfSync(t, page.bar)
              /\ Finish(p) /\ UNCHANGED faults
           \/ /\ page.bar < plan.target /\ ~page.exhausted
              /\ rec' = RecAfterStart(plan) /\ target' = t
              /\ Continue(p, ConfirmedRange(page.bar, plan.target, FALSE, FALSE))
              /\ UNCHANGED faults
           \/ /\ rec' = RecAfterStart(plan) /\ target' = t
              /\ Fault /\ Finish(p)
-----------------------------------------------------------------------------
(***************************************************************************)
(* Warm-up, requests, the market and the process.                          *)
(***************************************************************************)
\* Mutant: bars up to the last dispatched one are not skipped.
BackfillFromHistory == Max({0, now - RequiredBars}) + 1

\* attempt_lane_warmup_backfill fetches the RequiredBars newest bars and
\* applies those after last, until the lane is warm.
BackfillStart == Max({last, now - RequiredBars}) + 1

BackfillEnd == Min({now, BackfillStart + RequiredBars - loaded - 1})

SeedUpTo(b) ==
    /\ last' = b
    /\ fed' = fed \union (BackfillStart .. b)
    /\ loaded' = loaded + b - BackfillStart + 1

NothingSeeded == UNCHANGED <<last, fed, loaded>>

Backfill ==
    IF Ready \/ BackfillStart > BackfillEnd THEN NothingSeeded
                                            ELSE SeedUpTo(BackfillEnd)

\* The event of some bar cannot be written: the bars so far stay applied.
BackfillFails ==
    /\ ~Ready
    /\ Fault
    /\ \/ NothingSeeded
       \/ \E b \in BackfillStart .. BackfillEnd : SeedUpTo(b)

\* start_instance or resume_instance: seed the lane, then let it run, which it
\* may do already.  The history may be unavailable, which does not keep the
\* lane from starting.
StartLane ==
    /\ LockFree
    /\ \/ state = "stopped" /\ UNCHANGED requests
       \/ state = "running" /\ requests < MaxRequests /\ requests' = requests + 1
    /\ \/ Backfill /\ state' = "running" /\ UNCHANGED faults
       \/ NothingSeeded /\ ~Ready /\ Fault /\ state' = "running"
       \/ BackfillFails /\ UNCHANGED state
    /\ UNCHANGED <<now, recovery, traces, poll, slow, crashes>>

StopLane ==
    /\ state = "running" /\ LockFree
    /\ requests < MaxRequests /\ requests' = requests + 1
    /\ state' = "stopped"
    /\ UNCHANGED <<now, lane, poll, faults, slow, crashes>>

SetKillSwitch ==
    /\ state \in {"running", "stopped"} /\ LockFree
    /\ requests < MaxRequests /\ requests' = requests + 1
    /\ state' = "killed"
    /\ UNCHANGED <<now, lane, poll, faults, slow, crashes>>

ResetKillSwitch ==
    /\ state = "killed" /\ LockFree
    /\ state' = "stopped"
    /\ UNCHANGED <<now, lane, poll, bounds>>

\* from_config_with_journal: run_startup_warmup ignores failures, and a lane
\* may have been running.
Boot ==
    /\ state = "down"
    /\ state' \in {"stopped", "running"}
    /\ \/ Backfill /\ UNCHANGED faults
       \/ BackfillFails
    /\ UNCHANGED <<now, recovery, traces, poll, slow, requests, crashes>>

Crash ==
    /\ state # "down"
    /\ crashes < MaxCrashes /\ crashes' = crashes + 1
    /\ state' = "down"
    /\ last' = 0 /\ rec' = "Healthy" /\ target' = 0 /\ stalls' = 0 /\ loaded' = 0
    /\ fed' = {}
    /\ poll' = [p \in Pollers |-> Idle]
    /\ UNCHANGED <<now, traces, faults, slow, requests>>

ConfirmBar ==
    /\ now < MaxBar
    /\ now' = now + 1
    /\ UNCHANGED <<state, lane, poll, bounds>>

\* The HTTP interface can push a bar of any time at a lane.
SimulateBar ==
    /\ LockFree
    /\ \E b \in Bars : ProcessBarForLane(b)
    /\ UNCHANGED <<now, state, recovery, poll, slow, requests, crashes>>
-----------------------------------------------------------------------------
Poll(p) ==
    \/ StartPoll(p)
    \/ FetchLatestBar(p)
    \/ FetchLatestConfirmedTarget(p)
    \/ FetchConfirmedRange(p)
    \/ FetchSlow(p)
    \/ PollFails(p)
    \/ ApplyLatestBarPlan(p)
    \/ ApplyLatestConfirmedTargetPlan(p)
    \/ ApplyRangeEarly(p)
    \/ StartRecoveryFails(p)
    \/ RecordRecoveryNoProgress(p)
    \/ ApplyRecoveryPage(p)

Next ==
    \/ \E p \in Pollers : Poll(p)
    \/ StartLane
    \/ StopLane
    \/ SetKillSwitch
    \/ ResetKillSwitch
    \/ Boot
    \/ Crash
    \/ ConfirmBar

\* The loop polls as long as it runs, and a tick that was begun ends: fetches
\* have timeouts.  Nothing else has to happen.
Fairness ==
    /\ WF_vars(Poll("loop"))
    /\ WF_vars(Poll("tick") /\ poll["tick"].pc # "idle")

Spec == Init /\ [][Next]_vars
FairSpec == Spec /\ Fairness

\* The same with bars simulated through the HTTP interface.
SpecWithSimulatedBars == Init /\ [][Next \/ SimulateBar]_vars
-----------------------------------------------------------------------------
(***************************************************************************)
(* Properties.                                                             *)
(***************************************************************************)
Plans == [kind : {"none", "bootstrap", "duplicate", "target", "range"},
          last : 0 .. MaxBar, rec : RecoveryStates, target : 0 .. MaxBar,
          start : BOOLEAN, shortcut : BOOLEAN]
Answers == [bar : 0 .. MaxBar, valid : BOOLEAN, exhausted : BOOLEAN]
Polls == [pc : {"idle", "fetch", "apply"}, plan : Plans, answer : Answers,
          pages : Nat]

\* Every variable has its type: bars are bars of the market.
TypeOK ==
    /\ now \in 0 .. MaxBar
    /\ state \in {"down", "stopped", "killed", "running"}
    /\ last \in 0 .. MaxBar /\ target \in 0 .. MaxBar
    /\ rec \in RecoveryStates
    /\ stalls \in Nat /\ loaded \in 0 .. RequiredBars
    /\ traces \subseteq Bars /\ fed \subseteq Bars
    /\ poll \in [Pollers -> Polls]
    /\ faults \in 0 .. MaxFaults /\ slow \in 0 .. MaxSlow
    /\ requests \in 0 .. MaxRequests /\ crashes \in 0 .. MaxCrashes

\* A recovering lane knows where it is and, while it catches up, where it is
\* going: the errors "entered recovery without a target timestamp" and
\* "recovery lost the authoritative last dispatched timestamp" never happen,
\* whatever another poller did between a plan and its application.
RecoveryHasBearings ==
    rec # "Healthy" => last # 0 /\ target # 0

\* Recovery without progress fails closed: a lane still catching up has had
\* fewer than MaxNoProgress empty pages in a row, except for those whose event
\* could not be journalled.
NoProgressFailsClosed ==
    rec = "CatchingUp" => stalls < MaxNoProgress + faults

\* A lane trades a bar (a new cycle trace) only when it has dispatched the bar
\* before it, or is new: never over a gap, however long the loop's plan waited
\* and whoever else polled, stopped or seeded the lane meanwhile.
TradesNextBar ==
    [][\A b \in traces' \ traces : last = 0 \/ b = last + 1]_vars

\* The contract of SmaCrossoverIndicator::update and its siblings: the bars that
\* reach the indicators of a lane never go back in time.
BarsInOrder ==
    [][\A b \in fed' \ fed : \A c \in fed : c <= b]_vars

\* A lane goes out of sync only when the provider or the journal let it down or
\* it was started again (the backfill may pass the target of a recovery): two
\* pollers that get in each other's way are no reason.
OutOfSyncHasCause == rec = "OutOfSync" => slow + faults + requests > 0

\* Indicators see the bars in order and without a gap, as BarDispatch says.
Dispatch == INSTANCE BarDispatch WITH head <- last, seen <- fed, warm <- Ready
ImplementsBarDispatch == Dispatch!Spec

\* A lane that keeps running ends up healthy at the newest bar once the market
\* is quiet, from any recovery, page limit or stale plan.  The exception is a
\* lane that restarted with incomplete history just before a bar it had traded
\* already: the duplicate is not dispatched, so it waits for the next bar.
CatchesUp ==
    <>[](state = "running")
        => <>[](/\ rec = "Healthy"
                /\ last = now \/ (now \in traces /\ last \in {0, now - 1}))
=============================================================================
