----------------------------- MODULE SignalPath -----------------------------
(***************************************************************************)
(* From the bars of the market to the trade intents of one lane: warm-up,  *)
(* live bars, recovery, previews, manual signals and restarts feed or copy *)
(* the state of the lane's indicators, and the strategy decides on their   *)
(* signals.  Which polls lead to these steps is the subject of             *)
(* LanePolling, what becomes of an intent that of LaneCycle; here an       *)
(* intent is either executed or not.                                       *)
(***************************************************************************)
EXTENDS Integers, Sequences, FiniteSetsExt, SequencesExt, Indicators, Strategies

CONSTANTS Configured,    \* the enabled indicators of the bot, a sequence
          Strategy,      \* "single" or "consensus"
          SignalMode,    \* "Intrabar" or "ConfirmedOnly"
          Required,      \* required_warmup_bars
          Closes,        \* closing prices
          MaxBars,       \* bound: confirmed bars of the market
          MaxTraces,     \* bound: traces of the newest bar and the one in progress
          MaxFailures,   \* bound: cycles that fail after the evaluation
          MaxRestarts    \* bound: restarts of the process

\* The indicators pass their checks, and the warm-up target exceeds the windows, as
\* the recommended 200 bars do.
ConstantsOK ==
    \A k \in DOMAIN Configured :
        /\ ValidIndicator(Configured[k])
        /\ Configured[k].type = "sma_crossover" => Configured[k].slow < Required

VARIABLES market,       \* closes of the confirmed bars so far
          engines,      \* the state of each indicator
          last,         \* last_dispatched_bar_timestamp, 0 for none
          loaded,       \* warmup.loaded_bars
          hasPosition,
          traces,       \* traces of the newest bar and of the bar in progress
          seen,         \* history: the bars dispatched since the process started
          decision,     \* history: the decision this step took, if any
          failures, restarts

lane == <<engines, last, loaded, hasPosition>>
bounds == <<failures, restarts>>
vars == <<market, lane, traces, seen, decision, bounds>>

NoDecision == [kind |-> "none"]

Ready == loaded >= Required
Newest == Len(market)

BuildIndicators == [k \in DOMAIN Configured |-> Engine(Configured[k])]

Init ==
    /\ market = <<>>
    /\ engines = BuildIndicators
    /\ last = 0 /\ loaded = 0
    /\ hasPosition \in BOOLEAN
    /\ traces = {} /\ seen = {}
    /\ decision = NoDecision
    /\ failures = 0 /\ restarts = 0

(***************************************************************************)
(* Evaluation.                                                             *)
(***************************************************************************)
Evaluated(close) == [k \in DOMAIN Configured |-> Update(Configured[k], engines[k], close)]

Observation(c, direction, phase) ==
    [type |-> c.type, role |-> c.role, policy |-> SignalPolicy(SignalMode, c.policy),
     weight |-> c.weight, entryReasons |-> c.entryReasons, exitReasons |-> c.exitReasons,
     signal |-> [dir |-> direction, phase |-> phase]]

Observations(results, phase) ==
    [k \in DOMAIN Configured |-> Observation(Configured[k], results[k].direction, phase)]

\* Mutant: a preview is evaluated by the engine itself.
CommittedAlways(results, phase) == [k \in DOMAIN Configured |-> results[k].engine]

\* evaluate_indicator_engine: a preview is evaluated by a copy of the engine.
Committed(results, phase) ==
    IF phase = "Preview" THEN engines
    ELSE [k \in DOMAIN Configured |-> results[k].engine]

\* The engines after the confirmed bars a..b, in order.
Fed(a, b) ==
    [k \in DOMAIN Configured |->
        FoldLeft(LAMBDA e, close: Update(Configured[k], e, close).engine,
                 engines[k], SubSeq(market, a, b))]

\* The order of an intent may be refused, or fill.
Execute(intent) ==
    hasPosition' \in {hasPosition, PositionTransition(hasPosition, intent)}

(***************************************************************************)
(* The market confirms a bar.  Nothing asks again for traces of older ones.*)
(***************************************************************************)
ConfirmBar(close) ==
    /\ Newest < MaxBars
    /\ market' = Append(market, close)
    /\ traces' = {}
    /\ decision' = NoDecision
    /\ UNCHANGED <<lane, seen, bounds>>

\* apply_state_only_confirmed_bar for the bars a..b.
ApplyStateOnly(a, b) ==
    /\ engines' = Fed(a, b)
    /\ last' = b
    /\ seen' = seen \union (a .. b)
    /\ decision' = NoDecision
    /\ UNCHANGED <<market, hasPosition, traces, bounds>>

\* attempt_lane_warmup_backfill, at startup, start and resume: the Required
\* newest bars, without those dispatched before, until the lane is ready.
Backfill ==
    LET a == Max({last, Newest - Required}) + 1
        b == Min({Newest, a + Required - loaded - 1})
    IN  /\ ~Ready
        /\ a <= b
        /\ ApplyStateOnly(a, b)
        /\ loaded' = loaded + b - a + 1

\* process_pending_warmup_bar: a live bar of a lane that is not ready.
WarmUpBar ==
    /\ Newest # 0
    /\ ~Ready
    /\ last = 0 \/ Newest = last + 1
    /\ ApplyStateOnly(Newest, Newest)
    /\ loaded' = loaded + 1

\* apply_recovery_page: missed bars are applied without trading.
Recover ==
    /\ last # 0 /\ Newest > last + 1
    /\ ApplyStateOnly(last + 1, Newest)
    /\ UNCHANGED loaded

(***************************************************************************)
(* run_lane_cycle.  A trigger that has a trace is answered by NoOp.  The   *)
(* cycle may fail at any write after the evaluation: the order may have    *)
(* been filled, but there is no trace and the bar is not dispatched.       *)
(***************************************************************************)
MarketTrigger(bar, close, phase) == <<"bar", bar, close, phase>>
ManualTrigger(dir) == <<"manual", Newest, dir, "Confirmed">>

Fails ==
    /\ failures < MaxFailures
    /\ failures' = failures + 1
    /\ UNCHANGED traces

\* Bounds previews and manual signals, never the newest bar itself.
RoomForTrace == Cardinality(traces) < MaxTraces

Succeeds(trigger) ==
    /\ traces' = traces \union {trigger}
    /\ UNCHANGED failures

EvaluateBar(bar, close, phase) ==
    LET results == Evaluated(close)
        intent == Decide(Strategy, Observations(results, phase), hasPosition)
    IN  /\ Ready
        /\ MarketTrigger(bar, close, phase) \notin traces
        /\ engines' = Committed(results, phase)
        /\ decision' = [kind |-> "bar", bar |-> bar, phase |-> phase,
                        before |-> hasPosition, intent |-> intent]
        /\ Execute(intent)
        /\ UNCHANGED <<market, loaded, restarts>>

LiveBar ==
    /\ Newest # 0
    /\ last = 0 \/ Newest = last + 1
    /\ EvaluateBar(Newest, market[Newest], "Confirmed")
    /\ \/ Fails /\ UNCHANGED <<last, seen>>
       \/ /\ Succeeds(MarketTrigger(Newest, market[Newest], "Confirmed"))
          /\ last' = Newest
          /\ seen' = seen \union {Newest}

\* A price of the bar in progress.
Preview(close) ==
    /\ Newest < MaxBars /\ RoomForTrace
    /\ EvaluateBar(Newest + 1, close, "Preview")
    /\ Fails \/ Succeeds(MarketTrigger(Newest + 1, close, "Preview"))
    /\ UNCHANGED <<last, seen>>

\* run_manual_signal_cycle: neither the warm-up nor the indicators have a say.
ManualSignal(dir) ==
    LET intent == Decide(Strategy, <<ManualObservation(dir, "Confirmed")>>, hasPosition)
    IN  /\ Newest # 0 /\ RoomForTrace
        /\ ManualTrigger(dir) \notin traces
        /\ decision' = [kind |-> "manual", dir |-> dir,
                        before |-> hasPosition, intent |-> intent]
        /\ Execute(intent)
        /\ Fails \/ Succeeds(ManualTrigger(dir))
        /\ UNCHANGED <<market, engines, last, loaded, seen, restarts>>

\* The journal keeps traces and position, the rest is built again.
Restart ==
    /\ restarts < MaxRestarts
    /\ restarts' = restarts + 1
    /\ engines' = BuildIndicators
    /\ last' = 0 /\ loaded' = 0
    /\ seen' = {}
    /\ decision' = NoDecision
    /\ UNCHANGED <<market, hasPosition, traces, failures>>

Next ==
    \/ \E close \in Closes : ConfirmBar(close) \/ Preview(close)
    \/ Backfill \/ WarmUpBar \/ Recover \/ LiveBar
    \/ \E dir \in {1, -1} : ManualSignal(dir)
    \/ Restart

Spec == Init /\ [][Next]_vars
-----------------------------------------------------------------------------
(***************************************************************************)
(* Properties.                                                             *)
(***************************************************************************)
TypeOK ==
    /\ market \in Seq(Closes) /\ Newest <= MaxBars
    /\ last \in 0 .. Newest
    /\ loaded \in 0 .. Required
    /\ hasPosition \in BOOLEAN
    /\ seen \subseteq 1 .. Newest
    /\ failures \in 0 .. MaxFailures /\ restarts \in 0 .. MaxRestarts

\* The moving average of the n closes up to bar b, as the market has them.
Mean(n, b) == <<MapThenSumSet(LAMBDA x: market[x], b - n + 1 .. b), n>>

CrossedAt(i, b) ==
    LET before == <<Mean(i.fast, b - 1), Mean(i.slow, b - 1)>>
        now == <<Mean(i.fast, b), Mean(i.slow, b)>>
    IN  CASE Below(before[1], before[2]) /\ Below(now[2], now[1]) -> 1
          [] Below(before[2], before[1]) /\ Below(now[1], now[2]) -> -1
          [] OTHER -> 0

\* An RSI depends on its first bar: replay what was dispatched, each bar once.
Replayed(i, bars) ==
    FoldLeft(LAMBDA e, b: Update(i, e, market[b]).engine, Engine(i),
             SetToSortSeq(bars, <))

MarketDirection(i, b) ==
    IF i.type = "sma_crossover" THEN CrossedAt(i, b)
    ELSE Update(i, Replayed(i, {x \in seen : x < b}), market[b]).direction

(***************************************************************************)
(* The decision on a confirmed bar is the one the market's closes call     *)
(* for: averages of the last closes without a gap or a repetition, an RSI  *)
(* of every bar dispatched, whatever warm-up, recovery, previews of other  *)
(* prices, manual signals and restarts came between (the engines that      *)
(* evaluate_indicator_engine and apply_state_only_confirmed_bar update).   *)
(***************************************************************************)
DecisionIsOfMarket ==
    (decision.kind = "bar" /\ decision.phase = "Confirmed") =>
        decision.intent =
            Decide(Strategy,
                   [k \in DOMAIN Configured |->
                       Observation(Configured[k],
                                   MarketDirection(Configured[k], decision.bar),
                                   "Confirmed")],
                   decision.before)

(***************************************************************************)
(* A manual buy or sell is what the lane intends, also under a consensus   *)
(* strategy whose thresholds equal the weight of the one observation that  *)
(* prepare_manual_signal_evaluation gives it.                              *)
(***************************************************************************)

(***************************************************************************)
(* A bot that trades on confirmed bars only never acts on a preview,       *)
(* whatever policy its indicators state (build_runtime_indicators).        *)
(***************************************************************************)
ConfirmedOnlyWaits ==
    (decision.kind = "bar" /\ decision.phase = "Preview" /\ SignalMode = "ConfirmedOnly")
        => decision.intent = "NoOp"

(***************************************************************************)
(* An order on a confirmed bar goes the way some primary indicator's       *)
(* series crossed, and no filter's the other way (decide_consensus).       *)
(***************************************************************************)
NoOrderAgainstIndicators ==
    (decision.kind = "bar" /\ decision.phase = "Confirmed" /\ decision.intent # "NoOp") =>
        LET way == IF decision.intent = "CloseLong" THEN -1 ELSE 1
            Crossed(role, dir) ==
                \E k \in DOMAIN Configured :
                    /\ Configured[k].role = role
                    /\ MarketDirection(Configured[k], decision.bar) = dir
        IN  Crossed("PrimarySignal", way) /\ ~Crossed("Filter", -way)
=============================================================================
