------------------------------ MODULE MCSignals ------------------------------
(***************************************************************************)
(* From trades to decisions, for TLC: the bar builder around the epoch,    *)
(* three buckets of two ticks, with trades in any order; and the signal    *)
(* path of a bot, a consensus of a crossover and an RSI filter or a single *)
(* crossover that trades on confirmed bars.                                *)
(* Builder and signal path share no variable.  A behaviour is one of a     *)
(* single part, chosen at the start; the other rests in an initial state.  *)
(***************************************************************************)
EXTENDS BarBuilder

CONSTANT Parts          \* the parts to explore

AroundEpoch == -2 .. 3
SomePrices == {0, 1, 2}
SomeQuantities == {-1, 0, 2}

AverageCrossing(fast, slow, policy) ==
    [type |-> "sma_crossover", fast |-> fast, slow |-> slow, role |-> "PrimarySignal",
     policy |-> policy, weight |-> 10, entryReasons |-> {}, exitReasons |-> {}]

RsiFilter(period, weight) ==
    [type |-> "rsi_threshold", period |-> period, oversold |-> 30, overbought |-> 70,
     role |-> "Filter", policy |-> "unset", weight |-> weight,
     entryReasons |-> {}, exitReasons |-> {}]

VARIABLES part,
          market, engines, last, loaded, hasPosition, traces, seen, decision,
          failures, restarts

signalVars == <<market, engines, last, loaded, hasPosition, traces, seen, decision,
                failures, restarts>>

Filtered == INSTANCE SignalPath WITH
    Configured <- <<AverageCrossing(2, 3, "unset"), RsiFilter(1, 10)>>,
    Strategy <- "consensus", SignalMode <- "Intrabar", Required <- 4,
    Closes <- {1, 2, 3}, MaxBars <- 5, MaxTraces <- 1, MaxFailures <- 0, MaxRestarts <- 1

Eager == INSTANCE SignalPath WITH
    Configured <- <<AverageCrossing(1, 2, "PreviewAllowed")>>,
    Strategy <- "single", SignalMode <- "ConfirmedOnly", Required <- 3,
    Closes <- {1, 2}, MaxBars <- 7, MaxTraces <- 1, MaxFailures <- 0, MaxRestarts <- 1

ASSUME SignalConstants == Filtered!ConstantsOK /\ Eager!ConstantsOK

MCInit ==
    /\ part \in Parts
    /\ Init
    /\ IF part = "eager" THEN Eager!Init ELSE Filtered!Init
    /\ part = "trades" => ~hasPosition

MCNext ==
    /\ UNCHANGED part
    /\ \/ part = "trades" /\ Next /\ UNCHANGED signalVars
       \/ part = "filtered" /\ Filtered!Next /\ UNCHANGED vars
       \/ part = "eager" /\ Eager!Next /\ UNCHANGED vars

MCVars == <<part, vars, signalVars>>

MCSpec == MCInit /\ [][MCNext]_MCVars
-----------------------------------------------------------------------------
\* The decision on a confirmed bar is the one the market's closes call for, for
\* the consensus and for the single crossover (SignalPath!DecisionIsOfMarket).
DecisionIsOfMarket ==
    /\ part = "filtered" => Filtered!DecisionIsOfMarket
    /\ part = "eager" => Eager!DecisionIsOfMarket
=============================================================================
