----------------------------- MODULE Strategies -----------------------------
(***************************************************************************)
(* From the indicators' signals to a trade intent: the single-indicator    *)
(* and the consensus strategy.  A signal is [dir, phase], with dir 0 for   *)
(* none.  An observation is an indicator's configuration (id, role,        *)
(* policy, weight, allowed reasons) together with its signal on a bar.     *)
(* Weights and thresholds are in tenths.                                   *)
(***************************************************************************)
EXTENDS Integers, Sequences, FiniteSetsExt

EntryThreshold == 10   \* ConsensusLongOnlyStrategy::default
ExitThreshold == 10

NoSignal(phase) == [dir |-> 0, phase |-> phase]

DefaultSignalPolicy(mode) ==
    IF mode = "Intrabar" THEN "PreviewAllowed" ELSE "ConfirmedRequired"

\* build_runtime_indicators: ConfirmedOnly of the bot overrides the indicator.
SignalPolicy(mode, own) ==
    IF mode = "ConfirmedOnly" THEN "ConfirmedRequired"
    ELSE IF own = "unset" THEN DefaultSignalPolicy(mode) ELSE own

EffectiveSignal(o) ==
    IF o.policy = "ConfirmedRequired" /\ o.signal.phase = "Preview"
    THEN NoSignal("Preview") ELSE o.signal

SignalVote(policy, signal) ==
    IF signal.phase = "Preview" /\ policy # "PreviewAllowed" THEN 0 ELSE signal.dir

(***************************************************************************)
(* metadata_filter_block_reason.  The registered indicators support reason *)
(* codes only, and give one with every signal: one for buys, one for       *)
(* sells.  A filter without reason codes blocks nothing.                   *)
(***************************************************************************)
ReasonCode(o, signal) == <<o.type, signal.dir>>

MetadataBlocks(o, signal) ==
    LET allowed == IF signal.dir = 1 THEN o.entryReasons ELSE o.exitReasons
    IN  /\ signal.dir # 0
        /\ allowed # {}
        /\ ReasonCode(o, signal) \notin allowed

IntentForDirection(hasPosition, direction) ==
    CASE direction = 1 -> IF hasPosition THEN "AddLong" ELSE "OpenLong"
      [] direction = -1 -> IF hasPosition THEN "CloseLong" ELSE "NoOp"
      [] OTHER -> "NoOp"

\* SingleIndicatorLongOnlyStrategy::decide
DecideSingle(o, hasPosition) ==
    LET signal == EffectiveSignal(o)
    IN  IF MetadataBlocks(o, signal) THEN "NoOp"
        ELSE IntentForDirection(hasPosition, signal.dir)

(***************************************************************************)
(* ConsensusLongOnlyStrategy::decide_consensus: the weighted votes of the  *)
(* primary indicators decide, and a filter that votes the other way vetoes.*)
(***************************************************************************)
Vote(o) ==
    LET signal == EffectiveSignal(o)
    IN  IF MetadataBlocks(o, signal) THEN 0 ELSE SignalVote(o.policy, signal)

WithRole(obs, role) == {k \in DOMAIN obs : obs[k].role = role}

PrimaryScore(obs) ==
    MapThenSumSet(LAMBDA k: obs[k].weight * Vote(obs[k]), WithRole(obs, "PrimarySignal"))

Direction(score) ==
    CASE score >= EntryThreshold -> 1
      [] score < EntryThreshold /\ score <= -ExitThreshold -> -1
      [] OTHER -> 0

FilterVeto(obs, direction) ==
    \E k \in WithRole(obs, "Filter"): Vote(obs[k]) = -direction

DecideConsensus(obs, hasPosition) ==
    LET direction == Direction(PrimaryScore(obs))
    IN  IF \/ WithRole(obs, "PrimarySignal") = {}
           \/ direction = 0
           \/ FilterVeto(obs, direction)
        THEN "NoOp"
        ELSE IntentForDirection(hasPosition, direction)

\* The first primary indicator, or the first of all.
Representative(obs) ==
    LET primary == WithRole(obs, "PrimarySignal")
    IN  obs[IF primary = {} THEN 1 ELSE Min(primary)]

Decide(strategy, obs, hasPosition) ==
    IF strategy = "consensus" THEN DecideConsensus(obs, hasPosition)
    ELSE DecideSingle(Representative(obs), hasPosition)

\* prepare_manual_signal_evaluation: the only observation of a manual signal.
ManualObservation(dir, phase) ==
    [type |-> "manual_signal", role |-> "PrimarySignal", policy |-> "PreviewAllowed",
     weight |-> 10, entryReasons |-> {}, exitReasons |-> {},
     signal |-> [dir |-> dir, phase |-> phase]]

\* apply_position_transition
PositionTransition(hasPosition, intent) ==
    CASE intent \in {"OpenLong", "AddLong"} -> TRUE
      [] intent \in {"ReduceLong", "CloseLong"} -> FALSE
      [] OTHER -> hasPosition
=============================================================================
