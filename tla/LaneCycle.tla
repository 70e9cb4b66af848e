----------------------------- MODULE LaneCycle -----------------------------
(***************************************************************************)
(* The trading cycle of the lanes of one account: a bar (or a manual       *)
(* signal) is evaluated, sized, risk-checked, reserved in the account's    *)
(* ledger, submitted to the exchange, journalled and applied to the lane's *)
(* position (run_lane_cycle and the effects it calls).                     *)
(*                                                                         *)
(* A cycle holds the runtime's write lock from its first to its last step, *)
(* so cycles never interleave; what can come between two steps of a cycle  *)
(* is a journal write that fails and returns early, an exchange whose      *)
(* answer is lost, and a crash of the process.  The lanes are Running and  *)
(* warmed up (Lifecycle models when they are), the kill switch is off.     *)
(***************************************************************************)
EXTENDS AccountLedger, OrderSizing

CONSTANTS
    SymbolOf,       \* the symbol each lane trades
    Prices,         \* the closes of bars and the prices of fills
    Balances,       \* what a connector snapshot reports as live balance
    Kinds,          \* the triggers: preview bar, confirmed bar, manual signal
    Cooldown,       \* cooldown_after_reject_ms, in bars
    RemoteSnapshot, \* reconciliation_remote_snapshot of the account
    MaxBar,         \* bound: bar timestamps are 1..MaxBar
    MaxCycles,      \* bound: cycles that pass the duplicate check
    MaxFaults,      \* bound: failed journal writes and exchange calls
    MaxCrashes      \* bound: crashes of the process

ASSUME CycleAssumption ==
    /\ Prices \subseteq Nat \ {0}
    /\ Balances \subseteq Nat \cup {NoBalance}
    /\ Kinds \subseteq {"preview", "confirmed", "manual"}
    /\ Cooldown \in Nat
    /\ RemoteSnapshot \in BOOLEAN
    /\ MaxBar \in Nat /\ MaxCycles \in Nat /\ MaxFaults \in Nat /\ MaxCrashes \in Nat

VARIABLES
    qty,       \* LaneRuntime.position_quantity of each lane
    cost,      \* quantity times entry_price of each lane
    notional,  \* LaneRuntime.position_notional_usd of each lane
    until,     \* LaneRuntime.cooldown_until_ms, as a bar timestamp
    led,       \* the account's ledger
    cyc,       \* the cycle in flight
    posRec,    \* the latest position record of each lane in the journal
    traces,    \* the triggers whose cycle trace is in the journal
    remote,    \* what the exchange holds on behalf of each lane
    accepted,  \* the client order ids the exchange has accepted
    executed,  \* history: the trigger and the number of each executed cycle
    torn,      \* history: lanes whose cycle ended after the exchange acted
               \* and before the position record was written
    begun, faults, crashes

vars == <<qty, cost, notional, until, led, cyc, posRec, traces, remote,
          accepted, executed, torn, begun, faults, crashes>>
memory == <<qty, cost, notional, until>>
history == <<executed, torn>>
counters == <<begun, faults, crashes>>

Signals == {"buy", "sell", "none"}
Positions == [qty: Nat, cost: Nat]
Steps == {"records", "effects", "submit", "journal", "state", "trace"}

\* A cycle trace matches on these; only a manual trigger compares the signal.
Triggers == [lane: Lanes, bar: 1..MaxBar, close: Prices, kind: Kinds,
             signal: Signals \cup {"any"}]
Trigger(l, k, b, p, s) ==
    [lane |-> l, bar |-> b, close |-> p, kind |-> k,
     signal |-> IF k = "manual" THEN s ELSE "any"]

\* deterministic_remote_client_order_id: the hash's seed.
OrderIds == [lane: Lanes, bar: 1..MaxBar, intent: Intents, qty: Nat]

Idle == [pc |-> "idle"]
Down == [pc |-> "down"]
Cycles == [pc: Steps, trigger: Triggers, qty: Nat, outcome: Outcomes,
           decision: Intents \cup {"Reject"}, fill: Nat, price: Prices \cup {0}]

IntentFor(signal, hasPosition) ==
    CASE signal = "buy" -> IF hasPosition THEN "AddLong" ELSE "OpenLong"
      [] signal = "sell" /\ hasPosition -> "CloseLong"
      [] OTHER -> "NoOp"

OpenPositions == Cardinality({l \in Lanes: qty[l] > 0})

LanesOn(s) == {l \in Lanes: SymbolOf[l] = s}

\* managed_position_deficit_exceptions: the journal claims more than is held.
Deficit ==
    /\ RemoteSnapshot
    /\ \E s \in {SymbolOf[l]: l \in Lanes}:
          Total([l \in Lanes |-> posRec[l].qty], LanesOn(s)) > Total(remote, LanesOn(s))

Lane == cyc.trigger.lane
Close == cyc.trigger.close

OrderId == [lane |-> Lane, bar |-> cyc.trigger.bar, intent |-> cyc.decision, qty |-> cyc.qty]

\* What an entry reserves; a close reserves nothing.
Held == IF cyc.decision \in Entries THEN cyc.qty * Close ELSE 0
-----------------------------------------------------------------------------
Init ==
    /\ qty = [l \in Lanes |-> 0]
    /\ cost = [l \in Lanes |-> 0]
    /\ notional = [l \in Lanes |-> 0]
    /\ until = [l \in Lanes |-> 0]
    /\ led = NewLedger
    /\ cyc = Idle
    /\ posRec = [l \in Lanes |-> [qty |-> 0, cost |-> 0]]
    /\ traces = {}
    /\ remote = [l \in Lanes |-> 0]
    /\ accepted = {}
    /\ executed = {}
    /\ torn = {}
    /\ begun = 0 /\ faults = 0 /\ crashes = 0

At(pc) == cyc.pc = pc
Goto(pc) == cyc' = [cyc EXCEPT !.pc = pc]

\* A `?' that fails: the cycle returns its error.
Fault == faults < MaxFaults /\ faults' = faults + 1
Abort == cyc' = Idle

\* The slip of not looking for the trigger's trace.
NoDuplicateCheck(t) == TRUE

HasNoMatchingTrace(t) == t \notin traces

(***************************************************************************)
(* The head of run_lane_cycle up to the evaluation: the duplicate check,   *)
(* the ledger sync, the mark of the position to the bar's close, sizing    *)
(* against the rooms that are left, and the risk decision.                 *)
(***************************************************************************)
EvaluateCycle(l, k, b, p, signal, stale) ==
    LET trigger == Trigger(l, k, b, p, signal)
        marked == [notional EXCEPT ![l] = qty[l] * p]
        synced == SyncFromLanes(led, marked)
        intent == IntentFor(signal, qty[l] > 0)
        resolved == ResolveOrderQuantity(intent, p, qty[l],
                        BotTradeable(synced, BotOf[l]), AccountTradeable(synced))
        decision == RiskDecision(intent, p, resolved, stale \/ b < until[l],
                                 OpenPositions)
    IN  /\ At("idle")
        /\ begun < MaxCycles
        /\ HasNoMatchingTrace(trigger)
        /\ notional' = marked
        /\ led' = synced
        /\ cyc' = [pc |-> "records", trigger |-> trigger, qty |-> resolved.qty,
                   outcome |-> resolved.outcome, decision |-> decision,
                   fill |-> 0, price |-> 0]
        /\ begun' = begun + 1
        /\ UNCHANGED <<qty, cost, until, posRec, traces, remote, accepted, history,
                       faults, crashes>>

\* The connector is not ready: the cycle has only synced the ledger.
RefuseCycle ==
    /\ At("idle")
    /\ Fault
    /\ led' = SyncFromLanes(led, notional)
    /\ UNCHANGED <<memory, cyc, posRec, traces, remote, accepted, history, begun, crashes>>

AppendProcessBarRecords ==
    /\ At("records")
    /\ \/ Goto("effects") /\ UNCHANGED faults
       \/ Abort /\ Fault
    /\ UNCHANGED <<memory, led, posRec, traces, remote, accepted, history, begun, crashes>>

\* The entry's reservation is taken, or there is nothing to reserve.
MaySubmit ==
    /\ cyc.decision \in Entries \cup {"CloseLong"}
    /\ cyc.decision \in Entries => CanReserve(led, Lane, Held)

(***************************************************************************)
(* apply_risk_decision_effects up to the submission.  An entry reserves    *)
(* its notional at the bar's close.                                        *)
(***************************************************************************)
ApplyRiskDecisionEffects ==
    /\ At("effects")
    /\ \/ /\ MaySubmit
          /\ Goto("submit")
          /\ led' = Reserve(led, Lane, Held)
          /\ UNCHANGED faults
       \/ ~MaySubmit /\ Goto("state") /\ UNCHANGED <<led, faults>>
       \/ Abort /\ Fault /\ UNCHANGED led
    /\ UNCHANGED <<memory, posRec, traces, remote, accepted, history, begun, crashes>>

\* The exchange refuses a client order id it has seen, and a sale of more
\* than the account holds.
ExchangeAccepts ==
    /\ OrderId \notin accepted
    /\ cyc.decision = "CloseLong" =>
          cyc.qty <= Total(remote, LanesOn(SymbolOf[Lane]))

\* The exchange fills n lots of the order.
Execute(n) ==
    /\ ExchangeAccepts
    /\ accepted' = accepted \cup {OrderId}
    /\ remote' = [remote EXCEPT ![Lane] =
                     IF cyc.decision \in Entries THEN @ + n ELSE @ - n]
    /\ executed' = executed \cup {[trigger |-> cyc.trigger, cycle |-> begun]}

\* The slip of returning the error with the reservation still held.
KeepReservation(l, n) == led

ReleaseAfterError(l, n) == ReleaseReservation(led, l, n)

(***************************************************************************)
(* submit_order answers with what was filled and at which price; the       *)
(* reservation becomes open notional before anything is journalled.        *)
(***************************************************************************)
SubmitOrderFilled(n, price) ==
    /\ At("submit")
    /\ n <= cyc.qty
    /\ Execute(n)
    /\ led' = IF cyc.decision \in Entries
              THEN ReconcileOpenFill(led, Lane, n * price, Held) ELSE led
    /\ cyc' = [cyc EXCEPT !.pc = "journal", !.fill = n, !.price = price]
    /\ UNCHANGED <<memory, posRec, traces, torn, counters>>

(***************************************************************************)
(* submit_order fails.  The journal refused the "requested" event or the   *)
(* exchange refused the order; or the exchange executed it and the answer  *)
(* was lost, not terminal when the polling gave up, or not journalled as   *)
(* "succeeded".                                                            *)
(***************************************************************************)
SubmitOrderRefused ==
    /\ At("submit")
    /\ IF ExchangeAccepts THEN Fault ELSE UNCHANGED faults
    /\ led' = ReleaseAfterError(Lane, Held)
    /\ Abort
    /\ UNCHANGED <<memory, posRec, traces, remote, accepted, history, begun, crashes>>

SubmitOrderLost(n) ==
    /\ At("submit")
    /\ n <= cyc.qty
    /\ Fault
    /\ Execute(n)
    /\ led' = ReleaseAfterError(Lane, Held)
    /\ torn' = torn \cup {Lane}
    /\ Abort
    /\ UNCHANGED <<memory, posRec, traces, begun, crashes>>

\* The order, the fill and their events.
AppendOrderRecords ==
    /\ At("journal")
    /\ \/ Goto("state") /\ UNCHANGED <<torn, faults>>
       \/ Abort /\ Fault /\ torn' = torn \cup {Lane}
    /\ UNCHANGED <<memory, led, posRec, traces, remote, accepted, executed, begun, crashes>>

(***************************************************************************)
(* apply_process_bar_fill_state: the fill moves the position, which is     *)
(* marked to the bar's close.  A rejection that is not the ledger's starts *)
(* the cooldown, an allowed trade ends it.                                 *)
(***************************************************************************)
FilledPosition ==
    IF cyc.decision \in Entries
    THEN [qty |-> qty[Lane] + cyc.fill, cost |-> cost[Lane] + cyc.fill * cyc.price]
    ELSE LET left == AtLeastZero(qty[Lane] - cyc.fill)
         IN  [qty |-> left,
              cost |-> IF left = 0 THEN 0 ELSE (cost[Lane] * left) \div qty[Lane]]

ApplyFillState ==
    /\ IF cyc.fill > 0
       THEN /\ qty' = [qty EXCEPT ![Lane] = FilledPosition.qty]
            /\ cost' = [cost EXCEPT ![Lane] = FilledPosition.cost]
            /\ notional' = [notional EXCEPT ![Lane] = FilledPosition.qty * Close]
       ELSE UNCHANGED <<qty, cost, notional>>
    /\ until' = [until EXCEPT ![Lane] =
                    CASE cyc.decision = "NoOp" -> @
                      [] cyc.decision = "Reject" ->
                            IF cyc.outcome = "none" THEN cyc.trigger.bar + Cooldown ELSE @
                      [] OTHER -> 0]

\* The slip of journalling the position the lane had before the fill.
AppendOldPosition == [posRec EXCEPT ![Lane] = [qty |-> qty[Lane], cost |-> cost[Lane]]]

AppendPositionRecord == [posRec EXCEPT ![Lane] = FilledPosition]

(***************************************************************************)
(* apply_process_bar_state_effects: the memory changes first, then the     *)
(* position record is written, then the ledger follows the lanes.          *)
(***************************************************************************)
ApplyProcessBarState ==
    /\ At("state")
    /\ ApplyFillState
    /\ \/ /\ Goto("trace")
          /\ posRec' = IF cyc.fill > 0 THEN AppendPositionRecord ELSE posRec
          /\ led' = SyncFromLanes(
                        IF cyc.decision = "CloseLong" /\ cyc.fill > 0
                        THEN ReleasePosition(led, Lane, cyc.fill * Close) ELSE led,
                        notional')
          /\ UNCHANGED <<torn, faults>>
       \/ /\ cyc.fill > 0
          /\ Fault
          /\ Abort
          /\ torn' = torn \cup {Lane}
          /\ UNCHANGED <<posRec, led>>
    /\ UNCHANGED <<traces, remote, accepted, executed, begun, crashes>>

PersistCycleTrace ==
    /\ At("trace")
    /\ \/ traces' = traces \cup {cyc.trigger} /\ UNCHANGED faults
       \/ Fault /\ UNCHANGED traces
    /\ Abort
    /\ UNCHANGED <<memory, led, posRec, remote, accepted, history, begun, crashes>>
-----------------------------------------------------------------------------
\* A snapshot of the account arrives between cycles.
RefreshAccountLedger(balance) ==
    /\ At("idle")
    /\ led' = RefreshFromSnapshot(led, notional, balance, Deficit)
    /\ UNCHANGED <<memory, cyc, posRec, traces, remote, accepted, history, counters>>

Crash ==
    /\ ~At("down")
    /\ crashes < MaxCrashes
    /\ crashes' = crashes + 1
    /\ cyc' = Down
    /\ torn' = IF cyc.pc \in {"journal", "state"} /\ cyc.fill > 0
               THEN torn \cup {Lane} ELSE torn
    /\ UNCHANGED <<memory, led, posRec, traces, remote, accepted, executed, begun, faults>>

(***************************************************************************)
(* The process starts again: startup reconciliation gives a lane that was  *)
(* Running its journalled position, and the ledger is built anew.          *)
(***************************************************************************)
Restart(balance) ==
    /\ At("down")
    /\ qty' = [l \in Lanes |-> posRec[l].qty]
    /\ cost' = [l \in Lanes |-> posRec[l].cost]
    /\ notional' = cost'
    /\ until' = [l \in Lanes |-> 0]
    /\ led' = RefreshFromSnapshot(NewLedger, notional', balance, Deficit)
    /\ cyc' = Idle
    /\ UNCHANGED <<posRec, traces, remote, accepted, history, counters>>

Evaluate ==
    \E l \in Lanes, k \in Kinds, b \in 1..MaxBar, p \in Prices,
       signal \in Signals, stale \in BOOLEAN: EvaluateCycle(l, k, b, p, signal, stale)

Submit ==
    \/ \E n \in 1..cyc.qty, price \in Prices: SubmitOrderFilled(n, price)
    \/ \E n \in 1..cyc.qty: SubmitOrderLost(n)
    \/ SubmitOrderRefused

Next ==
    \/ Evaluate
    \/ RefuseCycle
    \/ AppendProcessBarRecords
    \/ ApplyRiskDecisionEffects
    \/ At("submit") /\ Submit
    \/ AppendOrderRecords
    \/ ApplyProcessBarState
    \/ PersistCycleTrace
    \/ \E balance \in Balances: RefreshAccountLedger(balance)
    \/ Crash
    \/ \E balance \in Balances: Restart(balance)

Spec == Init /\ [][Next]_vars
-----------------------------------------------------------------------------
(***************************************************************************)
(* The types of the state.                                                 *)
(***************************************************************************)
TypeOK ==
    /\ qty \in [Lanes -> Nat]
    /\ cost \in [Lanes -> Nat]
    /\ notional \in [Lanes -> Nat]
    /\ until \in [Lanes -> Nat]
    /\ led \in Ledger
    /\ cyc \in Cycles \cup {Idle, Down}
    /\ posRec \in [Lanes -> Positions]
    /\ traces \subseteq Triggers
    /\ remote \in [Lanes -> Int]
    /\ accepted \subseteq OrderIds
    /\ executed \subseteq [trigger: Triggers, cycle: Nat]
    /\ torn \subseteq Lanes
    /\ begun \in Nat /\ faults \in Nat /\ crashes \in Nat

(***************************************************************************)
(* No reservation outlives its submission: every way a cycle can end,      *)
(* refused, lost, half-journalled or crashed, has given the room back, so  *)
(* a lane holds a reservation only while its own order is being submitted, *)
(* and then exactly the order's notional (apply_risk_decision_effects).    *)
(***************************************************************************)
ReservationEndsWithSubmission ==
    ~At("down") => \A l \in Lanes:
        led.reserved[l] = IF At("submit") /\ l = Lane THEN Held ELSE 0

(***************************************************************************)
(* Sizing and reservation agree: an entry that was sized against the rooms *)
(* and allowed can always be reserved, so the cycle never journals an      *)
(* allowed risk decision and then refuses the order for lack of room.      *)
(***************************************************************************)
SizedEntryIsReservable ==
    cyc.pc \in {"records", "effects"} /\ cyc.decision \in Entries =>
        CanReserve(led, Lane, Held)

(***************************************************************************)
(* An entry is submitted only inside both budgets: what the bot and the    *)
(* account have committed, this order included, is within the bot's share  *)
(* and the effective cap, and no exception blocks the account.             *)
(***************************************************************************)
SubmittedEntryIsInBudget ==
    At("submit") /\ cyc.decision \in Entries =>
        /\ BotCommitted(led, BotOf[Lane]) <= BotAllocated(led, BotOf[Lane])
        /\ TotalCommitted(led) <= EffectiveCap(led)
        /\ ~led.blocked

(***************************************************************************)
(* Between cycles the lane's memory, the journal and the exchange hold the *)
(* same position, after restarts too, unless a cycle of that lane ended    *)
(* between the exchange's execution and the position record.               *)
(***************************************************************************)
PositionsAgree ==
    At("idle") => \A l \in Lanes \ torn:
        /\ qty[l] = remote[l]
        /\ posRec[l] = [qty |-> qty[l], cost |-> cost[l]]

(***************************************************************************)
(* The account never holds more positions than max_open_positions, over    *)
(* all its lanes and across restarts, as long as no position was torn.     *)
(***************************************************************************)
OpenPositionsWithinLimit ==
    At("idle") /\ torn = {} => OpenPositions <= MaxOpenPositions

(***************************************************************************)
(* A trigger is executed by one cycle only, as long as no journal write,   *)
(* no exchange call and no process has failed (has_matching_cycle_trace).  *)
(***************************************************************************)
TriggerExecutesOnce ==
    faults = 0 /\ crashes = 0 =>
        \A e, f \in executed: e.trigger = f.trigger => e = f

(***************************************************************************)
(* Once the trace of a trigger is in the journal, no later cycle, not even *)
(* after a crash, executes that trigger at the exchange again.             *)
(***************************************************************************)
TracedTriggerIsFinal ==
    [][\A e \in executed' \ executed: e.trigger \notin traces]_vars

(***************************************************************************)
(* What the tests of duplicate submission promise: reprocessing the same   *)
(* confirmed bar enters the market at most once.                           *)
(***************************************************************************)
ReprocessedBarSubmitsOnce ==
    \A a, b \in accepted:
        /\ a.intent \in Entries /\ b.intent \in Entries
        /\ a.lane = b.lane /\ a.bar = b.bar
        => a = b
=============================================================================
