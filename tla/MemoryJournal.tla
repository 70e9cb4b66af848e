--------------------------- MODULE MemoryJournal ---------------------------
(***************************************************************************)
(* InMemoryRuntimeJournal: a vector of records per table, in the order of  *)
(* insertion.  The id of a new record is the last one's plus one, so ids   *)
(* start again where a prune cut the vector.  Records have the columns of  *)
(* the rows of SqliteJournal.                                              *)
(***************************************************************************)
EXTENDS Naturals, SequencesExt

CONSTANT None

BotScoped ==
    {"signals", "intents", "risk_decisions", "orders", "fills", "positions", "cycle_traces",
     "reconciliations", "bot_events"}

EmptyMemory ==
    [table |-> [t \in BotScoped \cup {"events", "service_events"} |-> <<>>], snapshots |-> {}]

Push(db, t, w) ==
    LET records == db.table[t]
        id == IF records = <<>> THEN 1 ELSE Last(records).id + 1
    IN  [db EXCEPT !.table[t] = Append(@, w @@ [id |-> id])]

\* records[len - limit ..], the whole vector when it is shorter.
SplitOff(records, limit) ==
    SubSeq(records, IF Len(records) > limit THEN Len(records) - limit + 1 ELSE 1, Len(records))
RecentRecords(db, t, limit) == SplitOff(db.table[t], limit)
Filtered(db, t, b) == SelectSeq(db.table[t], LAMBDA r : r.bot = b)
FilteredLane(db, t, b, s) == SelectSeq(db.table[t], LAMBDA r : r.bot = b /\ r.symbol = s)

-----------------------------------------------------------------------------
AppendEvent(db, w) == Push(db, "events", w)
AppendSignal(db, w) == Push(db, "signals", w)
AppendIntent(db, w) == Push(db, "intents", w)
AppendRiskDecision(db, w) == Push(db, "risk_decisions", w)
AppendOrder(db, w) ==
    IF \E r \in ToSet(db.table["orders"]) :
            r.bot = w.bot /\ r.symbol = w.symbol /\ r.key = w.key
    THEN db
    ELSE Push(db, "orders", w)
\* fee_amount and fee_normalized_usd, here one fee, are kept when positive.
WithPositiveFee(w) == [w EXCEPT !.fee = IF @ = None \/ @ > 0 THEN @ ELSE None]
AppendFill(db, w) ==
    IF \E r \in ToSet(db.table["fills"]) :
            r.bot = w.bot /\ r.symbol = w.symbol /\ r.key = w.key
    THEN db
    ELSE Push(db, "fills", WithPositiveFee(w))
AppendPosition(db, w) == Push(db, "positions", w)
AppendCycleTrace(db, w) ==
    IF \E r \in ToSet(db.table["cycle_traces"]) : r.key = w.key
    THEN db
    ELSE Push(db, "cycle_traces", w)
AppendReconciliation(db, w) == Push(db, "reconciliations", w)
AppendBotEvent(db, w) == Push(db, "bot_events", w)
AppendServiceEvent(db, w) == Push(db, "service_events", w)
UpsertBotSnapshot(db, b, v) ==
    [db EXCEPT !.snapshots = {r \in @ : r.bot # b} \cup {[bot |-> b, v |-> v]}]

-----------------------------------------------------------------------------
RecentEvents(db, n) == RecentRecords(db, "events", n)
RecentEventsByScope(db, scope, n) ==
    SplitOff(SelectSeq(db.table["events"], LAMBDA r : r.key = scope), n)
RecentEventsForEntity(db, e, n) == SplitOff(Filtered(db, "events", e), n)
RecentEventsByScopeAndEntity(db, scope, e, n) ==
    SplitOff(SelectSeq(Filtered(db, "events", e), LAMBDA r : r.key = scope), n)
RecentSignals(db, n) == RecentRecords(db, "signals", n)
RecentIntents(db, n) == RecentRecords(db, "intents", n)
RecentRiskDecisions(db, n) == RecentRecords(db, "risk_decisions", n)
RecentOrders(db, n) == RecentRecords(db, "orders", n)
RecentOrdersForBot(db, b, n) == SplitOff(Filtered(db, "orders", b), n)
OrdersByClientOrderId(db, k) == SelectSeq(db.table["orders"], LAMBDA r : r.key = k)
RecentFills(db, n) == RecentRecords(db, "fills", n)
RecentFillsForBot(db, b, n) == SplitOff(Filtered(db, "fills", b), n)
RecentPositions(db, n) == RecentRecords(db, "positions", n)
RecentPositionsForBot(db, b, n) == SplitOff(Filtered(db, "positions", b), n)
LatestPositionForBot(db, b) == SplitOff(Filtered(db, "positions", b), 1)
LatestPositionForLane(db, b, s) == SplitOff(FilteredLane(db, "positions", b, s), 1)
RecentCycleTracesForBot(db, b, symbol, n) ==
    SplitOff(IF symbol = None THEN Filtered(db, "cycle_traces", b)
             ELSE FilteredLane(db, "cycle_traces", b, symbol), n)
CycleTraceById(db, k) ==
    LET i == SelectInSeq(db.table["cycle_traces"], LAMBDA r : r.key = k)
    IN  IF i = 0 THEN <<>> ELSE <<db.table["cycle_traces"][i]>>
RecentReconciliations(db, n) == RecentRecords(db, "reconciliations", n)
RecentReconciliationsForBot(db, b, n) == SplitOff(Filtered(db, "reconciliations", b), n)
LatestReconciliationForBot(db, b) == SplitOff(Filtered(db, "reconciliations", b), 1)
LatestReconciliationForLane(db, b, s) == SplitOff(FilteredLane(db, "reconciliations", b, s), 1)
RecentBotEvents(db, n) == RecentRecords(db, "bot_events", n)
RecentServiceEvents(db, n) == RecentRecords(db, "service_events", n)
LoadBotSnapshots(db) == db.snapshots

\* retain on one table after the other.
PruneBotsExcept(db, active) ==
    [db EXCEPT !.table = [t \in DOMAIN @ |->
                            CASE t \in BotScoped -> SelectSeq(@[t], LAMBDA r : r.bot \in active)
                              [] t = "events" ->
                                   SelectSeq(@[t], LAMBDA r : r.bot = None \/ r.bot \in active)
                              [] t = "service_events" -> @[t]],
               !.snapshots = {r \in @ : r.bot \in active}]
=============================================================================
