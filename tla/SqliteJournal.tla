--------------------------- MODULE SqliteJournal ---------------------------
(***************************************************************************)
(* The statements SqliteRuntimeJournal executes, on relations: a table is  *)
(* a set of rows with the AUTOINCREMENT counter of its id column.  A row   *)
(* keeps the columns the statements compare: the bot (or entity) id, the   *)
(* symbol, a key (client order id, trace id or event scope) and a payload  *)
(* `v' that stands for all the columns that are only stored.               *)
(***************************************************************************)
EXTENDS Naturals, FiniteSets, SequencesExt

CONSTANT None

\* BotScopedTable::ALL but bot_snapshots, which is keyed by the bot id.
BotScopedTables ==
    {"signals", "trade_intents", "risk_decisions", "orders", "fills", "positions",
     "cycle_traces", "reconciliations", "bot_events"}
Tables == BotScopedTables \cup {"runtime_events", "service_events"}

\* The schema of a new journal: no row, every id counter at 0.
EmptySqlite ==
    [table |-> [t \in Tables |-> {}], seq |-> [t \in Tables |-> 0], snapshots |-> {}]

Insert(db, t, w) ==
    [db EXCEPT !.seq[t] = @ + 1,
               !.table[t] = @ \cup {w @@ [id |-> db.seq[t] + 1]}]

\* The columns of the unique index of orders and of fills, and of that of cycle_traces.
OrderIndex == {"bot", "symbol", "key"}
TraceIndex == {"key"}

Same(r, w, index) == \A c \in index : r[c] = w[c]

InsertOrIgnore(db, t, w, index) ==
    IF \E r \in db.table[t] : Same(r, w, index) THEN db ELSE Insert(db, t, w)

\* ORDER BY id, and the answer to ORDER BY id DESC LIMIT n put back in order.
Ascending(rows) == SetToSortSeq(rows, LAMBDA p, q : p.id < q.id)
Newest(rows, n) == Ascending({r \in rows : Cardinality({q \in rows : q.id > r.id}) < n})
Of(db, t, b) == {r \in db.table[t] : r.bot = b}
OfLane(db, t, b, s) == {r \in Of(db, t, b) : r.symbol = s}

-----------------------------------------------------------------------------
AppendEvent(db, w) == Insert(db, "runtime_events", w)
AppendSignal(db, w) == Insert(db, "signals", w)
AppendIntent(db, w) == Insert(db, "trade_intents", w)
AppendRiskDecision(db, w) == Insert(db, "risk_decisions", w)
AppendOrder(db, w) == InsertOrIgnore(db, "orders", w, OrderIndex)
AppendFill(db, w) == InsertOrIgnore(db, "fills", w, OrderIndex)
AppendPosition(db, w) == Insert(db, "positions", w)
AppendCycleTraceByBar(db, w) == InsertOrIgnore(db, "cycle_traces", w, OrderIndex)
AppendCycleTrace(db, w) == InsertOrIgnore(db, "cycle_traces", w, TraceIndex)
AppendReconciliation(db, w) == Insert(db, "reconciliations", w)
AppendBotEvent(db, w) == Insert(db, "bot_events", w)
AppendServiceEvent(db, w) == Insert(db, "service_events", w)
UpsertBotSnapshot(db, b, v) ==
    [db EXCEPT !.snapshots = {r \in @ : r.bot # b} \cup {[bot |-> b, v |-> v]}]

-----------------------------------------------------------------------------
RecentEvents(db, n) == Newest(db.table["runtime_events"], n)
RecentEventsByScope(db, scope, n) ==
    Newest({r \in db.table["runtime_events"] : r.key = scope}, n)
RecentEventsForEntity(db, e, n) == Newest(Of(db, "runtime_events", e), n)
RecentEventsByScopeAndEntity(db, scope, e, n) ==
    Newest({r \in Of(db, "runtime_events", e) : r.key = scope}, n)
RecentSignals(db, n) == Newest(db.table["signals"], n)
RecentIntents(db, n) == Newest(db.table["trade_intents"], n)
RecentRiskDecisions(db, n) == Newest(db.table["risk_decisions"], n)
RecentOrders(db, n) == Newest(db.table["orders"], n)
RecentOrdersForBot(db, b, n) == Newest(Of(db, "orders", b), n)
OrdersByClientOrderId(db, k) == Ascending({r \in db.table["orders"] : r.key = k})
RecentFills(db, n) == Newest(db.table["fills"], n)
RecentFillsForBot(db, b, n) == Newest(Of(db, "fills", b), n)
RecentPositions(db, n) == Newest(db.table["positions"], n)
RecentPositionsForBot(db, b, n) == Newest(Of(db, "positions", b), n)
LatestPositionForBot(db, b) == Newest(Of(db, "positions", b), 1)
LatestPositionForLane(db, b, s) == Newest(OfLane(db, "positions", b, s), 1)
RecentCycleTracesForBot(db, b, symbol, n) ==
    Newest({r \in Of(db, "cycle_traces", b) : symbol = None \/ r.symbol = symbol}, n)
CycleTraceById(db, k) == Ascending({r \in db.table["cycle_traces"] : r.key = k})
RecentReconciliations(db, n) == Newest(db.table["reconciliations"], n)
RecentReconciliationsForBot(db, b, n) == Newest(Of(db, "reconciliations", b), n)
LatestReconciliationForBot(db, b) == Newest(Of(db, "reconciliations", b), 1)
LatestReconciliationForLane(db, b, s) == Newest(OfLane(db, "reconciliations", b, s), 1)
RecentBotEvents(db, n) == Newest(db.table["bot_events"], n)
RecentServiceEvents(db, n) == Newest(db.table["service_events"], n)
LoadBotSnapshots(db) == db.snapshots

-----------------------------------------------------------------------------
DeleteRowsForRemovedBots(rows, active) == {r \in rows : r.bot \in active}

\* One transaction over the bot scoped tables; events of no entity stay.
PruneBotsExcept(db, active) ==
    [db EXCEPT !.table = [t \in Tables |->
                            CASE t \in BotScopedTables -> DeleteRowsForRemovedBots(@[t], active)
                              [] t = "runtime_events" ->
                                   {r \in @[t] : r.bot = None \/ r.bot \in active}
                              [] t = "service_events" -> @[t]],
               !.snapshots = DeleteRowsForRemovedBots(@, active)]
=============================================================================
