----------------------------- MODULE ReadModels -----------------------------
(***************************************************************************)
(* The operator read models: bounded feeds and latest-record maps that are *)
(* loaded from the journal when a runtime is built, projected after every  *)
(* journal write, and read by HTTP queries without the runtime's lock.     *)
(*                                                                         *)
(* The thread that holds the runtime writes; a reconciliation report reads *)
(* and re-ingests concurrently; a reload builds the next runtime, with     *)
(* read models of its own, while the current one keeps writing; a crash    *)
(* loses everything but the journal.                                       *)
(***************************************************************************)
EXTENDS Naturals, FiniteSets, SequencesExt

CONSTANTS
    None,
    Lanes, BotOf, SymbolOf,
    Keys,        \* client order ids
    Used,        \* the tables this instance writes
    Retried,     \* whether a cycle that failed half way is run again
    GlobalCap, BotCap, EntityCap,   \* capacities of the feeds
    Prunes,      \* whether a start prunes the journal: a subset of BOOLEAN
    MaxWrites, MaxReports, MaxRestarts, MaxReloads

ConstantsOK ==
    /\ {GlobalCap, BotCap, EntityCap} \subseteq Nat \ {0}
    /\ Prunes \subseteq BOOLEAN /\ Retried \in BOOLEAN
    /\ {MaxWrites, MaxReports, MaxRestarts, MaxReloads} \subseteq Nat

Sql == INSTANCE SqliteJournal

VARIABLES
    journal,     \* the SQLite journal
    models,      \* the read models of the current runtime
    writing,     \* records of the running append that are not projected yet
    report,      \* the reconciliation report a request is building, or None
    next,        \* the read models of a runtime under construction, or None
    toReconcile, \* lanes the start-up reconciliation of it has not checked
    served,      \* the last report, with what was acknowledged when it began
    configured,  \* the bots of the running configuration
    pnl, nextPnl, \* realized profit of the lanes: current runtime, next runtime
    writes, reports, restarts, reloads

bounds == <<writes, reports, restarts, reloads>>
vars == <<journal, models, writing, report, next, toReconcile, served,
          configured, pnl, nextPnl, bounds>>

Feeds == {"runtime_events", "signals", "trade_intents", "risk_decisions", "orders", "fills",
          "positions", "reconciliations"}
Bots == {BotOf[l] : l \in Lanes}
LanesOf(b) == {l \in Lanes : BotOf[l] = b}
\* lane_instance_id: the bot id for a bot of one symbol, else bot::SYMBOL
LaneId(l) == IF Cardinality(LanesOf(BotOf[l])) = 1 THEN BotOf[l] ELSE <<BotOf[l], SymbolOf[l]>>
-----------------------------------------------------------------------------
(* OperatorReadModelsState.  An index or map has no entry for a key that   *)
(* was never pushed.                                                       *)
NoModels ==
    [feed |-> [t \in Feeds |-> <<>>],
     byBot |-> [t \in {"orders", "fills", "positions", "reconciliations"} |-> <<>>],
     byScope |-> <<>>, byEntity |-> <<>>,
     latestBot |-> [t \in {"positions", "reconciliations"} |-> <<>>],
     latestLane |-> [t \in {"positions", "reconciliations"} |-> <<>>],
     nextId |-> [t \in Feeds |-> 1]]

PushBounded(records, r, cap) ==
    LET longer == Append(records, r)
    IN  SubSeq(longer, IF Len(longer) > cap THEN Len(longer) - cap + 1 ELSE 1, Len(longer))

Entry(f, k, default) == IF k \in DOMAIN f THEN f[k] ELSE default
PushToIndex(index, k, r, cap) == (k :> PushBounded(Entry(index, k, <<>>), r, cap)) @@ index

UpsertLatest(map, k, r) == (k :> r) @@ map
UpsertLatestById(map, k, r) ==
    IF k \in DOMAIN map /\ map[k].id > r.id THEN map ELSE (k :> r) @@ map

PushFeed(m, t, r) == [m EXCEPT !.feed[t] = PushBounded(@, r, GlobalCap)]
PushBotFeed(m, t, r) ==
    [PushFeed(m, t, r) EXCEPT !.byBot[t] = PushToIndex(@, r.bot, r, BotCap)]
PushLatest(m, t, r) ==
    [PushBotFeed(m, t, r) EXCEPT
        !.latestBot[t] = UpsertLatestById(@, r.bot, r),
        !.latestLane[t] = UpsertLatestById(@, <<r.bot, r.symbol>>, r)]

PushRuntimeEvent(m, r) ==
    [PushFeed(m, "runtime_events", r) EXCEPT
        !.byScope = PushToIndex(@, r.key, r, GlobalCap),
        !.byEntity = IF r.bot = None THEN @ ELSE PushToIndex(@, r.bot, r, EntityCap)]
PushSignal(m, r) == PushFeed(m, "signals", r)
PushIntent(m, r) == PushFeed(m, "trade_intents", r)
PushRiskDecision(m, r) == PushFeed(m, "risk_decisions", r)
PushOrder(m, r) == PushBotFeed(m, "orders", r)
PushFill(m, r) == PushBotFeed(m, "fills", r)
PushPosition(m, r) == PushLatest(m, "positions", r)
PushReconciliation(m, r) == PushLatest(m, "reconciliations", r)

Push(m, t, r) ==
    CASE t = "runtime_events" -> PushRuntimeEvent(m, r)
      [] t = "signals" -> PushSignal(m, r)
      [] t = "trade_intents" -> PushIntent(m, r)
      [] t = "risk_decisions" -> PushRiskDecision(m, r)
      [] t = "orders" -> PushOrder(m, r)
      [] t = "fills" -> PushFill(m, r)
      [] t = "positions" -> PushPosition(m, r)
      [] t = "reconciliations" -> PushReconciliation(m, r)

\* ingest_*: a record of the journal keeps its id, and the counter passes it.
Ingest(m, t, r) ==
    Push([m EXCEPT !.nextId[t] = IF r.id + 1 > @ THEN r.id + 1 ELSE @], t, r)
IngestNewestFirst(m, t, records) ==
    FoldLeft(LAMBDA acc, r : Ingest(acc, t, r), m, Reverse(records))
IngestAll(m, t, records) == FoldLeft(LAMBDA acc, r : Ingest(acc, t, r), m, records)

\* record_*_write: the projection numbers its records itself.
Numbered(m, t, w) == w @@ [id |-> m.nextId[t]]
Counted(m, t) == [m EXCEPT !.nextId[t] = @ + 1]
RecordRuntimeEventWrite(m, w) ==
    PushRuntimeEvent(Counted(m, "runtime_events"), Numbered(m, "runtime_events", w))
RecordSignalWrite(m, w) == PushSignal(Counted(m, "signals"), Numbered(m, "signals", w))
RecordIntentWrite(m, w) ==
    PushIntent(Counted(m, "trade_intents"), Numbered(m, "trade_intents", w))
RecordRiskDecisionWrite(m, w) ==
    PushRiskDecision(Counted(m, "risk_decisions"), Numbered(m, "risk_decisions", w))
RecordOrderWrite(m, w) == PushOrder(Counted(m, "orders"), Numbered(m, "orders", w))
RecordFillWrite(m, w) == PushFill(Counted(m, "fills"), Numbered(m, "fills", w))
RecordPositionWrite(m, w) == PushPosition(Counted(m, "positions"), Numbered(m, "positions", w))
RecordReconciliationWrite(m, w) ==
    PushReconciliation(Counted(m, "reconciliations"), Numbered(m, "reconciliations", w))

\* OperatorReadModels::bootstrap, after the journal was pruned or not
Bootstrap(db) ==
    LET Load(m, t) == IngestAll(m, t, Sql!Newest(db.table[t], GlobalCap))
    IN  Load(Load(Load(Load(Load(Load(Load(Load(NoModels,
            "runtime_events"), "signals"), "trade_intents"), "risk_decisions"), "orders"),
            "fills"), "positions"), "reconciliations")

LatestReconciliationForLane(m, b, s) == Entry(m.latestLane["reconciliations"], <<b, s>>, None)
-----------------------------------------------------------------------------
(* The appends of the runtime.  Each is a program of journal writes, and a *)
(* projection after the write it belongs to.                               *)
Row(id, s, k) == [bot |-> id, symbol |-> s, key |-> k, v |-> writes]
ToJournal(t, w) == [store |-> "journal", t |-> t, w |-> w]
Projected(t, w) == <<ToJournal(t, w), [store |-> "models", t |-> t, w |-> w]>>

Write(t, l, profit, program) ==
    /\ t \in Used
    /\ BotOf[l] \in configured
    /\ writing = <<>>
    /\ writes < MaxWrites
    /\ writing' = program
    /\ pnl' = [pnl EXCEPT ![l] = profit]
    /\ writes' = writes + 1
    /\ UNCHANGED <<journal, models, report, next, toReconcile, served, configured, nextPnl,
                   reports, restarts, reloads>>

BotRow(l, k) == Row(BotOf[l], SymbolOf[l], k)
AppendSignalRecord(l) == Write("signals", l, pnl[l], Projected("signals", BotRow(l, None)))
AppendIntentRecord(l) == Write("trade_intents", l, pnl[l], Projected("trade_intents", BotRow(l, None)))
AppendRiskDecisionRecord(l) ==
    Write("risk_decisions", l, pnl[l], Projected("risk_decisions", BotRow(l, None)))
\* A repeated cycle derives the client order ids it derived the first time.
OrderKeys(l, t) ==
    {k \in Keys : Retried \/ \A r \in journal.table[t] :
                               ~Sql!Same(r, BotRow(l, k), Sql!OrderIndex)}
AppendOrderRecord(l) ==
    \E k \in OrderKeys(l, "orders") : Write("orders", l, pnl[l], Projected("orders", BotRow(l, k)))
AppendFillRecord(l) ==
    \E k \in OrderKeys(l, "fills") : Write("fills", l, pnl[l], Projected("fills", BotRow(l, k)))
\* A position record carries the lane's accumulated profit; here every one is
\* of a sell that earned 1.
AppendPositionRecord(l) == Write("positions", l, pnl[l] + 1, Projected("positions", BotRow(l, pnl[l] + 1)))
\* The id of a reconciliation and of an instance event is the lane's.
ReconciliationRow(l) == Row(LaneId(l), SymbolOf[l], None)
AppendReconciliationRecord(l) ==
    Write("reconciliations", l, pnl[l], Projected("reconciliations", ReconciliationRow(l)))
AppendRuntimeEvent(id, scope) == Projected("runtime_events", Row(id, None, scope))
AppendInstanceEvent(l) ==
    Write("runtime_events", l, pnl[l],
          <<ToJournal("bot_events", Row(LaneId(l), None, None))>>
              \o AppendRuntimeEvent(LaneId(l), "instance"))
AppendServiceEvent(l) ==
    Write("service_events", l, pnl[l],
          <<ToJournal("service_events", Row(None, None, None))>>
              \o AppendRuntimeEvent(None, "service"))

JournalAppend(db, t, w) ==
    CASE t = "runtime_events" -> Sql!AppendEvent(db, w)
      [] t = "signals" -> Sql!AppendSignal(db, w)
      [] t = "trade_intents" -> Sql!AppendIntent(db, w)
      [] t = "risk_decisions" -> Sql!AppendRiskDecision(db, w)
      [] t = "orders" -> Sql!AppendOrder(db, w)
      [] t = "fills" -> Sql!AppendFill(db, w)
      [] t = "positions" -> Sql!AppendPosition(db, w)
      [] t = "reconciliations" -> Sql!AppendReconciliation(db, w)
      [] t = "bot_events" -> Sql!AppendBotEvent(db, w)
      [] t = "service_events" -> Sql!AppendServiceEvent(db, w)

RecordWrite(m, t, w) ==
    CASE t = "runtime_events" -> RecordRuntimeEventWrite(m, w)
      [] t = "signals" -> RecordSignalWrite(m, w)
      [] t = "trade_intents" -> RecordIntentWrite(m, w)
      [] t = "risk_decisions" -> RecordRiskDecisionWrite(m, w)
      [] t = "orders" -> RecordOrderWrite(m, w)
      [] t = "fills" -> RecordFillWrite(m, w)
      [] t = "positions" -> RecordPositionWrite(m, w)
      [] t = "reconciliations" -> RecordReconciliationWrite(m, w)

AppendStep ==
    /\ writing # <<>>
    /\ LET s == Head(writing)
       IN  IF s.store = "journal"
           THEN journal' = JournalAppend(journal, s.t, s.w) /\ UNCHANGED models
           ELSE models' = RecordWrite(models, s.t, s.w) /\ UNCHANGED journal
    /\ writing' = Tail(writing)
    /\ UNCHANGED <<report, next, toReconcile, served, configured, pnl, nextPnl, bounds>>

-----------------------------------------------------------------------------
(* snapshot_reconciliation_report: for every lane, the latest record of    *)
(* the read models or else of the journal, which is then ingested.         *)
\* The newest check of a lane that its append has been acknowledged for.
Acknowledged(l) ==
    LET pending == {writing[i].w : i \in DOMAIN writing}
        rows == {r \in Sql!OfLane(journal, "reconciliations", LaneId(l), SymbolOf[l]) :
                    \A w \in pending : w.v # r.v}
    IN  IF rows = {} THEN None ELSE Sql!Newest(rows, 1)[1].v

StartReport(b) ==
    /\ report = None
    /\ reports < MaxReports
    /\ b \in configured
    /\ report' = [bot |-> b, todo |-> LanesOf(b), read |-> None, lanes |-> {}, swapped |-> FALSE,
                  acknowledged |-> [l \in LanesOf(b) |-> Acknowledged(l)]]
    /\ reports' = reports + 1
    /\ UNCHANGED <<journal, models, writing, next, toReconcile, served, configured, pnl,
                   nextPnl, writes, restarts, reloads>>

\* The journal is only asked when the read models know no check of the lane.
ReportReads(l) ==
    /\ report # None
    /\ report.read = None
    /\ l \in report.todo
    /\ ~report.swapped
    /\ LET projected == LatestReconciliationForLane(models, report.bot, SymbolOf[l])
           persisted == Sql!LatestReconciliationForLane(journal, report.bot, SymbolOf[l])
       IN  report' = [report EXCEPT
                        !.todo = @ \ {l},
                        !.read = CASE projected # None -> projected
                                   [] projected = None /\ persisted # <<>> -> persisted[1]
                                   [] OTHER -> None]
    /\ UNCHANGED <<journal, models, writing, next, toReconcile, served, configured, pnl, nextPnl, bounds>>

\* After a reload the read models of the report's handle are nobody's.
ReportIngests ==
    /\ report # None
    /\ report.read # None
    /\ models' = IF report.swapped THEN models ELSE Ingest(models, "reconciliations", report.read)
    /\ report' = [report EXCEPT !.read = None, !.lanes = @ \cup {report.read}]
    /\ UNCHANGED <<journal, writing, next, toReconcile, served, configured, pnl, nextPnl, bounds>>

FinishReport ==
    /\ report # None
    /\ report.read = None
    /\ report.todo = {} \/ report.swapped
    /\ served' = IF report.swapped THEN served ELSE report
    /\ report' = None
    /\ UNCHANGED <<journal, models, writing, next, toReconcile, configured, pnl, nextPnl, bounds>>

-----------------------------------------------------------------------------
(* What a runtime takes from the journal: the profit of a lane is that of  *)
(* its latest position record, or of its bot's if that has one symbol.     *)
RecoveredByBot(db) ==
    [l \in Lanes |->
        LET ofBot == Sql!LatestPositionForBot(db, BotOf[l])
        IN  IF ofBot = <<>> THEN 0 ELSE ofBot[1].key]
RecoveredRealizedPnl(db) ==
    [l \in Lanes |->
        LET ofLane == Sql!LatestPositionForLane(db, BotOf[l], SymbolOf[l])
            ofBot == Sql!LatestPositionForBot(db, BotOf[l])
        IN  CASE ofLane # <<>> -> ofLane[1].key
              [] ofLane = <<>> /\ ofBot # <<>> /\ Cardinality(LanesOf(BotOf[l])) = 1 -> ofBot[1].key
              [] OTHER -> 0]

(* A reload bootstraps a second runtime from the journal, which reconciles *)
(* the lanes its bot snapshots say were running, and then takes the first  *)
(* one's place.  The first one writes until then.                          *)
BuildRuntime ==
    /\ next = None
    /\ reloads < MaxReloads
    /\ reloads' = reloads + 1
    /\ next' = Bootstrap(journal)
    /\ nextPnl' = RecoveredRealizedPnl(journal)
    /\ toReconcile' \in SUBSET {l \in Lanes : BotOf[l] \in configured}
    /\ UNCHANGED <<journal, models, writing, report, served, configured, pnl,
                   writes, reports, restarts>>

RunStartupReconciliation(l) ==
    /\ next # None
    /\ l \in toReconcile
    /\ toReconcile' = toReconcile \ {l}
    /\ writes' = writes + 1
    /\ journal' = Sql!AppendReconciliation(journal, ReconciliationRow(l))
    /\ next' = RecordReconciliationWrite(next, ReconciliationRow(l))
    /\ UNCHANGED <<models, writing, report, served, configured, pnl, nextPnl,
                   reports, restarts, reloads>>

\* The swap waits for the runtime's lock, so no append is half done.
SwapRuntime ==
    /\ next # None
    /\ toReconcile = {}
    /\ writing = <<>>
    /\ models' = next
    /\ pnl' = nextPnl
    /\ next' = None
    /\ report' = IF report = None THEN None ELSE [report EXCEPT !.swapped = TRUE]
    /\ UNCHANGED <<journal, writing, toReconcile, served, configured, nextPnl, bounds>>

\* The process ends at any point and starts with a configuration of `bots',
\* pruning the journal first when it is told to.
Restart(bots, prune) ==
    /\ restarts < MaxRestarts
    /\ restarts' = restarts + 1
    /\ configured' = bots
    /\ journal' = IF prune THEN Sql!PruneBotsExcept(journal, bots) ELSE journal
    /\ models' = Bootstrap(journal')
    /\ pnl' = RecoveredRealizedPnl(journal')
    /\ writing' = <<>>
    /\ report' = None
    /\ next' = None
    /\ toReconcile' = {}
    /\ served' = None
    /\ UNCHANGED <<nextPnl, writes, reports, reloads>>

Init ==
    /\ journal = Sql!EmptySqlite
    /\ models = Bootstrap(Sql!EmptySqlite)
    /\ writing = <<>>
    /\ report = None /\ next = None /\ toReconcile = {} /\ served = None
    /\ configured = Bots
    /\ pnl = [l \in Lanes |-> 0] /\ nextPnl = [l \in Lanes |-> 0]
    /\ writes = 0 /\ reports = 0 /\ restarts = 0 /\ reloads = 0

Next ==
    \/ \E l \in Lanes :
          \/ AppendSignalRecord(l) \/ AppendIntentRecord(l) \/ AppendRiskDecisionRecord(l)
          \/ AppendOrderRecord(l) \/ AppendFillRecord(l) \/ AppendPositionRecord(l)
          \/ AppendReconciliationRecord(l) \/ AppendInstanceEvent(l) \/ AppendServiceEvent(l)
          \/ ReportReads(l)
          \/ RunStartupReconciliation(l)
    \/ AppendStep
    \/ \E b \in Bots : StartReport(b)
    \/ ReportIngests \/ FinishReport
    \/ BuildRuntime \/ SwapRuntime
    \/ \E bots \in SUBSET Bots, prune \in Prunes : Restart(bots, prune)

Spec == Init /\ [][Next]_vars

-----------------------------------------------------------------------------
TypeOK ==
    /\ \A t \in Feeds : Len(models.feed[t]) <= GlobalCap
    /\ \A t \in DOMAIN models.byBot : \A b \in DOMAIN models.byBot[t] :
          Len(models.byBot[t][b]) \in 1..BotCap
    /\ \A e \in DOMAIN models.byEntity : Len(models.byEntity[e]) \in 1..EntityCap
    /\ \A t \in Feeds : \A r \in ToSet(models.feed[t]) : r.id < models.nextId[t]
    /\ Len(writing) <= 3
    /\ configured \subseteq Bots
    /\ pnl \in [Lanes -> Nat] /\ nextPnl \in [Lanes -> Nat]
    /\ writes \in Nat /\ reports <= MaxReports /\ restarts <= MaxRestarts /\ reloads <= MaxReloads

Contents(records) == [i \in DOMAIN records |-> [records[i] EXCEPT !.id = 0]]
\* No append is between its journal write and its projection.
Settled == writing = <<>>

\* The feed of a table is the tail of the journal's table, record by record
\* and in its order: nothing is dropped, repeated or swapped by the
\* projection, by a bootstrap, or by a crash between write and projection.
FeedIsTail ==
    Settled => \A t \in Used \cap Feeds :
        Contents(models.feed[t]) = Contents(Sql!Newest(journal.table[t], GlobalCap))

\* Whatever happens around it, a reload included, a feed only shows records the
\* journal still has, each once, in the order they were written.
FeedInOrder ==
    \A t \in Used \cap Feeds :
        LET feed == models.feed[t]
            Written(r) == {q \in journal.table[t] : q.v = r.v}
        IN  /\ \A i \in DOMAIN feed : Written(feed[i]) # {}
            /\ \A i, j \in DOMAIN feed : i < j =>
                  \A p \in Written(feed[i]), q \in Written(feed[j]) : p.id < q.id

\* The timeline of a bot or entity has no gap: it ends with the newest record
\* of the journal, skips none going back, and is as long as its capacity and
\* the records the bootstrap loaded allow.
IndexIsSuffix ==
    Settled =>
        \A t \in Used \cap {"orders", "fills", "positions", "runtime_events"} :
            LET index == IF t = "runtime_events" THEN models.byEntity ELSE models.byBot[t]
                cap == IF t = "runtime_events" THEN EntityCap ELSE BotCap
            IN  \A b \in Bots :
                   LET held == Entry(index, b, <<>>)
                       loaded == {r \in ToSet(Sql!Newest(journal.table[t], GlobalCap)) : r.bot = b}
                   IN  /\ Contents(held) = Contents(Sql!Newest(Sql!Of(journal, t, b), Len(held)))
                       /\ Len(held) >= IF Cardinality(loaded) < cap THEN Cardinality(loaded)
                                       ELSE cap

\* What the read models call the latest position or reconciliation of a lane
\* or bot is the newest one in the journal, even though a report puts back,
\* at any later time, the record it read.
LatestIsNewest ==
    Settled =>
        \A t \in Used \cap {"positions", "reconciliations"} :
            /\ \A b \in DOMAIN models.latestBot[t] :
                  Contents(<<models.latestBot[t][b]>>) = Contents(Sql!Newest(Sql!Of(journal, t, b), 1))
            /\ \A k \in DOMAIN models.latestLane[t] :
                  Contents(<<models.latestLane[t][k]>>) =
                      Contents(Sql!Newest(Sql!OfLane(journal, t, k[1], k[2]), 1))

\* Profit is never lost: the record of a sell accounts for all the sells of
\* its lane before it, those of earlier processes included.
PnlAccumulates ==
    \A l \in Lanes :
        LET rows == Sql!OfLane(journal, "positions", BotOf[l], SymbolOf[l])
        IN  \A r \in rows : r.key = Cardinality({q \in rows : q.id <= r.id})

\* A reconciliation report has a check for every lane that was checked before
\* the request, and none older than what was acknowledged by then.
ReportIsCurrent ==
    served # None =>
        \A l \in LanesOf(served.bot) : served.acknowledged[l] # None =>
            \E r \in served.lanes : r.symbol = SymbolOf[l] /\ r.v >= served.acknowledged[l]
=============================================================================
