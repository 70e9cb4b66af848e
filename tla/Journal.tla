------------------------------ MODULE Journal ------------------------------
(***************************************************************************)
(* The RuntimeJournal contract: the same calls made on the SQLite backend  *)
(* and on the in-memory one.  The runtime serialises its writes, so a step *)
(* is one call, made on both.  The payload of a write is the number of the *)
(* call, so two writes of one order never carry the same payload.          *)
(***************************************************************************)
EXTENDS Naturals, Sequences, TLC

CONSTANTS
    None,
    Ids,       \* the ids records are written under: bot ids and lane ids
    BotOf,     \* the configured bot an id belongs to
    Symbols, Keys,
    Fees,      \* the fees fills are written with: none, or a number
    Used,      \* the calls this instance makes
    MaxCalls, MaxLimit

Sql == INSTANCE SqliteJournal
Mem == INSTANCE MemoryJournal

VARIABLES sql, mem, calls
vars == <<sql, mem, calls>>

BotIds == {BotOf[i] : i \in Ids}
Init == sql = Sql!EmptySqlite /\ mem = Mem!EmptyMemory /\ calls = 0

Call(op, s, m) ==
    /\ op \in Used
    /\ calls < MaxCalls
    /\ calls' = calls + 1
    /\ sql' = s
    /\ mem' = m

Row(i, s, k) == [bot |-> i, symbol |-> s, key |-> k, v |-> calls]
Writes == {Row(i, s, k) : i \in Ids, s \in Symbols, k \in Keys}
\* A runtime event has no symbol and may have no entity; a service event has neither.
Events == {Row(i, None, k) : i \in Ids \cup {None}, k \in Keys}

AppendEvent == \E w \in Events :
    Call("runtime_events", Sql!AppendEvent(sql, w), Mem!AppendEvent(mem, w))
AppendSignal == \E w \in Writes :
    Call("signals", Sql!AppendSignal(sql, w), Mem!AppendSignal(mem, w))
AppendIntent == \E w \in Writes :
    Call("trade_intents", Sql!AppendIntent(sql, w), Mem!AppendIntent(mem, w))
AppendRiskDecision == \E w \in Writes :
    Call("risk_decisions", Sql!AppendRiskDecision(sql, w), Mem!AppendRiskDecision(mem, w))
AppendOrder == \E w \in Writes :
    Call("orders", Sql!AppendOrder(sql, w), Mem!AppendOrder(mem, w))
\* The connectors report no fee or a positive one; the journal takes any number.
AppendFill == \E w \in Writes, fee \in Fees :
    LET fill == w @@ [fee |-> fee]
    IN  Call("fills", Sql!AppendFill(sql, fill), Mem!AppendFill(mem, fill))
AppendPosition == \E w \in Writes :
    Call("positions", Sql!AppendPosition(sql, w), Mem!AppendPosition(mem, w))
AppendCycleTrace == \E w \in Writes :
    Call("cycle_traces", Sql!AppendCycleTrace(sql, w), Mem!AppendCycleTrace(mem, w))
AppendReconciliation == \E w \in Writes :
    Call("reconciliations", Sql!AppendReconciliation(sql, w), Mem!AppendReconciliation(mem, w))
AppendBotEvent == \E w \in Writes :
    Call("bot_events", Sql!AppendBotEvent(sql, w), Mem!AppendBotEvent(mem, w))
AppendServiceEvent == \E k \in Keys :
    LET w == Row(None, None, k)
    IN  Call("service_events", Sql!AppendServiceEvent(sql, w), Mem!AppendServiceEvent(mem, w))
UpsertBotSnapshot == \E i \in Ids :
    Call("bot_snapshots", Sql!UpsertBotSnapshot(sql, i, calls),
         Mem!UpsertBotSnapshot(mem, i, calls))
\* Start-up prunes with the ids of the configured bots.
PruneBotsExcept(active) ==
    Call("prune", Sql!PruneBotsExcept(sql, active), Mem!PruneBotsExcept(mem, active))

Next ==
    \/ AppendEvent \/ AppendSignal \/ AppendIntent \/ AppendRiskDecision
    \/ AppendOrder \/ AppendFill \/ AppendPosition \/ AppendCycleTrace
    \/ AppendReconciliation \/ AppendBotEvent \/ AppendServiceEvent
    \/ UpsertBotSnapshot
    \/ \E active \in SUBSET BotIds : PruneBotsExcept(active)

Spec == Init /\ [][Next]_vars

-----------------------------------------------------------------------------
TypeOK ==
    /\ calls \in 0..MaxCalls
    /\ \A t \in Sql!Tables : \A r \in sql.table[t] :
          /\ r.id \in 1..sql.seq[t]
          /\ r.bot \in Ids \cup {None} /\ r.symbol \in Symbols \cup {None}
          /\ r.key \in Keys /\ r.v < calls
    /\ \A t \in DOMAIN mem.table : Len(mem.table[t]) <= calls

\* Two answers hold the same records in the same order; ids are not compared.
Without(record) == [record EXCEPT !.id = 0]
Agree(p, q) ==
    /\ Len(p) = Len(q)
    /\ \A i \in 1..Len(p) : Without(p[i]) = Without(q[i])
\* Fills agree up to fees that are not positive, which only the file keeps.
AgreeOnFills(p, q) == Agree([i \in DOMAIN p |-> Mem!WithPositiveFee(p[i])], q)

\* Whatever was written and pruned before, the two backends give the same
\* answer to every query of the journal, for every limit: the records of the
\* newest ids are the last ones inserted, a retried order, fill or trace is
\* ignored by both, and a prune leaves the same records.  The one difference is
\* a fee that is not positive: the file keeps it, the vector does not.
BackendsAgree ==
    /\ \A n \in 0..MaxLimit :
          /\ Agree(Sql!RecentEvents(sql, n), Mem!RecentEvents(mem, n))
          /\ Agree(Sql!RecentSignals(sql, n), Mem!RecentSignals(mem, n))
          /\ Agree(Sql!RecentIntents(sql, n), Mem!RecentIntents(mem, n))
          /\ Agree(Sql!RecentRiskDecisions(sql, n), Mem!RecentRiskDecisions(mem, n))
          /\ Agree(Sql!RecentOrders(sql, n), Mem!RecentOrders(mem, n))
          /\ AgreeOnFills(Sql!RecentFills(sql, n), Mem!RecentFills(mem, n))
          /\ Agree(Sql!RecentPositions(sql, n), Mem!RecentPositions(mem, n))
          /\ Agree(Sql!RecentReconciliations(sql, n), Mem!RecentReconciliations(mem, n))
          /\ Agree(Sql!RecentBotEvents(sql, n), Mem!RecentBotEvents(mem, n))
          /\ Agree(Sql!RecentServiceEvents(sql, n), Mem!RecentServiceEvents(mem, n))
    /\ \A i \in Ids, n \in 0..MaxLimit :
          /\ Agree(Sql!RecentEventsForEntity(sql, i, n), Mem!RecentEventsForEntity(mem, i, n))
          /\ Agree(Sql!RecentOrdersForBot(sql, i, n), Mem!RecentOrdersForBot(mem, i, n))
          /\ AgreeOnFills(Sql!RecentFillsForBot(sql, i, n), Mem!RecentFillsForBot(mem, i, n))
          /\ Agree(Sql!RecentPositionsForBot(sql, i, n), Mem!RecentPositionsForBot(mem, i, n))
          /\ Agree(Sql!RecentReconciliationsForBot(sql, i, n),
                   Mem!RecentReconciliationsForBot(mem, i, n))
          /\ \A s \in Symbols \cup {None} :
                Agree(Sql!RecentCycleTracesForBot(sql, i, s, n),
                      Mem!RecentCycleTracesForBot(mem, i, s, n))
    /\ \A i \in Ids :
          /\ Agree(Sql!LatestPositionForBot(sql, i), Mem!LatestPositionForBot(mem, i))
          /\ Agree(Sql!LatestReconciliationForBot(sql, i), Mem!LatestReconciliationForBot(mem, i))
          /\ \A s \in Symbols :
                /\ Agree(Sql!LatestPositionForLane(sql, i, s), Mem!LatestPositionForLane(mem, i, s))
                /\ Agree(Sql!LatestReconciliationForLane(sql, i, s),
                         Mem!LatestReconciliationForLane(mem, i, s))
    /\ \A k \in Keys :
          /\ Agree(Sql!OrdersByClientOrderId(sql, k), Mem!OrdersByClientOrderId(mem, k))
          /\ Agree(Sql!CycleTraceById(sql, k), Mem!CycleTraceById(mem, k))
          /\ \A n \in 0..MaxLimit :
                /\ Agree(Sql!RecentEventsByScope(sql, k, n), Mem!RecentEventsByScope(mem, k, n))
                /\ \A i \in Ids :
                      Agree(Sql!RecentEventsByScopeAndEntity(sql, k, i, n),
                            Mem!RecentEventsByScopeAndEntity(mem, k, i, n))
    /\ Sql!LoadBotSnapshots(sql) = Mem!LoadBotSnapshots(mem)

\* A retried write never rewrites history: as long as the journal has a record
\* of an order or a fill under its client order id, or of a cycle under its
\* trace id, it is the first one written, with the first one's payload.
FirstWriteWins ==
    [][\A t \in {"orders", "fills", "cycle_traces"} :
          \A r \in sql.table[t], q \in sql'.table[t] :
             /\ t = "cycle_traces" /\ Sql!Same(r, q, Sql!TraceIndex) => q = r
             /\ t # "cycle_traces" /\ Sql!Same(r, q, Sql!OrderIndex) => q = r]_vars

\* "Removes persisted rows for bot ids that are no longer configured"
\* (journal.rs): a prune deletes no record of a bot that is still configured,
\* and no event of the service as a whole.
PruneKeepsConfigured ==
    [][\A active \in SUBSET BotIds : PruneBotsExcept(active) =>
          /\ \A t \in Sql!Tables : \A r \in sql.table[t] :
                r.bot = None \/ BotOf[r.bot] \in active => r \in sql'.table[t]
          /\ \A r \in sql.snapshots : BotOf[r.bot] \in active => r \in sql'.snapshots]_vars

\* Once a bot is pruned nothing of it is left: no query can return a record of
\* it before it writes again.
PruneForgetsRemoved ==
    [][\A active \in SUBSET BotIds : PruneBotsExcept(active) =>
          /\ \A t \in Sql!Tables : \A r \in sql'.table[t] : r.bot = None \/ BotOf[r.bot] \in active
          /\ \A r \in sql'.snapshots : BotOf[r.bot] \in active]_vars
=============================================================================
