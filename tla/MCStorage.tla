------------------------------ MODULE MCStorage ------------------------------
(***************************************************************************)
(* The journal's two backends and the operator's read models, for TLC.     *)
(* The backends share no variable with the read models, which have their   *)
(* own journal.  A behaviour is one of a single part, chosen at the start: *)
(* a part is one of the two with the calls it makes.  The other rests in   *)
(* its initial state.                                                      *)
(***************************************************************************)
EXTENDS Naturals, TLC

CONSTANTS None, bot1, bot2, l1, l2,
          Parts          \* the parts to explore

VARIABLES part,
          sql, mem, calls,
          journal, models, writing, report, next, toReconcile, served, configured,
          pnl, nextPnl, writes, reports, restarts, reloads

journalVars == <<sql, mem, calls>>
modelVars == <<journal, models, writing, report, next, toReconcile, served, configured,
               pnl, nextPnl, writes, reports, restarts, reloads>>

\* Two bots that trade one symbol each: their lane ids are their bot ids.
TwoBots == {bot1, bot2}
SingleSymbol == (bot1 :> bot1) @@ (bot2 :> bot2)
OneSymbolEach == (l1 :> bot1) @@ (l2 :> bot2)
OneBot == (l1 :> bot1) @@ (l2 :> bot1)
SomeSymbols == (l1 :> "X") @@ (l2 :> "Y")

\* A few calls of every kind, and more of the calls whose records are looked up by
\* the lane or by a key.
Every == INSTANCE Journal WITH
    Ids <- TwoBots, BotOf <- SingleSymbol, Symbols <- {"X"}, Keys <- {"k1"},
    Fees <- {None, 0, 1},
    Used <- {"fills", "bot_snapshots", "signals", "runtime_events", "bot_events",
             "service_events", "trade_intents", "risk_decisions", "prune"},
    MaxCalls <- 3, MaxLimit <- 3
Laned == INSTANCE Journal WITH
    Ids <- TwoBots, BotOf <- SingleSymbol, Symbols <- {"X", "Y"}, Keys <- {"k1"},
    Fees <- {1}, Used <- {"fills", "cycle_traces", "positions", "reconciliations", "prune"},
    MaxCalls <- 3, MaxLimit <- 2
Keyed == INSTANCE Journal WITH
    Ids <- TwoBots, BotOf <- SingleSymbol, Symbols <- {"X"}, Keys <- {"k1", "k2"},
    Fees <- {0}, Used <- {"orders", "fills", "cycle_traces", "prune"},
    MaxCalls <- 4, MaxLimit <- 2

Feeds == INSTANCE ReadModels WITH
    Lanes <- {l1, l2}, BotOf <- OneSymbolEach, SymbolOf <- SomeSymbols, Keys <- {"k1"},
    Used <- {"runtime_events", "service_events", "positions"},
    GlobalCap <- 3, BotCap <- 2, EntityCap <- 2, Retried <- FALSE,
    Prunes <- BOOLEAN, MaxWrites <- 4, MaxReports <- 0, MaxRestarts <- 1, MaxReloads <- 0
Cycle == INSTANCE ReadModels WITH
    Lanes <- {l1, l2}, BotOf <- OneSymbolEach, SymbolOf <- SomeSymbols, Keys <- {"k1", "k2"},
    Used <- {"signals", "trade_intents", "risk_decisions", "orders", "fills"},
    GlobalCap <- 3, BotCap <- 2, EntityCap <- 2, Retried <- FALSE,
    Prunes <- BOOLEAN, MaxWrites <- 3, MaxReports <- 0, MaxRestarts <- 1, MaxReloads <- 0
Report == INSTANCE ReadModels WITH
    Lanes <- {l1, l2}, BotOf <- OneSymbolEach, SymbolOf <- SomeSymbols, Keys <- {"k1"},
    Used <- {"reconciliations"},
    GlobalCap <- 3, BotCap <- 2, EntityCap <- 2, Retried <- FALSE,
    Prunes <- {FALSE}, MaxWrites <- 4, MaxReports <- 2, MaxRestarts <- 1, MaxReloads <- 0
Reload == INSTANCE ReadModels WITH
    Lanes <- {l1, l2}, BotOf <- OneSymbolEach, SymbolOf <- SomeSymbols, Keys <- {"k1"},
    Used <- {"positions"},
    GlobalCap <- 3, BotCap <- 2, EntityCap <- 2, Retried <- FALSE,
    Prunes <- {TRUE}, MaxWrites <- 3, MaxReports <- 1, MaxRestarts <- 1, MaxReloads <- 1
Profit == INSTANCE ReadModels WITH
    Lanes <- {l1, l2}, BotOf <- OneBot, SymbolOf <- SomeSymbols, Keys <- {"k1"},
    Used <- {"positions"},
    GlobalCap <- 3, BotCap <- 2, EntityCap <- 2, Retried <- FALSE,
    Prunes <- BOOLEAN, MaxWrites <- 4, MaxReports <- 0, MaxRestarts <- 2, MaxReloads <- 0

ASSUME StorageConstants ==
    Feeds!ConstantsOK /\ Cycle!ConstantsOK /\ Report!ConstantsOK /\ Reload!ConstantsOK
        /\ Profit!ConstantsOK

MCInit ==
    /\ part \in Parts
    /\ Every!Init
    /\ IF part = "profit" THEN Profit!Init ELSE Feeds!Init

MCNext ==
    /\ UNCHANGED part
    /\ \/ part = "every" /\ Every!Next /\ UNCHANGED modelVars
       \/ part = "laned" /\ Laned!Next /\ UNCHANGED modelVars
       \/ part = "keyed" /\ Keyed!Next /\ UNCHANGED modelVars
       \/ part = "feeds" /\ Feeds!Next /\ UNCHANGED journalVars
       \/ part = "cycle" /\ Cycle!Next /\ UNCHANGED journalVars
       \/ part = "report" /\ Report!Next /\ UNCHANGED journalVars
       \/ part = "reload" /\ Reload!Next /\ UNCHANGED journalVars
       \/ part = "profit" /\ Profit!Next /\ UNCHANGED journalVars

MCVars == <<part, journalVars, modelVars>>

MCSpec == MCInit /\ [][MCNext]_MCVars
-----------------------------------------------------------------------------
\* The two backends give the same answer to every query of the journal, for every
\* limit, up to fees that are not positive (Journal!BackendsAgree).
BackendsAgree ==
    /\ part = "every" => Every!BackendsAgree
    /\ part = "laned" => Laned!BackendsAgree
    /\ part = "keyed" => Keyed!BackendsAgree

\* A feed shows the newest records of the journal (ReadModels!FeedIsTail); over a
\* reload, which loads the next feeds while the current ones are written, it still
\* shows records of the journal, each once and in order (ReadModels!FeedInOrder).
FeedIsTail ==
    /\ part = "feeds" => Feeds!FeedIsTail
    /\ part = "cycle" => Cycle!FeedIsTail
    /\ part = "reload" => Reload!FeedInOrder

\* The latest position or reconciliation is the newest one of the journal, though
\* a report puts back the record it read (ReadModels!LatestIsNewest).
LatestIsNewest ==
    /\ part = "feeds" => Feeds!LatestIsNewest
    /\ part = "report" => Report!LatestIsNewest

\* The record of a sell accounts for all the sells of its lane before it, over
\* restarts (ReadModels!PnlAccumulates).
PnlAccumulates == part = "profit" => Profit!PnlAccumulates
=============================================================================
