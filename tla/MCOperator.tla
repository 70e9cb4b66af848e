----------------------------- MODULE MCOperator -----------------------------
(***************************************************************************)
(* The configuration and its operator for TLC: the dashboard on lists of   *)
(* up to three bots that a reload reorders, shortens and empties; the      *)
(* configuration under reloads and write requests, and under edits that a  *)
(* watcher reports; the watcher's loop; the rules of a configuration.  The *)
(* parts share no variable, except those of ConfigReload.  A behaviour     *)
(* is one of a single part, chosen at the start; the others rest in an     *)
(* initial state of theirs.                                                *)
(***************************************************************************)
EXTENDS Dashboard, TLC

CONSTANTS d1, d2, d3,                     \* bots of the dashboard
          b1, b2, acc, low, high,         \* bots, account and risk profiles to configure
          a1, a2, r1, r2, bot1, bot2,     \* and of the configurations to validate
          Parts                           \* the parts to explore

Lists == {<<d1, d2, d3>>, <<d2, d1>>, <<d3>>, <<>>}
SomeKeys == {"start", "close_positions"}
-----------------------------------------------------------------------------
(***************************************************************************)
(* Directories and write requests.                                         *)
(***************************************************************************)
BotOrder == <<b1, b2>>

Global(storage, prune) == [storage |-> storage, bot_dir |-> 1, prune |-> prune]
Account(settings, secrets, budget) ==
    [settings |-> settings, secrets |-> secrets, budget |-> budget]
Bot(symbols, risk) ==
    [timeframe |-> 1, symbols |-> symbols, bindings |-> acc, risk |-> risk]

Tree(global, account, bots) ==
    [global |-> global, accounts |-> (acc :> account), risk |-> (low :> 1), bots |-> bots]

Plain == Tree(Global(1, FALSE), Account(1, 1, 1), b2 :> Bot(1, low))
\* A second bot and other symbols; no bots; a directory that cannot be taken over,
\* and one that is not valid.
Moved == Tree(Global(1, FALSE), Account(1, 1, 2), (b1 :> Bot(1, low)) @@ (b2 :> Bot(2, low)))
Empty == Tree(Global(1, TRUE), Account(1, 1, 1), <<>>)
Foreign == Tree(Global(2, FALSE), Account(1, 2, 1), b2 :> Bot(1, low))
Dangling == Tree(Global(1, FALSE), Account(1, 1, 1), b2 :> Bot(1, high))

SomeTrees == {Plain, Moved, Empty, Foreign, Dangling}
FewTrees == {Plain, Moved}

Op(kind, id, value) == [kind |-> kind, id |-> id, value |-> value]
SomeOperations ==
    {Op("global", None, Global(1, TRUE)), Op("account", acc, [settings |-> 1, budget |-> 2]),
     Op("risk", low, 2), Op("put", b2, Bot(2, low)), Op("create", b1, Bot(1, low)),
     Op("delete", b2, None)}
OneOperation == {Op("create", b1, Bot(1, low))}
-----------------------------------------------------------------------------
(***************************************************************************)
(* Configurations to validate and account updates.                         *)
(***************************************************************************)
Environment == {"KEY", "SECRET"}

RulesAccount(kind, mode, demo, snapshot, submission, url, cash, key) ==
    [kind |-> kind, mode |-> mode, use_demo_mode |-> demo,
     secrets |-> [api_key_env |-> key, api_secret_env |-> "SECRET", passphrase_env |-> None],
     reconciliation_remote_snapshot |-> snapshot, execution_remote_submission |-> submission,
     reconciliation_base_url |-> url, cash_balance_assets |-> cash, total_budget_usd |-> 99]

SomeAccounts ==
    {RulesAccount("alpaca", "paper", FALSE, FALSE, None, None, <<>>, "KEY"),
     RulesAccount("alpaca", "live", FALSE, TRUE, FALSE, "http", <<>>, "KEY"),
     RulesAccount("alpaca", "paper", FALSE, TRUE, None, "ftp", <<>>, "KEY"),
     RulesAccount("binance", "paper", TRUE, FALSE, TRUE, "http", <<"USDT">>, "KEY"),
     RulesAccount("binance", "paper", FALSE, FALSE, FALSE, None, <<>>, "KEY"),
     RulesAccount("binance", "live", FALSE, TRUE, TRUE, None, <<"USDT", "USDT">>, "KEY"),
     RulesAccount("kraken", "paper", FALSE, FALSE, None, None, <<>>, None)}

Indicator(type, enabled, role, policy, weight) ==
    [id |-> type, type |-> type, enabled |-> enabled, role |-> role, signal_policy |-> policy,
     weight |-> weight, params_ok |-> TRUE]
Sma == Indicator("sma_crossover", TRUE, None, None, None)

PlainBot ==
    [enabled |-> TRUE, market |-> "equities", symbols |-> <<"X">>, account |-> a1,
     data_connector |-> "alpaca", execution_connector |-> "alpaca",
     strategy |-> "single_indicator_signal", signal_mode |-> "confirmed_only",
     polling_interval_ms |-> 1000, indicators |-> <<Sma>>, budget_pct |-> 60, risk |-> r1,
     target_order_notional_usd |-> None, warmup_target_bars |-> None, allow_live |-> TRUE,
     constraints |-> [quantity_step |-> None, min_quantity |-> None, min_notional_usd |-> None]]

\* Bots that differ from the plain one: markets and connectors in every
\* combination, then one thing at a time.
SomeBots ==
    {[PlainBot EXCEPT !.market = m, !.data_connector = d, !.execution_connector = e,
                   !.signal_mode = s, !.symbols = y] :
        m \in {"equities", "crypto"}, d, e \in {"alpaca", "binance"},
        s \in {"confirmed_only", "intrabar"}, y \in {<<"X">>, <<"X", "Y">>}}
    \union
    {[PlainBot EXCEPT !.enabled = FALSE], [PlainBot EXCEPT !.budget_pct = 40],
     [PlainBot EXCEPT !.budget_pct = 101], [PlainBot EXCEPT !.risk = r2],
     [PlainBot EXCEPT !.symbols = <<"X", "X">>], [PlainBot EXCEPT !.symbols = <<"">>],
     [PlainBot EXCEPT !.account = a2], [PlainBot EXCEPT !.allow_live = FALSE],
     [PlainBot EXCEPT !.polling_interval_ms = 0], [PlainBot EXCEPT !.warmup_target_bars = 49],
     [PlainBot EXCEPT !.constraints.min_quantity = 0], [PlainBot EXCEPT !.strategy = "martingale"],
     [PlainBot EXCEPT !.indicators = <<Indicator("macd", TRUE, None, None, None)>>],
     [PlainBot EXCEPT !.indicators = <<Sma, Sma>>],
     [PlainBot EXCEPT !.indicators = <<[Sma EXCEPT !.enabled = FALSE]>>],
     [PlainBot EXCEPT !.indicators = <<[Sma EXCEPT !.weight = 1]>>],
     [PlainBot EXCEPT !.indicators = <<[Sma EXCEPT !.role = "filter"]>>],
     [PlainBot EXCEPT !.indicators = <<[Sma EXCEPT !.signal_policy = "preview_allowed"]>>]}

Bundle(watched, account, one, two) ==
    [storage |-> [kind |-> "sqlite", path |-> "db", busy_timeout_ms |-> 1],
     data_plane |-> [default_polling_interval_ms |-> 5000, default_retention |-> 500,
                     watchlist |-> {[account |-> watched, polling_interval_ms |-> None,
                                     retention |-> None]}],
     require_explicit_live_enable |-> TRUE,
     accounts |-> (a1 :> account),
     risk_profiles |-> (r1 :> [target_order_notional_usd |-> None]),
     instances |-> (bot1 :> one) @@ (bot2 :> two)]

SomeBundles ==
    {Bundle(a1, account, one, two) : account \in SomeAccounts, one \in SomeBots,
                                     two \in {x \in SomeBots : x.symbols = <<"X">>}}
    \union {Bundle(a2, account, PlainBot, PlainBot) : account \in SomeAccounts}

SomeUpdates ==
    {[RulesAccount("alpaca", "paper", FALSE, s, e, None, <<>>, None) EXCEPT !.total_budget_usd = 50] :
        s \in BOOLEAN, e \in {None, TRUE, FALSE}}
-----------------------------------------------------------------------------
VARIABLES part,
          \* the configuration
          disk, pending, bundle, runtime, query, streams, journal, generation, history,
          work, client, engaged, abandoned, edits, works, requests,
          \* the watcher's loop
          version, loaded, mode, open, queue, quiet, age, fresh, missed, shutdown, noise,
          failures,
          \* the rules
          config, update

configVars == <<disk, pending, bundle, runtime, query, streams, journal, generation,
                history, work, client, engaged, abandoned, edits, works, requests>>
watcherVars == <<version, loaded, mode, open, queue, quiet, age, fresh, missed, shutdown,
                 noise, failures>>
rulesVars == <<config, update>>

Apply == INSTANCE ConfigReload WITH
    Trees <- SomeTrees, InitialTree <- Plain, Operations <- SomeOperations,
    HistoryLimit <- 2, MaxEdits <- 1, MaxWork <- 2, MaxRequests <- 0

\* The same next to requests that start and stop bots.
Busy == INSTANCE ConfigReload WITH
    Trees <- SomeTrees, InitialTree <- Plain, Operations <- SomeOperations,
    HistoryLimit <- 2, MaxEdits <- 0, MaxWork <- 2, MaxRequests <- 1

Watched == INSTANCE ConfigReload WITH
    Trees <- FewTrees, InitialTree <- Plain, Operations <- OneOperation,
    HistoryLimit <- 2, MaxEdits <- 2, MaxWork <- 3, MaxRequests <- 0

Watcher == INSTANCE ConfigWatcher WITH
    Debounce <- 2, MaxCoalesce <- 5, Backoff <- 2, MaxChanges <- 3, MaxNoise <- 2,
    MaxFailures <- 2, disk <- version

Rules == INSTANCE ConfigRules WITH
    Bundles <- SomeBundles, Updates <- SomeUpdates, LiveBalances <- {None, 0, 30, 200}

ASSUME OperatorConstants ==
    /\ Apply!ConstantsOK /\ Busy!ConstantsOK /\ Watched!ConstantsOK /\ Watcher!ConstantsOK
    /\ Rules!AccountsOK /\ Rules!IndicatorsOK /\ Rules!AmountsOK

MCInit ==
    /\ part \in Parts
    /\ Init /\ (part # "dashboard" => service = [bots |-> <<>>, kill |-> FALSE])
    /\ IF part = "watched" THEN Watched!Init ELSE Apply!Init
    /\ Watcher!Init
    /\ IF part = "rules" THEN Rules!Init
       ELSE config = (CHOOSE x \in SomeBundles: TRUE) /\ update = (CHOOSE u \in SomeUpdates: TRUE)

MCNext ==
    /\ UNCHANGED part
    /\ \/ part = "dashboard" /\ Next /\ UNCHANGED <<configVars, watcherVars, rulesVars>>
       \/ part = "apply" /\ Apply!Next /\ UNCHANGED <<vars, watcherVars, rulesVars>>
       \/ part = "busy" /\ Busy!Next /\ UNCHANGED <<vars, watcherVars, rulesVars>>
       \/ part = "watched" /\ Watched!Next /\ UNCHANGED <<vars, watcherVars, rulesVars>>
       \/ part = "watcher" /\ Watcher!Next /\ UNCHANGED <<vars, configVars, rulesVars>>
       \/ part = "rules" /\ Rules!Next /\ UNCHANGED <<vars, configVars, watcherVars>>

MCVars == <<part, vars, configVars, watcherVars, rulesVars>>

\* The fairness of the parts whose liveness is checked: the holder of the configuration
\* lock goes on and the watcher serves its events; the watcher's loop goes on and time
\* passes.
MCSpec ==
    /\ MCInit /\ [][MCNext]_MCVars
    /\ WF_configVars(part = "watched" /\ Watched!Continue)
    /\ WF_configVars(part = "watched" /\ Watched!TriggerReload)
    /\ WF_watcherVars(part = "watcher" /\ Watcher!Loop)
    /\ WF_watcherVars(part = "watcher" /\ Watcher!Pass)
-----------------------------------------------------------------------------
\* Runtime, query handle, streams and bundle are of one valid configuration whenever
\* the configuration lock is free and no client left during the last swap
\* (ConfigReload!SettledOnOneBundle).
SettledOnOneBundle ==
    /\ part = "apply" => Apply!SettledOnOneBundle
    /\ part = "busy" => Busy!SettledOnOneBundle

\* A write with the generation its author read replaces the configuration its author
\* read, unless a client kept the change of the generation from being recorded
\* (ConfigReload!GuardedWriteReplacesWhatWasRead).
GuardedWriteReplacesWhatWasRead ==
    /\ part = "apply" => Apply!GuardedWriteReplacesWhatWasRead
    /\ part = "busy" => Busy!GuardedWriteReplacesWhatWasRead

\* When the edits come to an end the service runs what is in the directory, or the
\* history says why not, unless a swap was abandoned (ConfigReload!SyncedOrToldWhy).
SyncedOrToldWhy == part = "watched" => Watched!SyncedOrToldWhy

\* A change that a watcher saw is read by a reload, though the channel closes in the
\* middle of its batch (ConfigWatcher!EveryChangeIsLoaded).
EveryChangeIsLoaded == part = "watcher" => Watcher!EveryChangeIsLoaded

\* What validation accepts can be built, takes its data from the account it trades
\* on, and allocates to its bots no more than the account may commit (ConfigRules!ValidCanBeBuilt,
\* DataComesFromTheAccount, LimitsFitTheAccount).
ValidCanBeBuilt ==
    part = "rules" =>
        /\ Rules!ValidCanBeBuilt
        /\ Rules!DataComesFromTheAccount
        /\ Rules!LimitsFitTheAccount
=============================================================================
