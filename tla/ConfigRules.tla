---------------------------- MODULE ConfigRules ----------------------------
(***************************************************************************)
(* Which configurations are accepted, and what the runtime may take for    *)
(* granted about them.                                                     *)
(*                                                                         *)
(* ConfigBundle::validate is translated rule by rule; next to it stands    *)
(* what building a runtime needs, and what an account update through the   *)
(* API turns an account into.  The runs compare them over the              *)
(* configurations that differ from a plain one in a few places.            *)
(***************************************************************************)
EXTENDS Integers, Sequences, FiniteSetsExt, Functions

CONSTANTS
    Bundles,        \* configurations to look at
    Updates,        \* bodies of account updates
    Environment,    \* environment variables that are set
    LiveBalances,   \* balances a venue may report; None: none is known
    None

\* Accounts are records that say, or leave open, whether orders are submitted.
AccountsOK ==
    \A b \in Bundles : \A a \in DOMAIN b.accounts :
        LET x == b.accounts[a]
        IN  x = [f \in DOMAIN x |-> x[f]] /\ "execution_remote_submission" \in DOMAIN x

\* A list of indicators that is not the empty one has an element.
IndicatorsOK ==
    \A b \in Bundles : \A i \in DOMAIN b.instances :
        DOMAIN b.instances[i].indicators # {} \/ b.instances[i].indicators = <<>>

\* There are finitely many bots, and amounts are counted.
AmountsOK ==
    /\ LiveBalances \subseteq Nat \union {None}
    /\ \A b \in Bundles :
        /\ IsFiniteSet(DOMAIN b.instances)
        /\ \A i \in DOMAIN b.instances : b.instances[i].budget_pct \in Nat
        /\ \A a \in DOMAIN b.accounts : b.accounts[a].total_budget_usd \in Nat

VARIABLES
    config,         \* a configuration
    update          \* an account update

vars == <<config, update>>

Seen(option, default) == IF option = None THEN default ELSE option
-----------------------------------------------------------------------------
(***************************************************************************)
(* connectors.rs                                                           *)
(***************************************************************************)
ConnectorCapabilities ==
    [k \in {"alpaca", "binance"} |->
        [data |-> TRUE, execution |-> TRUE,
         markets |-> IF k = "alpaca" THEN {"equities"} ELSE {"crypto"},
         secrets |-> {"api_key_env", "api_secret_env"}]]

SupportsMarket(kind, market) == market \in ConnectorCapabilities[kind].markets

SupportsPreview(kind) == kind = "binance"

CashAssets == {"USD", "USDT", "USDC", "BUSD", "FDUSD"}
-----------------------------------------------------------------------------
(***************************************************************************)
(* global.rs, account.rs                                                   *)
(***************************************************************************)
ValidStorage(storage) ==
    /\ storage.kind = "sqlite"
    /\ storage.path # ""
    /\ storage.busy_timeout_ms # 0

ValidDataPlane(plane, accounts) ==
    /\ plane.default_polling_interval_ms >= 1000
    /\ plane.default_retention >= 10
    /\ \A w \in plane.watchlist :
        /\ w.account \in DOMAIN accounts
        /\ Seen(w.polling_interval_ms, plane.default_polling_interval_ms) >= 1000
        /\ Seen(w.retention, plane.default_retention) >= 10

ValidSecretReference(secret) == secret # None => secret # "" /\ secret \in Environment

\* binance paper accounts must be demo accounts
ValidAccountMode(a) == a.kind = "binance" /\ a.mode = "paper" => a.use_demo_mode

ValidAccountSecrets(a) ==
    \A field \in DOMAIN a.secrets :
        /\ field \in ConnectorCapabilities[a.kind].secrets => a.secrets[field] # None
        /\ ValidSecretReference(a.secrets[field])

ValidTotalBudget(a) == a.total_budget_usd > 0

ValidCashAssets(a) ==
    a.cash_balance_assets # <<>> =>
        /\ a.kind = "binance"
        /\ IsInjective(a.cash_balance_assets)
        /\ Range(a.cash_balance_assets) \subseteq CashAssets

\* execution_remote_submission_enabled
Submits(a) == Seen(a.execution_remote_submission, a.reconciliation_remote_snapshot)

ValidReconciliation(a) ==
    a.reconciliation_base_url # None =>
        /\ a.reconciliation_remote_snapshot \/ Submits(a)
        /\ a.reconciliation_base_url = "http"

ValidAccount(a) ==
    /\ a.kind \in DOMAIN ConnectorCapabilities
    /\ ValidAccountMode(a) /\ ValidAccountSecrets(a) /\ ValidReconciliation(a)
    /\ ValidCashAssets(a) /\ ValidTotalBudget(a)
-----------------------------------------------------------------------------
(***************************************************************************)
(* instance.rs, indicators.rs                                              *)
(***************************************************************************)
Positive(option) == option # None => option > 0

ValidBudget(bot) == bot.budget_pct > 0 /\ bot.budget_pct <= 100

ValidBindings(bot, account) ==
    /\ bot.data_connector \in DOMAIN ConnectorCapabilities
    /\ ConnectorCapabilities[bot.data_connector].data
    /\ SupportsMarket(bot.data_connector, bot.market)
    /\ bot.execution_connector \in DOMAIN ConnectorCapabilities
    /\ ConnectorCapabilities[bot.execution_connector].execution
    /\ SupportsMarket(bot.execution_connector, bot.market)
    /\ bot.execution_connector = account.kind

ValidConstraints(bot) ==
    /\ Positive(bot.constraints.quantity_step)
    /\ Positive(bot.constraints.min_quantity)
    /\ Positive(bot.constraints.min_notional_usd)

ValidSignalMode(bot, account) ==
    bot.signal_mode = "intrabar" =>
        account.mode # "live" /\ SupportsPreview(bot.data_connector)

\* The manifests of the built-in indicators
Manifest ==
    [t \in {"sma_crossover", "rsi_threshold"} |->
        [role_default |-> IF t = "sma_crossover" THEN "primary_signal" ELSE "filter",
         allowed_roles |-> IF t = "sma_crossover" THEN {"primary_signal"}
                           ELSE {"filter", "context"},
         stability |-> "stable_on_close",
         markets |-> {"equities", "crypto"},
         phases |-> {"intrabar", "preview", "confirmed"},
         minimum |-> 50, recommended |-> 200]]

RoleOf(i) == Seen(i.role, Manifest[i.type].role_default)

\* What a signal mode or a signal policy asks of an indicator
NeedsPhases(previews) == IF previews THEN {"intrabar", "preview"} ELSE {"confirmed"}

ValidIndicator(bot, live, i) ==
    /\ i.type \in DOMAIN Manifest
    /\ LET manifest == Manifest[i.type]
       IN  /\ RoleOf(i) \in manifest.allowed_roles
           /\ bot.market \in manifest.markets
           /\ NeedsPhases(bot.signal_mode = "intrabar") \subseteq manifest.phases
           /\ RoleOf(i) = "primary_signal" /\ live =>
                manifest.stability \notin {"parity_only_unsafe", "zigzag_revisable"}
           /\ i.signal_policy # None =>
                /\ NeedsPhases(i.signal_policy = "preview_allowed") \subseteq manifest.phases
                /\ ~(bot.signal_mode = "confirmed_only" /\ i.signal_policy = "preview_allowed")
           /\ i.weight # None => i.weight > 0 /\ bot.strategy = "consensus"

Largest(S) == Max(S \union {0})

ValidIndicators(bot, live) ==
    /\ \A n, k \in DOMAIN bot.indicators :
        n # k => bot.indicators[n].id # bot.indicators[k].id
    /\ \A n \in DOMAIN bot.indicators : ValidIndicator(bot, live, bot.indicators[n])
    /\ bot.warmup_target_bars # None =>
        bot.warmup_target_bars >=
            Largest({Manifest[i.type].minimum : i \in Range(bot.indicators)})
-----------------------------------------------------------------------------
(***************************************************************************)
(* mod.rs.  Accounts, risk profiles and bots are functions of their ids,   *)
(* which are distinct and not blank; symbols are compared in upper case.   *)
(***************************************************************************)
\* Mutant: only the account is looked up.
AccountExists(b, bot) == bot.account \in DOMAIN b.accounts

ReferencesExist(b, bot) ==
    bot.account \in DOMAIN b.accounts /\ bot.risk \in DOMAIN b.risk_profiles

ValidBot(b, bot) ==
    /\ bot.symbols # <<>>
    /\ \A n \in DOMAIN bot.symbols : bot.symbols[n] # ""
    /\ IsInjective(bot.symbols)
    /\ ReferencesExist(b, bot)
    /\ ValidBindings(bot, b.accounts[bot.account])
    /\ bot.indicators # <<>>
    /\ bot.polling_interval_ms # 0
    /\ Positive(bot.target_order_notional_usd)
    /\ ValidConstraints(bot)
    /\ ValidBudget(bot)
    /\ ValidSignalMode(bot, b.accounts[bot.account])
    /\ ValidIndicators(bot, b.accounts[bot.account].mode = "live")
    /\ b.require_explicit_live_enable /\ b.accounts[bot.account].mode = "live" => bot.allow_live

Allocated(b, account) ==
    {i \in DOMAIN b.instances : b.instances[i].enabled /\ b.instances[i].account = account}

SumPct(b, bots) ==
    SumFunctionOnSet([i \in DOMAIN b.instances |-> b.instances[i].budget_pct], bots)

ValidAllocations(b) ==
    \A a \in DOMAIN b.accounts :
        SumPct(b, Allocated(b, a)) <= 100

Validate(b) ==
    /\ ValidStorage(b.storage)
    /\ ValidDataPlane(b.data_plane, b.accounts)
    /\ \A a \in DOMAIN b.accounts : ValidAccount(b.accounts[a])
    /\ \A r \in DOMAIN b.risk_profiles : Positive(b.risk_profiles[r].target_order_notional_usd)
    /\ \A i \in DOMAIN b.instances : ValidBot(b, b.instances[i])
    /\ ValidAllocations(b)
-----------------------------------------------------------------------------
(***************************************************************************)
(* What building a runtime needs: construction.rs, build.rs, instance.     *)
(***************************************************************************)
Enabled(bot) == SelectSeq(bot.indicators, LAMBDA i : i.enabled)

\* build_runtime_indicators, build_runtime_strategy
EngineBuilds(i) == i.type \in DOMAIN Manifest /\ i.params_ok
IndicatorsBuild(bot) ==
    Enabled(bot) # <<>> /\ \A i \in Range(Enabled(bot)) : EngineBuilds(i)
StrategyBuilds(bot) == bot.strategy \in {"single_indicator_signal", "consensus"}

\* required_warmup_bars
RequiredWarmup(bot) ==
    Seen(bot.warmup_target_bars,
         Largest({Manifest[i.type].recommended : i \in Range(Enabled(bot))}))

\* resolved_risk_limits, resolved_target_order_notional_usd
RiskResolves(b, bot) == bot.risk \in DOMAIN b.risk_profiles

\* build_connector_registry
RegistryBuilds(b) == \A a \in DOMAIN b.accounts : b.accounts[a].kind \in {"alpaca", "binance"}

LaneBuilds(b, i) ==
    LET bot == b.instances[i]
    IN  /\ bot.symbols # <<>>
        /\ Len(bot.symbols) > 1 => \A n \in DOMAIN bot.symbols : bot.symbols[n] # ""
        /\ RiskResolves(b, bot) /\ IndicatorsBuild(bot) /\ StrategyBuilds(bot)
-----------------------------------------------------------------------------
(***************************************************************************)
(* AccountConfigUpdate::into_account, and the settings that need a restart.*)
(***************************************************************************)
\* What an update replaces as it comes; the id and the secrets stay.
Replaced == {"kind", "mode", "use_demo_mode", "reconciliation_remote_snapshot",
             "reconciliation_base_url", "cash_balance_assets", "total_budget_usd"}

Adopt(u, existing, submission) ==
    [f \in DOMAIN existing |->
        IF f \in Replaced THEN u[f]
        ELSE IF f = "execution_remote_submission" THEN submission ELSE existing[f]]

IntoAccount(u, existing) ==
    Adopt(u, existing,
          IF u.execution_remote_submission \notin {None, Submits(existing)}
          THEN u.execution_remote_submission ELSE existing.execution_remote_submission)

\* account_settings_changed
SettingsChanged(old, new) ==
    \/ Submits(old) # Submits(new)
    \/ \E f \in Replaced \ {"cash_balance_assets", "total_budget_usd"} : old[f] # new[f]

\* What a dashboard that read the effective configuration sends back
Echo(a) == [a EXCEPT !.execution_remote_submission = Submits(a)]

-----------------------------------------------------------------------------
(***************************************************************************)
(* account_ledger.rs: what the ledger takes from the configuration.        *)
(***************************************************************************)
EffectiveCap(account, live) ==
    IF live = None THEN account.total_budget_usd
    ELSE IF live < account.total_budget_usd THEN live ELSE account.total_budget_usd

\* bot_allocated_usd, in hundredths
BotAllocated(account, live, bot) == EffectiveCap(account, live) * bot.budget_pct
-----------------------------------------------------------------------------
Init == config \in Bundles /\ update \in Updates
Next == UNCHANGED vars
Spec == Init /\ [][Next]_vars
-----------------------------------------------------------------------------
\* What stops a valid configuration from being built is a disabled, unknown
\* or badly parameterised indicator or an unknown strategy, which validate
\* leaves to the build: accounts, connectors, risk profiles and lanes resolve,
\* and the warmup covers every indicator that runs.
ValidCanBeBuilt ==
    Validate(config) =>
        /\ RegistryBuilds(config)
        /\ \A i \in DOMAIN config.instances :
            LET bot == config.instances[i]
            IN  IndicatorsBuild(bot) /\ StrategyBuilds(bot) =>
                    /\ LaneBuilds(config, i)
                    /\ \A k \in Range(Enabled(bot)) :
                        RequiredWarmup(bot) >= Manifest[k.type].minimum

\* Bars and previews are fetched with the connector of the bot's account, not
\* with its data_connector: in a valid configuration the two are the same, so
\* an intrabar bot has an account that can stream previews.
DataComesFromTheAccount ==
    Validate(config) =>
        \A i \in DOMAIN config.instances :
            LET bot == config.instances[i]
            IN  /\ bot.data_connector = config.accounts[bot.account].kind
                /\ bot.signal_mode = "intrabar" =>
                    SupportsPreview(config.accounts[bot.account].kind)

\* What the ledger lets the bots that can run on an account commit adds up to
\* no more than the account may commit as a whole, whatever balance the venue
\* reports: checking the percentages of the enabled bots is enough.
LimitsFitTheAccount ==
    Validate(config) =>
        \A a \in DOMAIN config.accounts, live \in LiveBalances :
            SumFunctionOnSet(
                [i \in DOMAIN config.instances |->
                    BotAllocated(config.accounts[a], live, config.instances[i])],
                Allocated(config, a)) <= 100 * EffectiveCap(config.accounts[a], live)

\* A dashboard that saves what it read changes nothing, not even whether a
\* setting is inherited.
SavingWhatWasReadChangesNothing ==
    \A a \in DOMAIN config.accounts :
        IntoAccount(Echo(config.accounts[a]), config.accounts[a]) = config.accounts[a]

\* An update that needs no restart leaves the account submitting orders to the
\* venue exactly when the update asked for it.
SubmitsAsAsked ==
    \A a \in DOMAIN config.accounts :
        LET new == IntoAccount(update, config.accounts[a])
        IN  ~SettingsChanged(config.accounts[a], new)
                /\ update.execution_remote_submission # None =>
            Submits(new) = update.execution_remote_submission
=============================================================================
