---------------------------- MODULE ConfigReload ----------------------------
(***************************************************************************)
(* How a running service changes its configuration.                        *)
(*                                                                         *)
(* The managed directory can be edited by hand at any time.  A file        *)
(* watcher and an API request reload it; six API requests write one entity *)
(* of it.  All of them hold config_write_lock from the first read of the   *)
(* directory to the entry in the reload history, so at most one is at work *)
(* (variable work).  The lock does not cover the runtime: while a reload   *)
(* builds the next runtime from the journal, bots start and stop and the   *)
(* kill switch is set in the current one.                                  *)
(***************************************************************************)
EXTENDS Integers, Sequences, FiniteSets

CONSTANTS
    BotOrder,      \* bot ids in the order of their file names
    Trees,         \* directories an editor may leave behind
    InitialTree,
    Operations,    \* bodies of the write requests
    None,
    HistoryLimit,  \* RELOAD_STATUS_HISTORY_LIMIT
    MaxEdits,      \* bound: edits by hand
    MaxWork,       \* bound: reloads and write requests
    MaxRequests    \* bound: starts, stops, kill switch requests

Bots == {BotOrder[i] : i \in DOMAIN BotOrder}

VARIABLES
    disk,        \* the directory, and whether all its files parse
    pending,     \* a file event the watcher has not served
    bundle,      \* state.config_bundle
    runtime,     \* state.runtime
    query,       \* bundle of the runtime behind state.query
    streams,     \* bundle the dataplane's streams come from
    journal,     \* bot snapshots
    generation, history,
    work,        \* what the holder of config_write_lock has done so far
    client,      \* a dashboard: its If-Match token and what it has read
    engaged,     \* the last kill switch request asked to stop trading
    abandoned,   \* history: what a client that left kept from being completed
    edits, works, requests

service == <<bundle, runtime, query, streams>>
status == <<generation, history>>
bounds == <<edits, works, requests>>
vars == <<disk, pending, service, journal, status, work, client, engaged, abandoned, bounds>>
-----------------------------------------------------------------------------
(***************************************************************************)
(* A tree holds the entities of the directory.  A bundle also has an order *)
(* of the bots, since the code keeps them in a vector.                     *)
(***************************************************************************)
\* read_source_dir: the files of a directory in the order of their names
Sorted(bots) == SelectSeq(BotOrder, LAMBDA b : b \in DOMAIN bots)

ToBundle(tree, order) == [tree |-> tree, order |-> order]

Load == ToBundle(disk.tree, Sorted(disk.tree.bots))

\* ConfigBundle::validate, as far as a write or an edit can break it here
Valid(tree) == \A b \in DOMAIN tree.bots : tree.bots[b].risk \in DOMAIN tree.risk

\* A service starts with a configuration that load_from_dir accepts.
ConstantsOK ==
    /\ InitialTree \in Trees /\ Valid(InitialTree)
    /\ {HistoryLimit, MaxEdits, MaxWork, MaxRequests} \subseteq Nat
    /\ HistoryLimit > 0

\* load_from_dir: every file parses, and the bundle is valid
Loadable == disk.ok /\ Valid(disk.tree)

Without(f, x) == [y \in DOMAIN f \ {x} |-> f[y]]
With(f, x, v) == [y \in DOMAIN f \union {x} |-> IF y = x THEN v ELSE f[y]]

\* What a write request does to a tree
Edited(tree, op) ==
    CASE op.kind = "global" -> [tree EXCEPT !.global = op.value]
      [] op.kind = "account" ->
            [tree EXCEPT !.accounts[op.id] =
                [@ EXCEPT !.settings = op.value.settings, !.budget = op.value.budget]]
      [] op.kind = "risk" -> [tree EXCEPT !.risk[op.id] = op.value]
      [] op.kind \in {"put", "create"} -> [tree EXCEPT !.bots = With(@, op.id, op.value)]
      [] op.kind = "delete" -> [tree EXCEPT !.bots = Without(@, op.id)]
-----------------------------------------------------------------------------
(***************************************************************************)
(* validate_reload_change_set: the codes of the changes that need a        *)
(* restart, given the bots that run.                                       *)
(***************************************************************************)
AccountViolations(old, new) ==
    LET shared == DOMAIN old.accounts \intersect DOMAIN new.accounts
        Differ(field) == \E a \in shared : old.accounts[a][field] # new.accounts[a][field]
    IN  {code \in {"account_set_changed", "account_settings_changed", "credentials_changed"} :
            \/ code = "account_set_changed" /\ DOMAIN old.accounts # DOMAIN new.accounts
            \/ code = "account_settings_changed" /\ Differ("settings")
            \/ code = "credentials_changed" /\ Differ("secrets")}

RunningInstanceViolations(old, new, running) ==
    LET kept == running \intersect DOMAIN old.bots \intersect DOMAIN new.bots
    IN  {"running_instance_missing" : b \in running \ DOMAIN old.bots}
            \union {"running_instance_removed" :
                        b \in (running \intersect DOMAIN old.bots) \ DOMAIN new.bots}
            \union {field \in {"timeframe", "symbols", "bindings"} :
                        \E b \in kept : old.bots[b][field] # new.bots[b][field]}

ChangeSetViolations(old, new, running) ==
    {field \in {"storage", "bot_dir"} : old.global[field] # new.global[field]}
        \union AccountViolations(old, new)
        \union RunningInstanceViolations(old, new, running)
-----------------------------------------------------------------------------
Running == {b \in DOMAIN runtime.state : runtime.state[b] = "running"}

Idle == [step |-> "idle"]

Start(trigger, next, op, seen) ==
    [step |-> "loaded", trigger |-> trigger, next |-> next, op |-> op, seen |-> seen,
     boot |-> None, built |-> None, wrote |-> FALSE]

NewRuntime(b, state) == [bundle |-> b, kill_switch_active |-> FALSE, state |-> state]

Init ==
    LET b == ToBundle(InitialTree, Sorted(InitialTree.bots))
        stopped == [i \in DOMAIN InitialTree.bots |-> "stopped"]
    IN  /\ disk = [tree |-> InitialTree, ok |-> TRUE]
        /\ pending = FALSE
        /\ bundle = b
        /\ runtime = NewRuntime(b, stopped)
        /\ query = b
        /\ streams = b
        /\ journal = stopped
        /\ generation = 0
        /\ history = <<>>
        /\ work = Idle
        /\ client = [token |-> None, seen |-> None]
        /\ engaged = FALSE
        /\ abandoned = {}
        /\ edits = 0 /\ works = 0 /\ requests = 0

\* push_status: the newest HistoryLimit entries
PushStatus(outcome, g) ==
    LET keep == IF Len(history) >= HistoryLimit THEN Tail(history) ELSE history
    IN  Append(keep, [outcome |-> outcome, generation |-> g])

RecordStatus(outcome) ==
    /\ history' = PushStatus(outcome, generation)
    /\ UNCHANGED generation

\* A write that is refused is answered; a reload leaves an entry, unless its
\* client is gone before record_status gets the lock of the history.
GiveUp(outcome) ==
    /\ work' = Idle
    /\ \/ work.trigger # "config_write" /\ RecordStatus(outcome)
       \/ work.trigger # "file_watcher" /\ UNCHANGED status
-----------------------------------------------------------------------------
(***************************************************************************)
(* Taking the lock.  reload_from_disk loads the directory and stops at     *)
(* once when it cannot be loaded or equals the active bundle.              *)
(***************************************************************************)
BundlesEqual(old, new) == old = new

ReloadFromDisk(trigger) ==
    /\ work = Idle /\ works < MaxWork
    /\ works' = works + 1
    /\ \/ ~Loadable /\ RecordStatus("failed") /\ UNCHANGED work
       \/ Loadable /\ BundlesEqual(bundle, Load) /\ RecordStatus("no_change")
            /\ UNCHANGED work
       \/ Loadable /\ ~BundlesEqual(bundle, Load)
            /\ work' = Start(trigger, Load, None, None)
            /\ UNCHANGED status
    /\ UNCHANGED <<disk, service, journal, client, engaged, abandoned, edits, requests>>

ManualReload == ReloadFromDisk("manual_api") /\ UNCHANGED pending
TriggerReload == pending /\ pending' = FALSE /\ ReloadFromDisk("file_watcher")

\* Mutant: the token of an earlier generation is accepted.
IfMatchOrOlder(guarded) == guarded => client.seen # None /\ client.token <= generation

\* check_if_match: a token, when there is one, names the current generation
IfMatch(guarded) == guarded => client.seen # None /\ client.token = generation

BeginConfigWrite(op, exists, order) ==
    /\ work = Idle /\ works < MaxWork
    /\ \E guarded \in BOOLEAN :
        /\ IfMatch(guarded)
        /\ disk.ok
        /\ exists
        /\ work' = Start("config_write", ToBundle(Edited(disk.tree, op), order), op,
                         IF guarded THEN client.seen ELSE None)
    /\ works' = works + 1
    /\ UNCHANGED <<disk, pending, service, journal, status, client, engaged,
                   abandoned, edits, requests>>

OnDisk == Sorted(disk.tree.bots)

PutGlobal == \E op \in {o \in Operations : o.kind = "global"} :
    BeginConfigWrite(op, TRUE, OnDisk)
PutAccount == \E op \in {o \in Operations : o.kind = "account"} :
    BeginConfigWrite(op, op.id \in DOMAIN disk.tree.accounts, OnDisk)
PutRiskProfile == \E op \in {o \in Operations : o.kind = "risk"} :
    BeginConfigWrite(op, op.id \in DOMAIN disk.tree.risk, OnDisk)
PutBot == \E op \in {o \in Operations : o.kind = "put"} :
    BeginConfigWrite(op, op.id \in DOMAIN disk.tree.bots, OnDisk)
\* The new bot goes to the end of the vector.
CreateBot == \E op \in {o \in Operations : o.kind = "create"} :
    BeginConfigWrite(op, op.id \notin DOMAIN disk.tree.bots, Append(OnDisk, op.id))
DeleteBot == \E op \in {o \in Operations : o.kind = "delete"} :
    BeginConfigWrite(op, op.id \in DOMAIN disk.tree.bots,
                     SelectSeq(OnDisk, LAMBDA b : b # op.id))
-----------------------------------------------------------------------------
(***************************************************************************)
(* The steps under the lock.                                               *)
(***************************************************************************)
Check ==
    /\ work.step = "loaded"
    /\ IF /\ Valid(work.next.tree)
          /\ ChangeSetViolations(bundle.tree, work.next.tree, Running) = {}
       THEN work' = [work EXCEPT !.step = "checked"] /\ UNCHANGED status
       ELSE GiveUp("rejected")
    /\ UNCHANGED <<disk, pending, service, journal, client, engaged, abandoned, bounds>>

\* A write builds from a clone of the candidate that has pruning disabled.
Prune(snapshots) ==
    IF work.trigger # "config_write" /\ work.next.tree.global.prune
    THEN [b \in DOMAIN snapshots \intersect DOMAIN work.next.tree.bots |-> snapshots[b]]
    ELSE snapshots

\* bootstrap_journal_state: the snapshots the lanes are built from
Bootstrap ==
    /\ work.step = "checked"
    /\ journal' = Prune(journal)
    /\ work' = [work EXCEPT !.step = "booting", !.boot = journal']
    /\ UNCHANGED <<disk, pending, service, status, client, engaged, abandoned, bounds>>

BootState(snapshots, bots) ==
    [b \in bots |-> IF b \notin DOMAIN snapshots THEN "stopped"
                    ELSE IF snapshots[b] = "running" THEN "reconciling"
                    ELSE snapshots[b]]

Merged(new, old) ==
    [b \in DOMAIN new \union DOMAIN old |-> IF b \in DOMAIN new THEN new[b] ELSE old[b]]

\* The boot snapshots are written, then the lanes that were running are
\* reconciled, and resumed where the venue agrees.  The runtime cannot be
\* built when a ledger, the journal or a reconciliation fails: before the
\* boot snapshots or after them.
StartUp ==
    /\ work.step = "booting"
    /\ LET boot == BootState(work.boot, DOMAIN work.next.tree.bots)
           uncertain == {b \in DOMAIN boot : boot[b] = "reconciling"}
       IN  \/ GiveUp("failed") /\ journal' \in {journal, Merged(boot, journal)}
           \/ \E resumed \in SUBSET uncertain :
                LET state == [b \in DOMAIN boot |->
                                IF b \in resumed THEN "running"
                                ELSE IF b \in uncertain THEN "paused" ELSE boot[b]]
                IN  /\ journal' = Merged(state, journal)
                    /\ work' = [work EXCEPT !.step = "built",
                                            !.built = NewRuntime(work.next, state)]
                    /\ UNCHANGED status
    /\ UNCHANGED <<disk, pending, service, client, engaged, abandoned, bounds>>

\* write_atomic replaces one file and cannot leave half of it; a file that
\* is gone cannot be removed.
Persist ==
    /\ work.step = "built" /\ work.trigger = "config_write"
    /\ \/ /\ work.op.kind = "delete" => work.op.id \in DOMAIN disk.tree.bots
          /\ disk' = [disk EXCEPT !.tree = Edited(@, work.op)]
          /\ pending' = TRUE
          /\ work' = [work EXCEPT !.step = "saved", !.wrote = TRUE]
          /\ UNCHANGED status
       \/ GiveUp("failed") /\ UNCHANGED <<disk, pending>>
    /\ UNCHANGED <<service, journal, client, engaged, abandoned, bounds>>

Ready == \/ work.step = "saved"
         \/ work.step = "built" /\ work.trigger # "config_write"

\* apply_bundle takes four locks one after the other.
SwapRuntime ==
    /\ Ready
    /\ runtime' = work.built
    /\ work' = [work EXCEPT !.step = "swapped"]
    /\ UNCHANGED <<disk, pending, bundle, query, streams, journal, status, client, engaged,
                   abandoned, bounds>>

SwapQuery ==
    /\ work.step = "swapped"
    /\ query' = work.built.bundle
    /\ work' = [work EXCEPT !.step = "queried"]
    /\ UNCHANGED <<disk, pending, bundle, runtime, streams, journal, status, client, engaged,
                   abandoned, bounds>>

\* Mutant: the streams of the bundle that is still in place.
ReplaceStreamsTooEarly ==
    /\ work.step = "queried"
    /\ streams' = bundle
    /\ work' = [work EXCEPT !.step = "streamed"]
    /\ UNCHANGED <<disk, pending, bundle, runtime, query, journal, status, client, engaged,
                   abandoned, bounds>>

ReplaceStreams ==
    /\ work.step = "queried"
    /\ streams' = runtime.bundle
    /\ work' = [work EXCEPT !.step = "streamed"]
    /\ UNCHANGED <<disk, pending, bundle, runtime, query, journal, status, client, engaged,
                   abandoned, bounds>>

SetBundle ==
    /\ work.step = "streamed"
    /\ bundle' = work.next
    /\ abandoned' = abandoned \ {"swap"}
    /\ work' = [work EXCEPT !.step = "set"]
    /\ UNCHANGED <<disk, pending, runtime, query, streams, journal, status, client, engaged,
                   bounds>>

\* Mutant: the events of the batch are dropped when the reload is over.
RecordAppliedAndDrain ==
    /\ work.step = "set"
    /\ generation' = generation + 1
    /\ history' = PushStatus("reloaded", generation')
    /\ abandoned' = abandoned \ {"record"}
    /\ work' = Idle
    /\ pending' = FALSE
    /\ UNCHANGED <<disk, service, journal, client, engaged, bounds>>

RecordApplied ==
    /\ work.step = "set"
    /\ generation' = generation + 1
    /\ history' = PushStatus("reloaded", generation')
    /\ abandoned' = abandoned \ {"record"}
    /\ work' = Idle
    /\ UNCHANGED <<disk, pending, service, journal, client, engaged, bounds>>

LeftUndone(step) ==
    IF step \in {"swapped", "queried", "streamed"} THEN {"swap"}
    ELSE IF step = "set" THEN {"record"} ELSE {}

\* The server drops a handler whose client is gone where it waits for a lock,
\* and config_write_lock with it.  The watcher's reloads are nobody's request.
Cancel ==
    /\ work # Idle /\ work.trigger # "file_watcher"
    /\ Ready \/ work.step \in {"loaded", "swapped", "queried", "streamed", "set"}
    /\ work' = Idle
    /\ abandoned' = abandoned \union LeftUndone(work.step)
    /\ UNCHANGED <<disk, pending, service, journal, status, client, engaged, bounds>>
-----------------------------------------------------------------------------
(***************************************************************************)
(* What goes on meanwhile: edits, requests to the runtime, a dashboard.    *)
(***************************************************************************)
EditFiles ==
    /\ edits < MaxEdits
    /\ \E tree \in Trees, ok \in BOOLEAN :
        /\ disk' = [tree |-> tree, ok |-> ok]
        /\ disk' # disk
    /\ edits' = edits + 1
    /\ pending' = TRUE
    /\ UNCHANGED <<service, journal, status, work, client, engaged, abandoned, works, requests>>

Request ==
    /\ requests < MaxRequests
    /\ requests' = requests + 1
    /\ UNCHANGED <<disk, pending, bundle, query, streams, status, work, client, abandoned, edits,
                   works>>

\* A bot changes state in the runtime that is installed now, and its
\* snapshot in the journal, which the next runtime shares.
MoveBots(bots, state) ==
    /\ runtime' = [runtime EXCEPT !.state =
                    [b \in DOMAIN @ |-> IF b \in bots THEN state ELSE @[b]]]
    /\ journal' = Merged([b \in bots |-> state], journal)

StartBot(b) ==
    /\ Request
    /\ ~runtime.kill_switch_active
    /\ runtime.state[b] # "running"
    /\ MoveBots({b}, "running")
    /\ UNCHANGED engaged

StopBot(b) ==
    /\ Request
    /\ runtime.state[b] = "running"
    /\ MoveBots({b}, "stopped")
    /\ UNCHANGED engaged

EnableKillSwitch ==
    /\ Request
    /\ engaged' = TRUE
    /\ runtime' = [runtime EXCEPT !.kill_switch_active = TRUE,
                                  !.state = [b \in DOMAIN @ |-> IF b \in Running THEN "paused"
                                                                ELSE @[b]]]
    /\ journal' = Merged([b \in Running |-> "paused"], journal)

ClearKillSwitch ==
    /\ Request
    /\ engaged
    /\ engaged' = FALSE
    /\ runtime' = [runtime EXCEPT !.kill_switch_active = FALSE]
    /\ UNCHANGED journal

\* A dashboard takes its token from the reload status first, then reads the
\* configuration it will change.
ReadToken ==
    /\ client.token # generation
    /\ client' = [token |-> generation, seen |-> None]
    /\ UNCHANGED <<disk, pending, service, journal, status, work, engaged, abandoned, bounds>>

ReadEffective ==
    /\ client.token # None /\ client.seen = None
    /\ client' = [client EXCEPT !.seen = bundle]
    /\ UNCHANGED <<disk, pending, service, journal, status, work, engaged, abandoned, bounds>>

Write == PutGlobal \/ PutAccount \/ PutRiskProfile \/ PutBot \/ CreateBot \/ DeleteBot

Continue ==
    \/ Check \/ Bootstrap \/ StartUp \/ Persist
    \/ SwapRuntime \/ SwapQuery \/ ReplaceStreams \/ SetBundle \/ RecordApplied

Next ==
    \/ ManualReload \/ TriggerReload \/ Write \/ Continue \/ Cancel
    \/ EditFiles \/ ReadToken \/ ReadEffective
    \/ \E b \in DOMAIN runtime.state : StartBot(b) \/ StopBot(b)
    \/ EnableKillSwitch \/ ClearKillSwitch

Spec == Init /\ [][Next]_vars

\* The holder of the lock goes on, and the watcher serves its events: both
\* are tasks that wait for nothing but the lock.
FairSpec == Spec /\ WF_vars(Continue) /\ WF_vars(TriggerReload)
-----------------------------------------------------------------------------
TypeOK ==
    /\ DOMAIN disk = {"tree", "ok"} /\ disk.ok \in BOOLEAN /\ pending \in BOOLEAN
    /\ \A b \in {bundle, runtime.bundle, query, streams} :
            {b.order[i] : i \in DOMAIN b.order} = DOMAIN b.tree.bots
    /\ DOMAIN runtime.state = DOMAIN runtime.bundle.tree.bots
    /\ DOMAIN journal \subseteq Bots
    /\ generation \in Nat /\ Len(history) <= HistoryLimit
    /\ edits \in 0..MaxEdits /\ works \in 0..MaxWork /\ requests \in 0..MaxRequests

\* apply_bundle replaces the runtime, the query handle, the streams and the
\* bundle under four locks: whoever finds the configuration lock free finds
\* all four of the same configuration, whatever was refused or failed before,
\* unless the client of a request left between the first lock and the last and
\* nothing was applied since.  Even then bundle and runtime are valid ones.
SettledOnOneBundle ==
    work = Idle =>
        /\ Valid(bundle.tree) /\ Valid(runtime.bundle.tree)
        /\ "swap" \notin abandoned =>
            bundle = runtime.bundle /\ bundle = query /\ bundle = streams

\* record_status and record_applied: the generations of the history never go
\* back, the newest is the current one, and each change of it has its entry.
HistoryTellsGeneration ==
    /\ history # <<>> => history[Len(history)].generation = generation
    /\ \A i \in 1..Len(history) - 1 :
        history[i + 1].generation =
            history[i].generation + (IF history[i + 1].outcome = "reloaded" THEN 1 ELSE 0)

\* finish_config_write: "Nothing is written to disk unless every validation
\* step passes", and what is written takes effect: no request takes effect
\* without its file, no step after the file operation can refuse the request,
\* and when its client leaves before the end the watcher has an event to serve.
WrittenIffApplied ==
    [][work # Idle /\ work' = Idle /\ work.trigger = "config_write" =>
        /\ generation' # generation => work.wrote
        /\ work.wrote => generation' = generation + 1 \/ pending']_vars

\* check_if_match under the lock: a write with the generation its author read
\* replaces the configuration its author read, although the generation and
\* the configuration are read by two requests and change at two moments.  A
\* client that leaves between the two moments keeps them apart until the next
\* change is recorded.
GuardedWriteReplacesWhatWasRead ==
    work # Idle /\ work.step # "set" /\ work.seen # None /\ "record" \notin abandoned =>
        work.seen = bundle

\* A write may fail after the next runtime was built, so it must not have
\* pruned the journal of a bot that is then still configured.
WriteKeepsJournals ==
    [][work # Idle /\ work.trigger = "config_write" =>
        DOMAIN journal \subseteq DOMAIN journal']_vars

\* The watcher and the lock: when the edits come to an end the service runs
\* what is in the directory, or the newest entry of the history says why not,
\* unless a swap was abandoned and nothing was applied since.
SyncedOrToldWhy ==
    <>[](works < MaxWork /\ "swap" \notin abandoned =>
            \/ disk.ok /\ runtime.bundle.tree = disk.tree
            \/ history # <<>> /\ history[Len(history)].outcome \in {"failed", "rejected"})
-----------------------------------------------------------------------------
(***************************************************************************)
(* Four statements of the repository that the code does not keep.          *)
(***************************************************************************)
\* "reload requires restart because running instance .. was removed": a bot
\* that runs when the runtime is replaced is in the next one, on the same
\* timeframe, symbols and bindings.
RunningBotsKeepTheirLanes ==
    [][runtime'.bundle # runtime.bundle =>
        RunningInstanceViolations(runtime.bundle.tree, runtime'.bundle.tree, Running) = {}]_vars

\* A kill switch that was enabled stays active until a request clears it.
KillSwitchHoldsUntilCleared == engaged => runtime.kill_switch_active

\* "The reload pipeline owns no-op detection (self-write suppression)": a
\* reload of a directory that holds exactly what is active changes nothing.
OwnWritesAreSuppressed ==
    [][work = Idle /\ Loadable /\ disk.tree = bundle.tree /\ work' # Idle =>
        work'.trigger = "config_write"]_vars

\* Side effects of a write that fails after the build are "accepted harmless
\* residual": it leaves the snapshots of the configured bots as they are.
FailedWriteKeepsSnapshots ==
    [][work # Idle /\ work' = Idle /\ work.trigger = "config_write" /\ ~work.wrote =>
        \A b \in DOMAIN runtime.state : journal'[b] = runtime.state[b]]_vars
=============================================================================
