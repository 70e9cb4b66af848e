--------------------------- MODULE ConfigWatcher ---------------------------
(***************************************************************************)
(* The watcher of the configuration directory: how file events become      *)
(* reloads.                                                                *)
(*                                                                         *)
(* Every change of a file puts an event into a channel without a limit,    *)
(* as long as a notify watcher is registered.  The first relevant event    *)
(* opens a batch, which ends when the directory has been quiet for a while *)
(* or when the batch is too old; then the directory is reloaded.  When the *)
(* channel closes, or no watcher can be created, the loop tries again after*)
(* a while.  A reload is one step of this module; ConfigReload has its     *)
(* parts.                                                                  *)
(***************************************************************************)
EXTENDS Integers, Sequences

CONSTANTS
    Debounce,      \* CONFIG_WATCH_DEBOUNCE_MS
    MaxCoalesce,   \* CONFIG_WATCH_MAX_COALESCE_MS
    Backoff,       \* CONFIG_WATCH_RECREATE_BACKOFF_MS
    MaxChanges,    \* bound: changes of a .toml file
    MaxNoise,      \* bound: events of other files
    MaxFailures    \* bound: closed channels and failed registrations

ConstantsOK ==
    /\ {Debounce, MaxCoalesce, Backoff} \subseteq Nat \ {0}
    /\ {MaxChanges, MaxNoise, MaxFailures} \subseteq Nat

VARIABLES
    disk,       \* version of the directory
    loaded,     \* version the newest reload read
    mode,       \* where the loop is
    open,       \* the channel has a sender
    queue,      \* events in the channel
    quiet,      \* time since the quiet window was opened
    age,        \* time since the batch was opened, or since the backoff began
    fresh,      \* history: time since the newest relevant event of the batch
    missed,     \* history: a change that no watcher saw
    shutdown,
    noise, failures

batch == <<quiet, age, fresh>>
bounds == <<noise, failures>>
vars == <<disk, loaded, mode, open, queue, batch, missed, shutdown, bounds>>

Init ==
    /\ disk = 0 /\ loaded = 0
    /\ mode = "create" /\ open = FALSE
    /\ queue = <<>>
    /\ quiet = 0 /\ age = 0 /\ fresh = 0
    /\ missed = FALSE /\ shutdown = FALSE
    /\ noise = 0 /\ failures = 0

\* is_relevant_event, is_relevant_path: a .toml file that is not a dotfile
\* was created, changed or removed
IsRelevantEvent(event) == event = "toml"
-----------------------------------------------------------------------------
(***************************************************************************)
(* The directory and the notify backend.                                   *)
(***************************************************************************)
ChangeFile ==
    /\ disk < MaxChanges
    /\ disk' = disk + 1
    /\ queue' = IF open THEN Append(queue, "toml") ELSE queue
    /\ missed' = ~open
    /\ UNCHANGED <<loaded, mode, open, batch, shutdown, bounds>>

\* Temporary files of write_atomic, editors' swap files, read accesses
TouchOther ==
    /\ open /\ noise < MaxNoise
    /\ noise' = noise + 1
    /\ queue' = Append(queue, "other")
    /\ UNCHANGED <<disk, loaded, mode, open, batch, missed, shutdown, failures>>

CloseChannel ==
    /\ open /\ failures < MaxFailures
    /\ open' = FALSE
    /\ failures' = failures + 1
    /\ UNCHANGED <<disk, loaded, mode, queue, batch, missed, shutdown, noise>>

RequestShutdown ==
    /\ ~shutdown
    /\ shutdown' = TRUE
    /\ UNCHANGED <<disk, loaded, mode, open, queue, batch, missed, bounds>>
-----------------------------------------------------------------------------
(***************************************************************************)
(* run_watch_loop: create a watcher, drain its events, wait and start over.*)
(***************************************************************************)
Leave(to) == mode' = to /\ quiet' = 0 /\ age' = 0 /\ fresh' = 0

\* The new watcher has a channel of its own.
BuildWatcher ==
    /\ mode = "create"
    /\ queue' = <<>>
    /\ \/ shutdown /\ Leave("stopped") /\ UNCHANGED <<open, failures>>
       \/ ~shutdown /\ Leave("drain") /\ open' = TRUE /\ UNCHANGED failures
       \/ /\ ~shutdown /\ failures < MaxFailures
          /\ Leave("backoff")
          /\ failures' = failures + 1
          /\ UNCHANGED open
    /\ UNCHANGED <<disk, loaded, missed, shutdown, noise>>

DrainEvents ==
    /\ mode = "drain"
    /\ \/ shutdown /\ Leave("stopped") /\ open' = FALSE /\ UNCHANGED queue
       \/ /\ queue # <<>>
          /\ queue' = Tail(queue)
          /\ Leave(IF IsRelevantEvent(Head(queue)) THEN "debounce" ELSE "drain")
          /\ UNCHANGED open
       \/ queue = <<>> /\ ~open /\ Leave("backoff") /\ UNCHANGED <<open, queue>>
    /\ UNCHANGED <<disk, loaded, missed, shutdown, bounds>>

FireAt == quiet >= Debounce \/ age >= MaxCoalesce

\* debounce_to_quiescence.  The quiet window is computed anew after every
\* event.  A closed channel ends the batch.
DebounceToQuiescence ==
    /\ mode = "debounce"
    /\ \/ shutdown /\ Leave("stopped") /\ open' = FALSE /\ UNCHANGED queue
       \/ FireAt /\ Leave("reload") /\ UNCHANGED <<open, queue>>
       \/ /\ queue # <<>>
          /\ queue' = Tail(queue)
          /\ quiet' = 0
          /\ fresh' = IF IsRelevantEvent(Head(queue)) THEN 0 ELSE fresh
          /\ UNCHANGED <<mode, open, age>>
       \/ queue = <<>> /\ ~open /\ Leave("reload") /\ UNCHANGED <<open, queue>>
    /\ UNCHANGED <<disk, loaded, missed, shutdown, bounds>>

\* The reload waits for its lock, reads the directory, and takes a while.
TriggerReload ==
    /\ mode = "reload"
    /\ loaded' = disk
    /\ Leave("reloading")
    /\ UNCHANGED <<disk, open, queue, missed, shutdown, bounds>>

\* Mutant: what was queued during the reload is taken as covered by it.
FinishReloadAndDrain ==
    /\ mode = "reloading"
    /\ queue' = <<>>
    /\ Leave("drain")
    /\ UNCHANGED <<disk, loaded, open, missed, shutdown, bounds>>

FinishReload ==
    /\ mode = "reloading"
    /\ Leave("drain")
    /\ UNCHANGED <<disk, loaded, open, queue, missed, shutdown, bounds>>

SleepOrShutdown ==
    /\ mode = "backoff"
    /\ \/ shutdown /\ Leave("stopped")
       \/ age >= Backoff /\ Leave("create")
    /\ UNCHANGED <<disk, loaded, open, queue, missed, shutdown, bounds>>

Loop ==
    \/ BuildWatcher \/ DrainEvents \/ DebounceToQuiescence
    \/ TriggerReload \/ FinishReload \/ SleepOrShutdown

\* Timers are punctual; events may wait for the loop to run.
Pass ==
    /\ \/ mode = "debounce" /\ ~FireAt
       \/ mode = "backoff" /\ age < Backoff
    /\ quiet' = quiet + 1
    /\ age' = age + 1
    /\ fresh' = fresh + 1
    /\ UNCHANGED <<disk, loaded, mode, open, queue, missed, shutdown, bounds>>

Next == ChangeFile \/ TouchOther \/ CloseChannel \/ RequestShutdown \/ Loop \/ Pass

Spec == Init /\ [][Next]_vars

\* The loop is a task that runs whenever it can, and time goes on.
FairSpec == Spec /\ WF_vars(Loop) /\ WF_vars(Pass)
-----------------------------------------------------------------------------
\* CONFIG_WATCH_MAX_COALESCE_MS: however many events come in, a batch is
\* reloaded within that time of its first event.
FiresWithinCap == mode = "debounce" => age <= MaxCoalesce

\* A change of the directory that a watcher saw is read by a reload, whether
\* it falls into a batch, between two batches, or into the reload of another
\* change, and even when the channel closes in the middle of its batch.
EveryChangeIsLoaded ==
    \A v \in 1..MaxChanges :
        disk = v ~> loaded >= v \/ missed \/ shutdown

\* shutdown: the loop listens in each of its waits, and ends.
ShutdownEndsLoop == shutdown ~> mode = "stopped"

\* "Reset the quiet window only for relevant events; ignore noise so it
\* cannot indefinitely defer the reload": a batch is over once no relevant
\* event has come for the debounce time.
NoiseDoesNotDefer == mode = "debounce" => fresh <= Debounce
=============================================================================
