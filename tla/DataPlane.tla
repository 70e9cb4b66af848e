----------------------------- MODULE DataPlane -----------------------------
(***************************************************************************)
(* The dataplane: which streams are polled when, and what their buffers    *)
(* hold.                                                                   *)
(*                                                                         *)
(* A background loop takes the due streams, plans them under the runtime's *)
(* read lock, polls all of them at once and records the answers as they    *)
(* come.  A stream with running lanes is polled lane by lane, one without  *)
(* by a bare fetch.  Meanwhile an operator polls single lanes (tick), lanes*)
(* start and stop, accounts are throttled by their provider, and a reload  *)
(* of the configuration first swaps the runtime and then the streams.      *)
(*                                                                         *)
(* Bars are numbered by their close.  Times are kept as ages, which stop   *)
(* at Never: beyond every interval of the code an age makes no difference. *)
(* What a poll does to a lane is the subject of LanePolling.               *)
(***************************************************************************)
EXTENDS Integers, Sequences, FiniteSetsExt

CONSTANTS
    Keys,          \* stream keys: account, symbol and timeframe
    Accounts,
    AccountOf,     \* the account of a stream
    Configs,       \* configurations a reload may bring
    Timeframe,     \* length of a bar
    Retention,     \* default_retention
    Retry,         \* CLOSE_POLL_RETRY_MS
    MaxInterval,   \* MAX_CONFIRMED_POLL_INTERVAL_MS
    Never,         \* an age beyond every interval and grace period
    MaxBar,        \* bound: bars until the market closes
    MaxFaults,     \* bound: failed or stale polls, cycles with a throttled account
    MaxRequests    \* bound: ticks, starts, stops, kill switches, reloads

ConstantsOK ==
    /\ AccountOf \in [Keys -> Accounts]
    /\ {Timeframe, Retention, Retry, MaxInterval, Never} \subseteq Nat \ {0}
    /\ {MaxBar, MaxFaults, MaxRequests} \subseteq Nat

VARIABLES
    market,     \* newest bar the provider has confirmed
    phase,      \* time since it closed
    cfg,        \* configuration of the runtime
    installed,  \* configuration whose streams the dataplane has
    streams,    \* the dataplane's entry of each registered stream
    running,    \* running lanes
    killed,     \* kill switch
    last,       \* last bar dispatched to each lane
    loop,       \* the polling loop
    task,       \* the poll of each stream, while the loop waits for it
    tick,       \* the poll an operator asked for
    polls,      \* history: attempts by the loop since the last close
    asked,      \* history: age of the newest fetch that was answered
    faults, requests

time == <<market, phase>>
runtime == <<cfg, running, killed, last>>
pollers == <<loop, task, tick>>
bounds == <<faults, requests>>
vars == <<time, runtime, installed, streams, pollers, polls, asked, bounds>>

Least(a, b) == IF a < b THEN a ELSE b
Greatest(a, b) == IF a > b THEN a ELSE b
Older(age) == Least(age + 1, Never)
-----------------------------------------------------------------------------
(***************************************************************************)
(* Stream specifications.  A configuration has lanes with their stream,    *)
(* polling interval and staleness limit, and watchlist entries with their  *)
(* stream, interval and retention.  0 stands for None.                     *)
(***************************************************************************)
Lanes == UNION {DOMAIN c.lanes : c \in Configs}

\* effective_confirmed_polling_interval_ms
EffectiveInterval(configured) ==
    Greatest(configured, Least(Timeframe \div 4, MaxInterval))

LaneSpec(lane) ==
    [retention |-> Retention, interval |-> EffectiveInterval(lane.interval),
     retry |-> Retry, grace |-> lane.grace]
WatchSpec(watch) ==
    [retention |-> watch.retention, interval |-> watch.interval,
     retry |-> 0, grace |-> 0]

Sources(c, k) ==
    {LaneSpec(c.lanes[l]) : l \in {i \in DOMAIN c.lanes : c.lanes[i].stream = k}}
        \union {WatchSpec(w) : w \in {v \in c.watch : v.stream = k}}

Registered(c) == {k \in Keys : Sources(c, k) # {}}

MinSome(S) == IF S \subseteq {0} THEN 0 ELSE Min(S \ {0})

\* merge_stream_spec, over all sources of a stream
SpecOf(c, k) ==
    LET sources == Sources(c, k)
    IN  [retention |-> Max({s.retention : s \in sources}),
         interval |-> Min({s.interval : s \in sources}),
         retry |-> MinSome({s.retry : s \in sources}),
         grace |-> MinSome({s.grace : s \in sources})]

NewEntry == [bars |-> <<>>, attempt |-> Never, success |-> Never, failed |-> FALSE]
-----------------------------------------------------------------------------
(***************************************************************************)
(* The buffer of a stream, and when the stream is due.                     *)
(***************************************************************************)
TrimToRetention(bars, n) ==
    IF Len(bars) > n THEN SubSeq(bars, Len(bars) - n + 1, Len(bars)) ELSE bars

PushIfNewer(bars, b, n) ==
    IF bars # <<>> /\ bars[Len(bars)] >= b THEN bars
    ELSE TrimToRetention(Append(bars, b), n)

\* The bar's own close; the next one is due a timeframe later.
SinceClose(b) == (market - b) * Timeframe + phase

\* Mutant: the window has no end.
CloseWindowStaysOpen(k) ==
    LET spec == SpecOf(installed, k)
        bars == streams[k].bars
    IN  /\ spec.retry # 0 /\ spec.grace # 0 /\ bars # <<>>
        /\ SinceClose(bars[Len(bars)]) >= 0
        /\ streams[k].attempt >= spec.retry

CloseWindowDue(k) ==
    LET spec == SpecOf(installed, k)
        bars == streams[k].bars
    IN  /\ spec.retry # 0 /\ spec.grace # 0 /\ bars # <<>>
        /\ SinceClose(bars[Len(bars)]) \in 0 .. spec.grace
        /\ streams[k].attempt >= spec.retry

IsDue(k) ==
    \/ streams[k].attempt >= SpecOf(installed, k).interval
    \/ CloseWindowDue(k)

\* record_fetched_bar: the success is dated by the start of the poll.
RecordFetchedBar(k, b, age) ==
    streams' = [streams EXCEPT ![k] =
        [@ EXCEPT !.bars = PushIfNewer(@, b, SpecOf(installed, k).retention),
                  !.success = age, !.failed = FALSE]]

\* record_fetch_error; nothing is left of it when the stream is gone.
RecordFetchError(k) ==
    streams' = IF k \in DOMAIN streams
               THEN [streams EXCEPT ![k].failed = TRUE] ELSE streams

\* StreamStatus, as far as it is about time: the age of the last success, and
\* the time since the newest bar closed.
Status(k) ==
    LET bars == streams[k].bars
        close == IF bars = <<>> THEN Never ELSE SinceClose(bars[Len(bars)])
    IN  [transport |-> streams[k].success,
         confirmed |-> close]
-----------------------------------------------------------------------------
Idle == [pc |-> "idle", kind |-> "bare", todo |-> {}, bars |-> {}]
NoTick == [pc |-> "idle", stream |-> CHOOSE k \in Keys : TRUE,
           lane |-> CHOOSE l \in Lanes : TRUE, bars |-> {}, age |-> 0]

Init ==
    /\ market = 0 /\ phase = 0
    /\ cfg \in Configs /\ installed = cfg
    /\ streams = [k \in Registered(cfg) |-> NewEntry]
    /\ running \in SUBSET DOMAIN cfg.lanes
    /\ killed = FALSE
    /\ last = [l \in Lanes |-> 0]
    /\ loop = [pc |-> "rest", due |-> {}, age |-> 0]
    /\ task = [k \in Keys |-> Idle]
    /\ tick = NoTick
    /\ polls = [k \in Keys |-> 0]
    /\ asked = [k \in Keys |-> Never]
    /\ faults = 0 /\ requests = 0

Fault == faults < MaxFaults /\ faults' = faults + 1
Request == requests < MaxRequests /\ requests' = requests + 1

\* The top of run_background_polling_loop.  Attempts are counted per bar,
\* while the market is open.
TakeDueStreams ==
    LET due == {k \in DOMAIN streams : IsDue(k)}
    IN  /\ loop.pc = "rest" /\ due # {}
        /\ streams' = [k \in DOMAIN streams |->
                IF k \in due THEN [streams[k] EXCEPT !.attempt = 0] ELSE streams[k]]
        /\ loop' = [pc |-> "plan", due |-> due, age |-> 0]
        /\ polls' = [k \in Keys |->
                IF k \in due /\ market < MaxBar THEN polls[k] + 1 ELSE polls[k]]
        /\ UNCHANGED <<time, runtime, installed, task, tick, asked, bounds>>

LanesOf(k) ==
    {l \in running : l \in DOMAIN cfg.lanes /\ cfg.lanes[l].stream = k}

\* plan_stream_polling
PlanStreamPolling(k) ==
    IF killed \/ LanesOf(k) = {}
    THEN [Idle EXCEPT !.pc = "fetch"]
    ELSE [Idle EXCEPT !.pc = "fetch", !.kind = "lanes", !.todo = LanesOf(k)]

\* The plans of a cycle.  Streams of accounts that are throttled by their
\* provider at this moment are skipped; they count as attempted.
SpawnPolls ==
    /\ loop.pc = "plan"
    /\ \E throttled \in SUBSET Accounts :
        /\ IF throttled = {} THEN UNCHANGED faults ELSE Fault
        /\ task' = [k \in Keys |->
                IF k \in loop.due /\ AccountOf[k] \notin throttled
                THEN PlanStreamPolling(k) ELSE Idle]
    /\ loop' = [loop EXCEPT !.pc = "join"]
    /\ UNCHANGED <<time, runtime, installed, streams, tick, polls, asked, requests>>

Answered(k, bars) ==
    /\ task' = [task EXCEPT ![k].pc = "answered", ![k].todo = {}, ![k].bars = bars]
    /\ asked' = [asked EXCEPT ![k] = 0]

Failed(k) == task' = [task EXCEPT ![k] = [Idle EXCEPT !.pc = "failed"]]

\* execute_bare_stream_fetch and apply_bare_fetched_bar; a provider without a
\* confirmed bar is an error.
BareFetch(k) ==
    /\ task[k].pc = "fetch" /\ task[k].kind = "bare"
    /\ \/ /\ market > 0
          /\ Answered(k, {market})
          /\ UNCHANGED faults
       \/ /\ \/ market = 0 /\ UNCHANGED faults
             \/ Fault
          /\ Failed(k) /\ UNCHANGED asked
    /\ UNCHANGED <<time, runtime, installed, streams, loop, tick, polls, requests>>

\* A poll of a lane records the bars it went through, or the newest again if
\* there are no others, or none if its plan was stale.
PollAdvances(l, bars) ==
    /\ market > 0
    /\ \/ last[l] \in {0, market} /\ bars = {market} /\ UNCHANGED faults
       \/ /\ last[l] \notin {0, market}
          /\ \E b \in last[l] + 1 .. market : bars = last[l] + 1 .. b
          /\ UNCHANGED faults
       \/ bars = {} /\ Fault
    /\ last' = [last EXCEPT ![l] = IF bars = {} THEN @ ELSE Max(bars)]

\* Mutant: the lanes after the first one are forgotten.
FanOutStopsEarly(k) ==
    /\ task[k].pc = "fetch" /\ task[k].kind = "lanes"
    /\ \E l \in task[k].todo :
        \/ /\ l \in running
           /\ \E bars \in SUBSET (1 .. market) :
                /\ PollAdvances(l, bars)
                /\ Answered(k, task[k].bars \union bars)
        \/ Fault /\ Failed(k) /\ UNCHANGED <<last, asked>>
    /\ UNCHANGED <<time, cfg, running, killed, installed, streams, loop, tick, polls, requests>>

\* execute_lane_fanout_poll_cycle, one lane at a time, in any order.  A lane
\* that cannot be polled ends the poll of the whole stream, and the bars of
\* the lanes before it are not recorded.  A lane that a reload has meanwhile
\* moved to another stream is polled all the same, on its new stream.
FanOut(k) ==
    /\ task[k].pc = "fetch" /\ task[k].kind = "lanes"
    /\ \E l \in task[k].todo :
        \/ /\ l \in running
           /\ \E bars \in SUBSET (1 .. market) :
                /\ PollAdvances(l, bars)
                /\ IF task[k].todo = {l}
                   THEN Answered(k, task[k].bars \union bars)
                   ELSE /\ task' = [task EXCEPT ![k].todo = @ \ {l},
                                                ![k].bars = @ \union bars]
                        /\ UNCHANGED asked
        \/ /\ l \notin running \/ market = 0
           /\ Failed(k) /\ UNCHANGED <<last, asked, faults>>
        \/ Fault /\ Failed(k) /\ UNCHANGED <<last, asked>>
    /\ UNCHANGED <<time, cfg, running, killed, installed, streams, loop, tick, polls, requests>>

\* record_stream_poll_result: one bar after the other, the oldest first, each
\* under the dataplane's lock.
RecordPollResult(k) ==
    /\ \/ /\ task[k].pc = "answered" /\ task[k].bars # {} /\ k \in DOMAIN streams
          /\ RecordFetchedBar(k, Min(task[k].bars), loop.age)
          /\ task' = [task EXCEPT ![k].bars = @ \ {Min(@)}]
       \/ /\ task[k].pc = "answered" /\ task[k].bars = {}
          /\ task' = [task EXCEPT ![k] = Idle] /\ UNCHANGED streams
       \/ /\ \/ task[k].pc = "answered" /\ task[k].bars # {} /\ k \notin DOMAIN streams
             \/ task[k].pc = "failed"
          /\ RecordFetchError(k)
          /\ task' = [task EXCEPT ![k] = Idle]
    /\ UNCHANGED <<time, runtime, installed, loop, tick, polls, asked, bounds>>

\* The cycle ends when every poll has been joined.
EndCycle ==
    /\ loop.pc = "join" /\ \A k \in Keys : task[k].pc = "idle"
    /\ loop' = [pc |-> "rest", due |-> {}, age |-> 0]
    /\ UNCHANGED <<time, runtime, installed, streams, task, tick, polls, asked, bounds>>
-----------------------------------------------------------------------------
(***************************************************************************)
(* tick_bot_handler: the key under the read lock, the poll under the write *)
(* lock, the bars afterwards, to the stream of that key.                   *)
(***************************************************************************)
TickStart ==
    /\ tick.pc = "idle" /\ Request
    /\ \E l \in DOMAIN cfg.lanes :
        LET k == cfg.lanes[l].stream
        IN  /\ tick' = [NoTick EXCEPT !.pc = "poll", !.stream = k, !.lane = l]
            /\ streams' = IF k \in DOMAIN streams
                          THEN [streams EXCEPT ![k].attempt = 0] ELSE streams
    /\ UNCHANGED <<time, runtime, installed, loop, task, polls, asked, faults>>

TickPoll ==
    /\ tick.pc = "poll"
    /\ \/ /\ tick.lane \in running
          /\ \E bars \in SUBSET (1 .. market) :
                /\ PollAdvances(tick.lane, bars)
                /\ tick' = [tick EXCEPT !.pc = "record", !.bars = bars]
          /\ asked' = [asked EXCEPT ![tick.stream] = 0]
          /\ UNCHANGED streams
       \/ /\ \/ /\ tick.lane \notin running \/ market = 0
                /\ UNCHANGED faults
             \/ Fault
          /\ RecordFetchError(tick.stream)
          /\ tick' = NoTick
          /\ UNCHANGED <<last, asked>>
    /\ UNCHANGED <<time, cfg, running, killed, installed, loop, task, polls, requests>>

TickRecord ==
    /\ tick.pc = "record"
    /\ IF tick.bars = {} \/ tick.stream \notin DOMAIN streams
       THEN tick' = NoTick /\ UNCHANGED streams
       ELSE /\ RecordFetchedBar(tick.stream, Min(tick.bars), tick.age)
            /\ tick' = [tick EXCEPT !.bars = @ \ {Min(@)}]
    /\ UNCHANGED <<time, runtime, installed, loop, task, polls, asked, bounds>>
-----------------------------------------------------------------------------
(***************************************************************************)
(* The surroundings.                                                       *)
(***************************************************************************)
Pass ==
    /\ IF phase + 1 = Timeframe /\ market < MaxBar
       THEN market' = market + 1 /\ phase' = 0 /\ polls' = [k \in Keys |-> 0]
       ELSE market' = market /\ phase' = Least(phase + 1, Never) /\ polls' = polls
    /\ streams' = [k \in DOMAIN streams |->
            [streams[k] EXCEPT !.attempt = Older(@), !.success = Older(@)]]
    /\ loop' = [loop EXCEPT !.age = IF loop.pc = "rest" THEN 0 ELSE Older(@)]
    /\ tick' = [tick EXCEPT !.age = IF tick.pc = "idle" THEN 0 ELSE Older(@)]
    /\ asked' = [k \in Keys |-> Older(asked[k])]
    /\ UNCHANGED <<runtime, installed, task, bounds>>

StartOrStopLane ==
    /\ Request
    /\ \E l \in DOMAIN cfg.lanes :
        running' = IF l \in running THEN running \ {l}
                   ELSE IF killed THEN running ELSE running \union {l}
    /\ UNCHANGED <<time, cfg, killed, last, installed, streams, pollers, polls, asked, faults>>

SetKillSwitch ==
    /\ Request
    /\ killed' = ~killed /\ running' = {}
    /\ UNCHANGED <<time, cfg, last, installed, streams, pollers, polls, asked, faults>>

\* apply_bundle swaps the runtime and, later, the streams.  A lane of the new
\* runtime may have been seeded with history.
SwapRuntime ==
    /\ cfg = installed /\ Request
    /\ cfg' \in Configs \ {cfg}
    /\ running' \in {{}, running \intersect DOMAIN cfg'.lanes}
    /\ last' \in {[l \in Lanes |-> 0], [l \in Lanes |-> market]}
    /\ UNCHANGED <<time, killed, installed, streams, pollers, polls, asked, faults>>

\* replace_streams keeps the entries of streams that stay.
ReplaceStreams ==
    /\ cfg # installed
    /\ installed' = cfg
    /\ streams' = [k \in Registered(cfg) |->
            IF k \in DOMAIN streams
            THEN [streams[k] EXCEPT !.bars = TrimToRetention(@, SpecOf(cfg, k).retention)]
            ELSE NewEntry]
    /\ polls' = [k \in Keys |-> IF k \in DOMAIN streams THEN polls[k] ELSE 0]
    /\ UNCHANGED <<time, runtime, pollers, asked, bounds>>
-----------------------------------------------------------------------------
Loop ==
    \/ TakeDueStreams
    \/ SpawnPolls
    \/ EndCycle
    \/ \E k \in Keys : BareFetch(k) \/ FanOut(k) \/ RecordPollResult(k)

Next ==
    \/ Loop
    \/ TickStart \/ TickPoll \/ TickRecord
    \/ Pass
    \/ StartOrStopLane
    \/ SetKillSwitch
    \/ SwapRuntime
    \/ ReplaceStreams

\* The loop runs as long as the service does and its fetches have timeouts, a
\* tick and a reload that were begun end, and time passes.
Fairness ==
    /\ WF_vars(TakeDueStreams) /\ WF_vars(SpawnPolls) /\ WF_vars(EndCycle)
    /\ \A k \in Keys : WF_vars(BareFetch(k) \/ FanOut(k) \/ RecordPollResult(k))
    /\ WF_vars(TickPoll \/ TickRecord) /\ WF_vars(ReplaceStreams)
    /\ WF_vars(Pass)

Spec == Init /\ [][Next]_vars
FairSpec == Spec /\ Fairness

\* A loop that is never late: it has nothing left to do when time passes, and
\* nobody else interferes.
Prompt == (Pass /\ loop.pc = "rest" /\ ~ENABLED TakeDueStreams) \/ Loop
PromptSpec == Init /\ [][Prompt]_vars
-----------------------------------------------------------------------------
(***************************************************************************)
(* Properties.                                                             *)
(***************************************************************************)
Entries == [bars : Seq(1 .. MaxBar), attempt : 0 .. Never, success : 0 .. Never,
            failed : BOOLEAN]

\* Every variable has its type, and the dataplane has exactly the streams of
\* the configuration installed last.
TypeOK ==
    /\ market \in 0 .. MaxBar /\ phase \in Nat
    /\ cfg \in Configs /\ installed \in Configs
    /\ DOMAIN streams = Registered(installed)
    /\ \A k \in DOMAIN streams : streams[k] \in Entries
    /\ running \subseteq Lanes /\ killed \in BOOLEAN
    /\ last \in [Lanes -> 0 .. MaxBar]
    /\ loop \in [pc : {"rest", "plan", "join"}, due : SUBSET Keys, age : 0 .. Never]
    /\ task \in [Keys -> [pc : {"idle", "fetch", "answered", "failed"},
                          kind : {"bare", "lanes"}, todo : SUBSET Lanes,
                          bars : SUBSET (1 .. MaxBar)]]

\* A buffer is in order, without duplicates, within the retention of its
\* stream, and holds confirmed bars only: whichever of loop and tick records
\* first, and however a reload changes the retention between two records.
BufferInOrder ==
    \A k \in DOMAIN streams :
        LET bars == streams[k].bars
        IN  /\ \A i, j \in 1 .. Len(bars) : i < j => bars[i] < bars[j]
            /\ Len(bars) <= SpecOf(installed, k).retention
            /\ \A i \in 1 .. Len(bars) : bars[i] <= market

\* What an operator reads of a stream never looks fresher than it is: the
\* transport staleness covers the time since a fetch was last answered, the
\* staleness of the bar the time since the market's newest bar closed.
StalenessIsConservative ==
    \A k \in DOMAIN streams :
        /\ Status(k).transport >= asked[k]
        /\ Status(k).confirmed >= phase

\* The cadence keeps to the provider's budget: between two closes a stream is
\* polled at its interval, and at the retry interval within the grace period,
\* no more often, whatever is reloaded, ticked or stale.
RateBound(k) ==
    LET specs == {SpecOf(c, k) : c \in {d \in Configs : k \in Registered(d)}}
        window == Max({s.grace : s \in specs})
    IN  window \div Retry + 1 + (Timeframe - window) \div Min({s.interval : s \in specs})

WithinRateBudget == \A k \in DOMAIN streams : polls[k] <= RateBound(k)

\* Every due stream gets its turn, however long the polls of other streams
\* take.
DueIsPolled ==
    \A k \in Keys :
        (k \in DOMAIN streams /\ IsDue(k)) ~> (k \notin DOMAIN streams \/ ~IsDue(k))

\* A stream that stays registered ends up with the newest bar in its buffer, and its running lanes with
\* it: throttled cycles, failed fetches, lanes stopped in the middle of a poll, answers that come
\* late and lost records are all made up for by later polls.
Lagging(k) ==
    \/ streams[k].bars = <<>>
    \/ streams[k].bars[Len(streams[k].bars)] # MaxBar
    \/ \E l \in LanesOf(k) : last[l] # MaxBar

StreamsCatchUp ==
    \A k \in Keys :
        <>[](k \in DOMAIN streams) => <>[](k \in DOMAIN streams /\ ~Lagging(k))

\* "The close-window fast-poll path picks up freshly closed bars within
\* seconds": within the retry interval after a close the stream has the bar.
PicksUpFreshBars ==
    \A k \in DOMAIN streams :
        streams[k].bars # <<>> /\ phase > SpecOf(installed, k).retry
            /\ SpecOf(installed, k).retry # 0 /\ phase <= SpecOf(installed, k).grace
            => streams[k].bars[Len(streams[k].bars)] = market
=============================================================================
