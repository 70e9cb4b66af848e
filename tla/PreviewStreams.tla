--------------------------- MODULE PreviewStreams ---------------------------
(***************************************************************************)
(* Preview (unconfirmed) bars of intrabar bots.                            *)
(*                                                                         *)
(* The preview loop of the polling supervisor keeps one session per        *)
(* account with running intrabar lanes.  A session is a task with a        *)
(* websocket, a bounded queue of commands to it and a bounded queue of     *)
(* events from it.  The loop hands events to the dataplane, where an       *)
(* operator sees them, and to the lanes.                                   *)
(***************************************************************************)
EXTENDS Integers, Sequences, FiniteSets

CONSTANTS
    AccountOrder,   \* accounts in the order of their ids
    StreamOf,       \* the stream (symbol and timeframe) of each lane
    AccountOf,      \* the account of each stream
    Refusing,       \* accounts whose connector starts no preview session
    MaxWorkers,     \* MAX_ACTIVE_PREVIEW_WORKERS
    CommandCap,     \* PREVIEW_STREAM_COMMAND_CAPACITY
    EventCap,       \* PREVIEW_STREAM_EVENT_CAPACITY
    MaxMoves,       \* bound: lanes started and stopped
    MaxOutages,     \* bound: times the venue goes down
    MaxUpdates,     \* bound: messages of the venue
    MaxFaults,      \* bound: lanes that fail on an update, tasks that die, bad messages
    None

Accounts == {AccountOrder[i] : i \in DOMAIN AccountOrder}
Lanes == DOMAIN StreamOf
Streams == DOMAIN AccountOf
States == {"connecting", "connected", "disconnected"}

Events == [kind : {"state"}, state : States]
    \union [kind : {"bar"}, stream : Streams, n : Nat, phase : {"preview", "confirmed"}]
Sessions == [subs : SUBSET Streams, cmds : Seq(SUBSET Streams), events : Seq(Events),
             task : {"idle", "connect", "open", "backoff", "ended"},
             desired : SUBSET Streams, active : SUBSET Streams]

ConstantsOK ==
    /\ \A l \in Lanes : StreamOf[l] \in Streams
    /\ AccountOrder \in Seq(Accounts)
    /\ MaxWorkers \in Nat
    /\ None \notin Sessions

VARIABLES
    running,     \* the running lanes
    workers,     \* the session of each account
    plane,       \* preview_connection_state and the newest preview of a stream
    lane,        \* last_stream_update of a lane, and the last one it evaluated
    loop,        \* where the loop is
    shutdown,
    up,          \* connections to the venue carry data
    moves, outages, updates, faults

bounds == <<moves, outages, updates, faults>>
vars == <<running, workers, plane, lane, loop, shutdown, up, bounds>>

Live == {a \in Accounts : workers[a] # None}

Loop(at, wanted, todo, turn) == [at |-> at, wanted |-> wanted, todo |-> todo, turn |-> turn]

Init ==
    /\ running = {}
    /\ workers = [a \in Accounts |-> None]
    /\ plane = [s \in Streams |-> [state |-> None, bar |-> 0]]
    /\ lane = [l \in Lanes |-> [last |-> 0, done |-> 0]]
    /\ loop = Loop("top", [a \in Accounts |-> {}], {}, None)
    /\ shutdown = FALSE
    /\ up = TRUE
    /\ moves = 0 /\ outages = 0 /\ updates = 0 /\ faults = 0
-----------------------------------------------------------------------------
(***************************************************************************)
(* The task of a session: run_binance_preview_stream_worker.               *)
(***************************************************************************)
State(state) == [kind |-> "state", state |-> state]
BarUpdate(s, n, phase) == [kind |-> "bar", stream |-> s, n |-> n, phase |-> phase]

\* An event that finds the queue full is dropped.
EmitPreviewEvent(events, event) == IF Len(events) < EventCap THEN Append(events, event) ELSE events

NewSession(subscriptions) ==
    [subs |-> subscriptions, cmds |-> <<subscriptions>>, events |-> <<>>, task |-> "idle",
     desired |-> {}, active |-> {}]

\* One step of the task of account a, which takes it to the given phase
Task(a, from) == workers[a] # None /\ workers[a].task = from
Become(a, w) ==
    /\ workers' = [workers EXCEPT ![a] = w]
    /\ UNCHANGED <<running, plane, lane, loop, shutdown, up, moves, outages>>

\* Mutant: only success is reported.
TellSuccess(w, state) ==
    IF state = "connected" THEN [w EXCEPT !.events = EmitPreviewEvent(@, State(state))] ELSE w

Tell(w, state) == [w EXCEPT !.events = EmitPreviewEvent(@, State(state))]
Steady == UNCHANGED <<updates, faults>>

\* Without subscriptions the task waits for a command; with some it connects.
AwaitSubscriptions(a) ==
    /\ Task(a, "idle") /\ workers[a].desired = {} /\ workers[a].cmds # <<>>
    /\ Become(a, [workers[a] EXCEPT !.desired = Head(workers[a].cmds), !.cmds = Tail(@)])
    /\ Steady

BeginConnect(a) ==
    /\ Task(a, "idle") /\ workers[a].desired # {}
    /\ Become(a, [Tell(workers[a], "connecting") EXCEPT !.task = "connect"])
    /\ Steady

Connect(a) ==
    /\ Task(a, "connect")
    /\ LET w == workers[a]
           told == Tell(w, "connected")
       IN  \/ up /\ Become(a, [told EXCEPT !.task = "open", !.active = w.desired])
           \/ ~up /\ Become(a, [Tell(w, "disconnected") EXCEPT !.task = "backoff"])
           \* The subscription cannot be sent.
           \/ ~up /\ Become(a, [Tell(told, "disconnected") EXCEPT !.task = "backoff"])
    /\ Steady

\* Without a venue the change cannot be sent, or waits in the socket's buffer.
ReplaceSubscriptions(a) ==
    /\ Task(a, "open") /\ workers[a].cmds # <<>>
    /\ LET next == Head(workers[a].cmds)
           w == [workers[a] EXCEPT !.cmds = Tail(@), !.desired = next]
       IN  \/ /\ next = {} \/ (next # w.active /\ ~up)
              /\ Become(a, [Tell(w, "disconnected") EXCEPT !.task = "backoff"])
           \/ next # {} /\ Become(a, [w EXCEPT !.active = next])
    /\ Steady

\* A kline of a subscribed stream; its last update is the confirmed one.
Message(a) ==
    /\ Task(a, "open") /\ up /\ updates < MaxUpdates
    /\ updates' = updates + 1
    /\ \E s \in workers[a].active, phase \in {"preview", "confirmed"} :
        Become(a, [workers[a] EXCEPT !.events =
                    EmitPreviewEvent(@, BarUpdate(s, updates', phase))])
    /\ UNCHANGED faults

\* The socket is closed, ends or fails; or it delivers what is no kline.
Lose(a) ==
    /\ Task(a, "open")
    /\ Become(a, [Tell(workers[a], "disconnected") EXCEPT !.task = "backoff"])
    /\ \/ ~up /\ UNCHANGED faults
       \/ up /\ faults < MaxFaults /\ faults' = faults + 1
    /\ UNCHANGED updates

\* The delay is over, or a command ends it.
Backoff(a) ==
    /\ Task(a, "backoff")
    /\ \/ Become(a, [workers[a] EXCEPT !.task = "idle"])
       \/ /\ workers[a].cmds # <<>>
          /\ Become(a, [workers[a] EXCEPT !.task = "idle", !.cmds = Tail(@),
                                          !.desired = Head(workers[a].cmds)])
    /\ Steady

Die(a) ==
    /\ workers[a] # None /\ workers[a].task # "ended" /\ faults < MaxFaults
    /\ faults' = faults + 1
    /\ Become(a, [workers[a] EXCEPT !.task = "ended"])
    /\ UNCHANGED updates

TaskStep(a) ==
    \/ AwaitSubscriptions(a) \/ BeginConnect(a) \/ Connect(a) \/ ReplaceSubscriptions(a)
    \/ Lose(a) \/ Backoff(a)
-----------------------------------------------------------------------------
(***************************************************************************)
(* run_background_preview_loop                                             *)
(***************************************************************************)
\* effective_preview_streams_by_account: the streams of the running lanes
EffectivePreviewStreams ==
    [a \in Accounts |-> {s \in {StreamOf[l] : l \in running} : AccountOf[s] = a}]

Recorded(p, streams, state) ==
    [s \in Streams |-> IF s \in streams THEN [p[s] EXCEPT !.state = state] ELSE p[s]]

\* Mutant: every account without a session is admitted.
AdmitAll(live, wanted) == {a \in Accounts : wanted[a] # {} /\ a \notin live}

\* The accounts without a session that fit under the cap, in their order
PartitionCandidates(live, wanted) ==
    {AccountOrder[i] : i \in {j \in DOMAIN AccountOrder :
        /\ wanted[AccountOrder[j]] # {} /\ AccountOrder[j] \notin live
        /\ Cardinality(live) +
            Cardinality({k \in 1..j : wanted[AccountOrder[k]] # {} /\ AccountOrder[k] \notin live})
                <= MaxWorkers}}

\* Sessions of accounts without a running lane are ended, new ones started.
ManageSessions ==
    /\ loop.at = "top" /\ ~shutdown
    /\ LET wanted == EffectivePreviewStreams
           removed == {a \in Live : wanted[a] = {}}
           admitted == PartitionCandidates(Live \ removed, wanted)
           stopped == UNION {workers[a].subs : a \in removed}
           refused == UNION {wanted[a] : a \in admitted \intersect Refusing}
       IN  /\ workers' = [a \in Accounts |->
                            IF a \in admitted \ Refusing THEN NewSession(wanted[a])
                            ELSE IF a \in removed THEN None ELSE workers[a]]
           /\ plane' = Recorded(plane, stopped \union refused, "disconnected")
           /\ loop' = Loop("managed", wanted, {}, None)
    /\ UNCHANGED <<running, lane, shutdown, up, bounds>>

BeginDrain ==
    /\ loop.at = "managed" /\ ~shutdown
    /\ loop' = [loop EXCEPT !.at = "drain", !.todo = Live]
    /\ UNCHANGED <<running, workers, plane, lane, shutdown, up, bounds>>

\* Mutant: only streams that are no longer wanted are noticed.
ResubscribeOnLess(a) == ~(workers[a].subs \subseteq loop.wanted[a])

Resubscribe(a) == workers[a].subs # loop.wanted[a]

\* The turn of one session: its subscriptions are brought up to date.
TakeTurn(a) ==
    /\ loop.at = "drain" /\ loop.turn = None /\ a \in loop.todo
    /\ LET w == workers[a]
           wanted == loop.wanted[a]
           accepts == w.task # "ended" /\ Len(w.cmds) < CommandCap
       IN  \/ /\ ~Resubscribe(a)
              /\ loop' = [loop EXCEPT !.turn = a]
              /\ UNCHANGED <<workers, plane>>
           \/ /\ Resubscribe(a) /\ accepts
              /\ workers' = [workers EXCEPT ![a].cmds = Append(@, wanted), ![a].subs = wanted]
              /\ loop' = [loop EXCEPT !.turn = a]
              /\ UNCHANGED plane
           \/ /\ Resubscribe(a) /\ ~accepts
              /\ workers' = [workers EXCEPT ![a] = None]
              /\ plane' = Recorded(plane, wanted, "disconnected")
              /\ loop' = [loop EXCEPT !.todo = @ \ {a}]
    /\ UNCHANGED <<running, lane, shutdown, up, bounds>>

\* process_market_stream_update_for_stream: the lanes in some order, up to
\* the first that fails.  The update is noted before it is evaluated.
Dispatch(s, n) ==
    LET matching == {l \in running : StreamOf[l] = s /\ lane[l].last # n}
        Applied(noted, evaluated) ==
            [l \in Lanes |-> [last |-> IF l \in noted THEN n ELSE lane[l].last,
                              done |-> IF l \in evaluated THEN n ELSE lane[l].done]]
    IN  \/ lane' = Applied(matching, matching) /\ UNCHANGED faults
        \/ /\ faults < MaxFaults /\ faults' = faults + 1
           /\ \E failing \in matching : \E before \in SUBSET (matching \ {failing}) :
                lane' = Applied(before \union {failing}, before)

HandlePreviewEvent ==
    /\ loop.at = "drain" /\ loop.turn # None /\ workers[loop.turn].events # <<>>
    /\ LET a == loop.turn
           event == Head(workers[a].events)
       IN  /\ workers' = [workers EXCEPT ![a].events = Tail(@)]
           /\ \/ /\ event.kind = "state"
                 /\ plane' = Recorded(plane, workers[a].subs, event.state)
                 /\ UNCHANGED <<lane, faults>>
              \/ /\ event.kind = "bar"
                 /\ plane' = [plane EXCEPT ![event.stream] =
                                [state |-> "connected", bar |-> event.n]]
                 /\ IF event.phase = "confirmed" THEN UNCHANGED <<lane, faults>>
                    ELSE Dispatch(event.stream, event.n)
    /\ UNCHANGED <<running, loop, shutdown, up, moves, outages, updates>>

\* The queue is empty; a task that is gone takes its session with it.
EndTurn ==
    /\ loop.at = "drain" /\ loop.turn # None /\ workers[loop.turn].events = <<>>
    /\ LET a == loop.turn
       IN  /\ loop' = [loop EXCEPT !.turn = None, !.todo = @ \ {a}]
           /\ IF workers[a].task = "ended"
              THEN /\ workers' = [workers EXCEPT ![a] = None]
                   /\ plane' = Recorded(plane, workers[a].subs, "disconnected")
              ELSE UNCHANGED <<workers, plane>>
    /\ UNCHANGED <<running, lane, shutdown, up, bounds>>

Sleep ==
    /\ loop.at = "drain" /\ loop.turn = None /\ loop.todo = {} /\ ~shutdown
    /\ loop' = [loop EXCEPT !.at = "top"]
    /\ UNCHANGED <<running, workers, plane, lane, shutdown, up, bounds>>

Close ==
    /\ shutdown
    /\ \/ loop.at \in {"top", "managed"}
       \/ loop.at = "drain" /\ loop.turn = None /\ loop.todo = {}
    /\ workers' = [a \in Accounts |-> None]
    /\ plane' = Recorded(plane, UNION {workers[a].subs : a \in Live}, "disconnected")
    /\ loop' = [loop EXCEPT !.at = "stopped"]
    /\ UNCHANGED <<running, lane, shutdown, up, bounds>>
-----------------------------------------------------------------------------
(***************************************************************************)
(* The rest of the service, and the venue.                                 *)
(***************************************************************************)
\* A lane starts running, or stops; the kill switch stops all of them.
MoveLane ==
    /\ moves < MaxMoves /\ moves' = moves + 1
    /\ \E l \in Lanes : running' = (running \ {l}) \union ({l} \ running)
    /\ UNCHANGED <<workers, plane, lane, loop, shutdown, up, outages, updates, faults>>

RequestShutdown ==
    /\ ~shutdown /\ shutdown' = TRUE
    /\ UNCHANGED <<running, workers, plane, lane, loop, up, bounds>>

GoDown ==
    /\ up /\ outages < MaxOutages
    /\ up' = FALSE /\ outages' = outages + 1
    /\ UNCHANGED <<running, workers, plane, lane, loop, shutdown, moves, updates, faults>>

ComeBack ==
    /\ ~up /\ up' = TRUE
    /\ UNCHANGED <<running, workers, plane, lane, loop, shutdown, bounds>>

LoopStep ==
    \/ ManageSessions \/ BeginDrain \/ (\E a \in Accounts : TakeTurn(a))
    \/ HandlePreviewEvent \/ EndTurn \/ Sleep \/ Close

Next ==
    \/ LoopStep
    \/ \E a \in Accounts : TaskStep(a) \/ Message(a) \/ Die(a)
    \/ MoveLane \/ RequestShutdown \/ GoDown \/ ComeBack

Spec == Init /\ [][Next]_vars

\* What a task does by itself, or with a venue that answers.  It asks nothing
\* of a socket that is silent or of a handshake with a venue that is gone:
\* neither has a timeout, and no ping is sent.
OwnStep(a) ==
    \/ AwaitSubscriptions(a) \/ BeginConnect(a) \/ (up /\ Connect(a))
    \/ ReplaceSubscriptions(a) \/ Backoff(a)

\* Loop and tasks are driven by the executor and by timers.  Nothing makes the
\* venue come back or a bot start.
FairSpec ==
    /\ Spec
    /\ WF_vars(LoopStep)
    /\ \A a \in Accounts : WF_vars(OwnStep(a))
-----------------------------------------------------------------------------
TypeOK ==
    /\ running \subseteq Lanes
    /\ \A a \in Live :
        /\ workers[a].subs \subseteq Streams /\ workers[a].active \subseteq Streams
        /\ Len(workers[a].cmds) <= CommandCap /\ Len(workers[a].events) <= EventCap
        /\ workers[a].task \in {"idle", "connect", "open", "backoff", "ended"}
    /\ \A s \in Streams : plane[s].state \in States \union {None} /\ plane[s].bar \in Nat
    /\ loop.at \in {"top", "managed", "drain", "stopped"}

\* However sessions are refused, die and are admitted again, no more than
\* MAX_ACTIVE_PREVIEW_WORKERS are active, and a session never hears of another
\* account's streams.
SessionsAreBounded ==
    /\ Cardinality(Live) <= MaxWorkers
    /\ \A a \in Live : \A s \in workers[a].subs \union workers[a].active : AccountOf[s] = a

\* A lane never evaluates a preview that is older than the one before,
\* whatever is dropped, and through any number of reconnects.
PreviewsInOrder == [][\A l \in Lanes : lane'[l].done >= lane[l].done]_vars

\* In a socket or a handshake, which end when the worker is told so
Stuck(a) == workers[a] # None /\ workers[a].task \in {"connect", "open"}

\* A venue that is gone for good is not shown as connected for good, even
\* when the event that says so found the queue full.  Two premises: the worker
\* is told that its connections are lost (one that falls silent without an
\* error is shown as connected while it is open), and the loop empties queues
\* faster than a worker that reconnects fills them.
OutageIsShown ==
    \A s \in Streams :
        ([]~up /\ []<>~Stuck(AccountOf[s]) /\ []<>(loop.turn = None)
            /\ <>[](loop.at # "stopped" /\ workers[AccountOf[s]] # None
                        /\ s \in workers[AccountOf[s]].subs))
            ~> plane[s].state # "connected"

\* The streams of lanes that keep running are and stay subscribed at the venue,
\* once it stays up, whatever the command queue and the order of starts and stops.
WantedIsSubscribed ==
    (<>[](up /\ ~shutdown)) =>
        \A s \in Streams : \A l \in Lanes :
            StreamOf[l] = s =>
                ((<>[](l \in running)) =>
                    <>[](workers[AccountOf[s]] # None /\ workers[AccountOf[s]].task = "open"
                            /\ s \in workers[AccountOf[s]].active))

\* After a shutdown the loop stops, and ends every session, if its turns end.
ShutdownEndsSessions ==
    ([]<>(loop.turn = None)) => (shutdown ~> (loop.at = "stopped" /\ Live = {}))
=============================================================================
