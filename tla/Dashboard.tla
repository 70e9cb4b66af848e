------------------------------ MODULE Dashboard ------------------------------
(***************************************************************************)
(* The terminal dashboard (openticker-cli/src/dashboard): one loop that    *)
(* draws, takes a key, and refreshes its snapshot of the service when the  *)
(* refresh interval has passed.  A key or a refresh is handled to its end  *)
(* before the next one, but every HTTP request in it is a step during      *)
(* which the service may change: other clients use it too, and a reload    *)
(* may add, drop or reorder bots.  Texts and the parts of the snapshot     *)
(* that no key depends on are left out.                                    *)
(***************************************************************************)
EXTENDS Integers, Sequences

CONSTANTS
    None,
    BotLists,     \* what /v1/bots may answer: bots in the order of the service
    Keys,         \* operations the operator has keys for
    MaxChanges,   \* bound: changes by other clients
    MaxFaults     \* bound: failing requests

VARIABLES
    service,   \* [bots, kill]: what the service would answer now
    app,       \* [bots, kill, selected, pending]: DashboardApp
    due,       \* the refresh interval has passed since the last refresh
    step,      \* [pc, back, request, got]: what the loop is doing
    agreed,    \* history: the prompt that the latest key confirmed, or None
    changes, faults

vars == <<service, app, due, step, agreed, changes, faults>>

Operations == {"start", "stop", "pause", "resume", "tick", "reconcile",
               "cancel_open_orders", "close_positions"}

ASSUME DashboardAssumption ==
    /\ \A list \in BotLists: Len(list) \in Nat /\ (Len(list) = 0 => list = <<>>)
    /\ Keys \subseteq Operations
    /\ MaxChanges \in Nat /\ MaxFaults \in Nat

IsDestructive(op) == op \in {"cancel_open_orders", "close_positions"}

BotRequest(op, bot) == [op |-> op, bot |-> bot]
EngageKillSwitch == [op |-> "engage", bot |-> None]
ClearKillSwitch == [op |-> "clear", bot |-> None]

-----------------------------------------------------------------------------
\* The loop.

At(pc) == step.pc = pc
Go(pc) == step' = [step EXCEPT !.pc = pc]

\* A request is posted; the key is handled when it and the refresh that follows
\* a success are.
Post(request) == step' = [step EXCEPT !.pc = "post", !.back = "after", !.request = request]

\* refresh: the requests of fetch_snapshot, then the step back.
Refresh(back) == step' = [step EXCEPT !.pc = "status", !.back = back]

HasBot(bot) == \E i \in DOMAIN app.bots : app.bots[i] = bot

\* selected_bot_id; the index counts from zero.
SelectedBotId == IF app.selected < Len(app.bots) THEN app.bots[app.selected + 1] ELSE None

ClampSelectedIndex(current, len) ==
    IF len = 0 THEN 0 ELSE IF current < len THEN current ELSE len - 1

-----------------------------------------------------------------------------
\* Keys.  While a confirmation is pending, a key resolves it and does nothing
\* else.

TakesKey == At("poll") /\ app.pending = None

SelectNext ==
    /\ TakesKey
    /\ app' = IF app.bots = <<>> THEN app
              ELSE [app EXCEPT !.selected = (@ + 1) % Len(app.bots)]
    /\ agreed' = None
    /\ Go("after")
    /\ UNCHANGED <<service, due, changes, faults>>

SelectPrevious ==
    /\ TakesKey
    /\ app' = IF app.bots = <<>> THEN app
              ELSE [app EXCEPT !.selected = IF @ = 0 THEN Len(app.bots) - 1 ELSE @ - 1]
    /\ agreed' = None
    /\ Go("after")
    /\ UNCHANGED <<service, due, changes, faults>>

RefreshKey ==
    /\ TakesKey
    /\ agreed' = None
    /\ Refresh("after")
    /\ UNCHANGED <<service, app, due, changes, faults>>

\* request_bot_operation: a destructive operation is staged under the id of the
\* bot, the others are posted.
RequestBotOperation(op) ==
    /\ TakesKey
    /\ agreed' = None
    /\ \/ /\ SelectedBotId = None
          /\ Go("after") /\ UNCHANGED app
       \/ /\ SelectedBotId # None /\ ~IsDestructive(op)
          /\ Post(BotRequest(op, SelectedBotId)) /\ UNCHANGED app
       \/ /\ SelectedBotId # None /\ IsDestructive(op)
          /\ app' = [app EXCEPT !.pending = BotRequest(op, SelectedBotId)]
          /\ Go("after")
    /\ UNCHANGED <<service, due, changes, faults>>

\* toggle_kill_switch: the snapshot says which way.
ToggleKillSwitch == Post(IF app.kill THEN ClearKillSwitch ELSE EngageKillSwitch)

\* The key k: clearing runs at once, engaging is staged.
KillSwitchKey ==
    /\ TakesKey
    /\ agreed' = None
    /\ IF app.kill
       THEN ToggleKillSwitch /\ UNCHANGED app
       ELSE app' = [app EXCEPT !.pending = EngageKillSwitch] /\ Go("after")
    /\ UNCHANGED <<service, due, changes, faults>>

\* Mutant: the confirmed operation goes to the bot that is selected now.
ResolveByIndex(pending) ==
    IF pending.op = "engage" THEN ToggleKillSwitch
    ELSE IF SelectedBotId # None THEN Post(BotRequest(pending.op, SelectedBotId))
    ELSE Go("after")

ResolvePendingConfirmation(pending) ==
    IF pending.op = "engage" THEN ToggleKillSwitch
    ELSE IF HasBot(pending.bot) THEN Post(pending)
    ELSE Go("after")

\* y confirms, any other key cancels.
ConfirmKey ==
    /\ At("poll") /\ app.pending # None
    /\ app' = [app EXCEPT !.pending = None]
    /\ agreed' = app.pending
    /\ ResolvePendingConfirmation(app.pending)
    /\ UNCHANGED <<service, due, changes, faults>>

CancelKey ==
    /\ At("poll") /\ app.pending # None
    /\ app' = [app EXCEPT !.pending = None]
    /\ agreed' = None
    /\ Go("after")
    /\ UNCHANGED <<service, due, changes, faults>>

\* q, which an open prompt takes for a cancellation, or Ctrl-C.
Quit ==
    /\ At("poll")
    /\ Go("quit")
    /\ UNCHANGED <<service, app, due, agreed, changes, faults>>

-----------------------------------------------------------------------------
\* Requests.

\* The service after a request.
Served(request) ==
    CASE request.op = "engage" -> [service EXCEPT !.kill = TRUE]
      [] request.op = "clear" -> [service EXCEPT !.kill = FALSE]
      [] OTHER -> service

PostSucceeds ==
    /\ At("post")
    /\ service' = Served(step.request)
    /\ Refresh("after")
    /\ UNCHANGED <<app, due, agreed, changes, faults>>

\* The request is refused or its answer is lost; there is no refresh.
PostFails ==
    /\ At("post") /\ faults < MaxFaults
    /\ service' \in {service, Served(step.request)}
    /\ Go("after")
    /\ faults' = faults + 1
    /\ UNCHANGED <<app, due, agreed, changes>>

\* fetch_snapshot: the status, the bots, and four more requests.
FetchStatus ==
    /\ At("status")
    /\ step' = [step EXCEPT !.pc = "bots", !.got.kill = service.kill]
    /\ UNCHANGED <<service, app, due, agreed, changes, faults>>

FetchBots ==
    /\ At("bots")
    /\ step' = [step EXCEPT !.pc = "rest", !.got.bots = service.bots]
    /\ UNCHANGED <<service, app, due, agreed, changes, faults>>

\* The snapshot of the app is replaced.
Installed(got) ==
    [app EXCEPT !.kill = got.kill,
                !.bots = got.bots,
                !.selected = ClampSelectedIndex(app.selected, Len(got.bots))]

FetchRest ==
    /\ At("rest")
    /\ app' = Installed(step.got)
    /\ due' = FALSE
    /\ Go(step.back)
    /\ UNCHANGED <<service, agreed, changes, faults>>

\* A failed request leaves the old snapshot, and the refresh due.
FetchFails ==
    /\ step.pc \in {"status", "bots", "rest"} /\ faults < MaxFaults
    /\ faults' = faults + 1
    /\ Go(step.back)
    /\ UNCHANGED <<service, app, due, agreed, changes>>

\* No key was pressed within the poll.  (An event that is not a press begins the
\* poll again without a look at the clock.)
PollTimesOut ==
    /\ At("poll")
    /\ Go("after")
    /\ UNCHANGED <<service, app, due, agreed, changes, faults>>

\* should_auto_refresh, after every key and every poll without one.
AutoRefresh ==
    /\ At("after")
    /\ IF due THEN Refresh("poll") ELSE Go("poll")
    /\ UNCHANGED <<service, app, due, agreed, changes, faults>>

Elapse ==
    /\ ~due /\ ~At("quit")
    /\ due' = TRUE
    /\ UNCHANGED <<service, app, step, agreed, changes, faults>>

\* Another client turns the switch, or a reload changes the bots.
OthersChange ==
    /\ ~At("quit") /\ changes < MaxChanges
    /\ service' \in ({[service EXCEPT !.kill = ~@]} \cup
                     {[service EXCEPT !.bots = l]: l \in BotLists \ {service.bots}})
    /\ changes' = changes + 1
    /\ UNCHANGED <<app, due, step, agreed, faults>>

-----------------------------------------------------------------------------
\* run: the first refresh has succeeded.
Init ==
    /\ service \in [bots: BotLists, kill: BOOLEAN]
    /\ app = [bots |-> service.bots, kill |-> service.kill, selected |-> 0, pending |-> None]
    /\ due = FALSE
    /\ step = [pc |-> "poll", back |-> "poll", request |-> ClearKillSwitch, got |-> service]
    /\ agreed = None
    /\ changes = 0 /\ faults = 0

OperatorKey ==
    \/ SelectNext \/ SelectPrevious \/ RefreshKey \/ KillSwitchKey
    \/ ConfirmKey \/ CancelKey \/ Quit
    \/ \E op \in Keys: RequestBotOperation(op)

LoopStep ==
    \/ PostSucceeds \/ FetchStatus \/ FetchBots \/ FetchRest
    \/ PollTimesOut \/ AutoRefresh

Next == OperatorKey \/ LoopStep \/ PostFails \/ FetchFails \/ Elapse \/ OthersChange

Spec == Init /\ [][Next]_vars

\* The loop goes on and time passes; nothing is asked of the operator, but events
\* that are no presses do not come within every poll.
FairSpec == Spec /\ WF_vars(LoopStep) /\ WF_vars(Elapse)

-----------------------------------------------------------------------------
\* Types; the selection is an index.
TypeOK ==
    /\ service.bots \in BotLists /\ app.bots \in BotLists
    /\ {service.kill, app.kill, due} \subseteq BOOLEAN
    /\ app.selected \in Nat
    /\ step.pc \in {"poll", "after", "post", "status", "bots", "rest", "quit"}

\* Whatever a refresh did to the list, the selection is one of the bots that are
\* shown, so that a key always has the bot it is about (clamp_selected_index).
SelectionIsShown == app.bots # <<>> => app.selected < Len(app.bots)

\* A request that closes positions, cancels orders or engages the kill switch is
\* sent only when the latest key confirmed a prompt for this very operation on
\* this very bot, however the list changed while the prompt was open
\* (resolve_pending_confirmation).
DestructiveIsConfirmed ==
    At("post") /\ (IsDestructive(step.request.op) \/ step.request.op = "engage") =>
        agreed = step.request

\* What is sent after a confirmation is what the prompt asked about.
ConfirmedIsSent == At("post") /\ agreed # None => step.request = agreed

\* Unless the operator leaves, the list of bots shown ends up as the service's
\* and the switch is shown as it is again and again, though refreshes fail and
\* keys keep coming (should_auto_refresh).
SnapshotCatchesUp ==
    \/ <>At("quit")
    \/ <>[](app.bots = service.bots) /\ []<>(app.kill = service.kill)

=============================================================================
