---------------------------- MODULE GuardProofs ----------------------------
(***************************************************************************)
(* Three guards before what cannot be taken back: the operator's prompt,   *)
(* the validation of a configuration and the risk gate.  For any lists of  *)
(* bots, any keys and any number of failures and changes by others, the    *)
(* selection of the dashboard is a bot that is shown, and nothing          *)
(* destructive is sent that its prompt did not name.  Any configuration    *)
(* that is accepted can be built, draws its data from the account and      *)
(* stays in the account's budget.  For any lanes, accounts, limits, ages   *)
(* of bars, clock and number of restarts, the cooldown after a rejection   *)
(* is served, and an entry is refused for losses only if the account had   *)
(* them; with bars in step and no restart, entries stop at the limit.      *)
(***************************************************************************)
EXTENDS Dashboard, FiniteSetTheorems, TLAPS

\* The fields of the records.
Shape ==
    /\ service = [bots |-> service.bots, kill |-> service.kill]
    /\ app = [bots |-> app.bots, kill |-> app.kill,
              selected |-> app.selected, pending |-> app.pending]
    /\ step = [pc |-> step.pc, back |-> step.back, request |-> step.request, got |-> step.got]
    /\ step.got = [bots |-> step.got.bots, kill |-> step.got.kill]

\* The list shown and the one being fetched came from the service.
ListsKnown == {service.bots, app.bots, step.got.bots} \subseteq BotLists

\* A selection is an index, and within the list unless that is empty.
SelectionInv ==
    /\ app.selected \in Nat
    /\ Len(app.bots) # 0 => app.selected < Len(app.bots)

\* A prompt about the kill switch is the one to engage it.
PromptInv == app.pending # None /\ app.pending.op = "engage" => app.pending = EngageKillSwitch

\* A refresh goes back to the loop, never into a request.
BackInv == step.back \in {"poll", "after"}

Inv == Shape /\ ListsKnown /\ SelectionInv /\ PromptInv /\ BackInv /\ DestructiveIsConfirmed

-----------------------------------------------------------------------------
(* The empty list is the one of length 0. *)
LEMMA EmptyList == ASSUME NEW list \in BotLists
                   PROVE  Len(list) \in Nat /\ (list = <<>> <=> Len(list) = 0)
  BY DashboardAssumption

(* select_next wraps around: the next index is within the list again. *)
LEMMA NextIndex == ASSUME NEW n \in Nat \ {0}, NEW i \in Nat
                   PROVE  (i + 1) % n \in Nat /\ (i + 1) % n < n
  OBVIOUS

(* The loop going to a step that is no request keeps what it has fetched. *)
LEMMA GoKeeps ==
    ASSUME Shape, ListsKnown, BackInv, NEW pc, Go(pc), pc # "post"
    PROVE  /\ step' = [pc |-> pc, back |-> step.back, request |-> step.request, got |-> step.got]
           /\ BackInv' /\ DestructiveIsConfirmed'
           /\ step'.got = step.got
  <1>1. step' = [pc |-> pc, back |-> step.back, request |-> step.request, got |-> step.got]
    BY DEF Go, Shape
  <1> QED BY <1>1 DEF BackInv, DestructiveIsConfirmed, At

(* A refresh begins without a request. *)
LEMMA RefreshKeeps ==
    ASSUME Shape, NEW back \in {"poll", "after"}, Refresh(back)
    PROVE  /\ step' = [pc |-> "status", back |-> back, request |-> step.request, got |-> step.got]
           /\ BackInv' /\ DestructiveIsConfirmed'
           /\ step'.got = step.got
  <1>1. step' = [pc |-> "status", back |-> back, request |-> step.request, got |-> step.got]
    BY Zenon DEF Refresh, Shape
  <1> QED BY <1>1 DEF BackInv, DestructiveIsConfirmed, At

(* A post is harmless, or it is what was agreed to. *)
LEMMA PostKeeps ==
    ASSUME Shape, NEW request, Post(request),
           \/ ~(IsDestructive(request.op) \/ request.op = "engage")
           \/ agreed' = request
    PROVE  /\ step' = [pc |-> "post", back |-> "after", request |-> request, got |-> step.got]
           /\ BackInv' /\ DestructiveIsConfirmed'
           /\ step'.got = step.got
  <1>1. step' = [pc |-> "post", back |-> "after", request |-> request, got |-> step.got]
    BY Zenon DEF Post, Shape
  <1> QED BY <1>1 DEF BackInv, DestructiveIsConfirmed, At

(* The steps that leave the app and the service alone. *)
LEMMA OnlyStep ==
    ASSUME Inv, UNCHANGED <<service, app>>, BackInv', DestructiveIsConfirmed',
           step' = [pc |-> step'.pc, back |-> step'.back,
                    request |-> step'.request, got |-> step'.got],
           step'.got = [bots |-> step'.got.bots, kill |-> step'.got.kill],
           step'.got.bots \in BotLists
    PROVE  Inv'
  <1>1. Shape'
    BY DEF Inv, Shape
  <1>2. ListsKnown' /\ SelectionInv' /\ PromptInv'
    BY DEF Inv, ListsKnown, SelectionInv, PromptInv
  <1> QED BY <1>1, <1>2 DEF Inv

(* A key that moves the selection leaves it within the list. *)
LEMMA SelectStep ==
    ASSUME Inv, UNCHANGED service, Go("after"), NEW i \in Nat,
           Len(app.bots) # 0 => i < Len(app.bots),
           app' = [app EXCEPT !.selected = i]
    PROVE  Inv'
  <1>1. app' = [bots |-> app.bots, kill |-> app.kill, selected |-> i, pending |-> app.pending]
    BY DEF Inv, Shape
  <1>2. /\ step' = [pc |-> "after", back |-> step.back, request |-> step.request, got |-> step.got]
        /\ BackInv' /\ DestructiveIsConfirmed' /\ step'.got = step.got
    BY GoKeeps DEF Inv
  <1>3. Shape'
    BY <1>1, <1>2, SMTT(30) DEF Inv, Shape
  <1>4. ListsKnown' /\ SelectionInv' /\ PromptInv'
    BY <1>1, <1>2, SMTT(30) DEF Inv, ListsKnown, SelectionInv, PromptInv
  <1> QED BY <1>2, <1>3, <1>4, SMTT(30) DEF Inv

(* Setting a prompt, or taking it away, keeps the list and the selection. *)
LEMMA PromptStep ==
    ASSUME Inv, UNCHANGED service, NEW prompt,
           app' = [app EXCEPT !.pending = prompt],
           prompt = None \/ prompt = EngageKillSwitch \/ prompt.op # "engage",
           step' = [pc |-> step'.pc, back |-> step'.back,
                    request |-> step'.request, got |-> step.got],
           BackInv', DestructiveIsConfirmed'
    PROVE  Inv'
  <1>1. app' = [bots |-> app.bots, kill |-> app.kill,
                selected |-> app.selected, pending |-> prompt]
    BY DEF Inv, Shape
  <1>2. step'.got = step.got
    OBVIOUS
  <1>3. Shape'
    BY <1>1, <1>2, SMTT(30) DEF Inv, Shape
  <1>4. ListsKnown' /\ SelectionInv' /\ PromptInv'
    BY <1>1, <1>2, SMTT(30) DEF Inv, ListsKnown, SelectionInv, PromptInv
  <1> QED BY <1>3, <1>4, SMTT(30) DEF Inv

-----------------------------------------------------------------------------
(* Every key keeps the invariant. *)
LEMMA KeyStep == ASSUME Inv, OperatorKey PROVE Inv'
<1>1. Shape /\ ListsKnown /\ SelectionInv /\ PromptInv /\ BackInv
  BY DEF Inv
<1>2. Len(app.bots) \in Nat /\ (app.bots = <<>> <=> Len(app.bots) = 0)
  BY <1>1, EmptyList, SMTT(30) DEF ListsKnown
<1>3. step.got = [bots |-> step.got.bots, kill |-> step.got.kill] /\ step.got.bots \in BotLists
  BY <1>1 DEF Shape, ListsKnown
<1>4. app = [app EXCEPT !.selected = app.selected]
  BY <1>1 DEF Shape
<1>5. CASE SelectNext
  <2>1. UNCHANGED service /\ Go("after")
    BY <1>5 DEF SelectNext
  <2>2. CASE app.bots = <<>>
    BY <1>1, <1>2, <1>4, <1>5, <2>1, <2>2, SelectStep, SMTT(30) DEF SelectNext, SelectionInv
  <2>3. CASE app.bots # <<>>
    <3>1. /\ (app.selected + 1) % Len(app.bots) \in Nat
          /\ (app.selected + 1) % Len(app.bots) < Len(app.bots)
      BY <1>1, <1>2, <2>3, NextIndex, SMTT(30) DEF SelectionInv
    <3> QED BY <1>5, <2>1, <2>3, <3>1, SelectStep, SMTT(30) DEF SelectNext
  <2> QED BY <2>2, <2>3
<1>6. CASE SelectPrevious
  <2>1. UNCHANGED service /\ Go("after")
    BY <1>6 DEF SelectPrevious
  <2>2. CASE app.bots = <<>>
    BY <1>1, <1>2, <1>4, <1>6, <2>1, <2>2, SelectStep, SMTT(30) DEF SelectPrevious, SelectionInv
  <2>3. CASE app.bots # <<>>
    <3> DEFINE i == IF app.selected = 0 THEN Len(app.bots) - 1 ELSE app.selected - 1
    <3>1. i \in Nat /\ (Len(app.bots) # 0 => i < Len(app.bots))
      BY <1>1, <1>2, <2>3, SMTT(30) DEF SelectionInv
    <3>2. app' = [app EXCEPT !.selected = i]
      BY <1>6, <2>3, SMTT(30) DEF SelectPrevious
    <3> HIDE DEF i
    <3> QED BY <2>1, <3>1, <3>2, SelectStep, SMTT(30)
  <2> QED BY <2>2, <2>3
<1>7. CASE RefreshKey
  <2>1. Refresh("after") /\ UNCHANGED <<service, app>>
    BY <1>7 DEF RefreshKey
  <2> QED BY <1>1, <1>3, <2>1, RefreshKeeps, OnlyStep, SMTT(30)
<1>8. CASE KillSwitchKey
  <2>1. CASE app.kill
    <3>1. Post(ClearKillSwitch) /\ UNCHANGED <<service, app>>
      BY <1>8, <2>1, SMTT(30) DEF KillSwitchKey, ToggleKillSwitch
    <3>2. ~(IsDestructive(ClearKillSwitch.op) \/ ClearKillSwitch.op = "engage")
      BY DEF ClearKillSwitch, IsDestructive
    <3> QED BY <1>1, <1>3, <3>1, <3>2, PostKeeps, OnlyStep, SMTT(30)
  <2>2. CASE ~app.kill
    <3>1. /\ app' = [app EXCEPT !.pending = EngageKillSwitch]
          /\ Go("after") /\ UNCHANGED service
      BY <1>8, <2>2, SMTT(30) DEF KillSwitchKey
    <3> QED BY <1>1, <3>1, GoKeeps, PromptStep, SMTT(30)
  <2> QED BY <2>1, <2>2, SMTT(30)
<1>9. CASE ConfirmKey
  <2>1. /\ app' = [app EXCEPT !.pending = None] /\ agreed' = app.pending /\ UNCHANGED service
        /\ app.pending # None /\ ResolvePendingConfirmation(app.pending)
    BY <1>9 DEF ConfirmKey
  <2>2. CASE app.pending.op = "engage" /\ app.kill
    <3>1. Post(ClearKillSwitch)
      BY <2>1, <2>2, SMTT(30) DEF ResolvePendingConfirmation, ToggleKillSwitch
    <3>2. ~(IsDestructive(ClearKillSwitch.op) \/ ClearKillSwitch.op = "engage")
      BY DEF ClearKillSwitch, IsDestructive
    <3> QED BY <1>1, <2>1, <3>1, <3>2, PostKeeps, PromptStep, SMTT(30)
  <2>3. CASE app.pending.op = "engage" /\ ~app.kill
    <3>1. Post(EngageKillSwitch) /\ agreed' = EngageKillSwitch
      BY <1>1, <2>1, <2>3, SMTT(30) DEF ResolvePendingConfirmation, ToggleKillSwitch, PromptInv
    <3> QED BY <1>1, <2>1, <3>1, PostKeeps, PromptStep, SMTT(30)
  <2>4. CASE app.pending.op # "engage" /\ HasBot(app.pending.bot)
    <3>1. Post(app.pending)
      BY <2>1, <2>4, SMTT(30) DEF ResolvePendingConfirmation
    <3> QED BY <1>1, <2>1, <3>1, PostKeeps, PromptStep, SMTT(30)
  <2>5. CASE app.pending.op # "engage" /\ ~HasBot(app.pending.bot)
    <3>1. Go("after")
      BY <2>1, <2>5 DEF ResolvePendingConfirmation
    <3> QED BY <1>1, <2>1, <3>1, GoKeeps, PromptStep, SMTT(30)
  <2> QED BY <2>2, <2>3, <2>4, <2>5, SMTT(30)
<1>10. CASE CancelKey
  <2>1. app' = [app EXCEPT !.pending = None] /\ UNCHANGED service /\ Go("after")
    BY <1>10 DEF CancelKey
  <2> QED BY <1>1, <2>1, GoKeeps, PromptStep, SMTT(30)
<1>11. CASE Quit
  <2>1. Go("quit") /\ UNCHANGED <<service, app>>
    BY <1>11 DEF Quit
  <2> QED BY <1>1, <1>3, <2>1, GoKeeps, OnlyStep, SMTT(30)
<1>12. ASSUME NEW op \in Keys, RequestBotOperation(op) PROVE Inv'
  <2>1. op # "engage" /\ UNCHANGED service
    BY <1>12, DashboardAssumption, SMTT(30) DEF Operations, RequestBotOperation
  <2>2. CASE Go("after") /\ UNCHANGED app
    BY <1>1, <1>3, <2>1, <2>2, GoKeeps, OnlyStep, SMTT(30)
  <2>3. CASE ~IsDestructive(op) /\ Post(BotRequest(op, SelectedBotId)) /\ UNCHANGED app
    <3> DEFINE request == BotRequest(op, SelectedBotId)
    <3>1. ~(IsDestructive(request.op) \/ request.op = "engage")
      BY <2>1, <2>3, SMTT(30) DEF BotRequest
    <3>2. Post(request)
      BY <2>3
    <3> HIDE DEF request
    <3> QED BY <1>1, <1>3, <2>1, <2>3, <3>1, <3>2, PostKeeps, OnlyStep, SMTT(30)
  <2>4. CASE app' = [app EXCEPT !.pending = BotRequest(op, SelectedBotId)] /\ Go("after")
    <3> DEFINE prompt == BotRequest(op, SelectedBotId)
    <3>1. prompt.op # "engage"
      BY <2>1 DEF BotRequest
    <3>2. app' = [app EXCEPT !.pending = prompt]
      BY <2>4
    <3> HIDE DEF prompt
    <3> QED BY <1>1, <2>1, <2>4, <3>1, <3>2, GoKeeps, PromptStep, SMTT(30)
  <2> QED BY <1>12, <2>2, <2>3, <2>4, SMTT(30) DEF RequestBotOperation
<1> QED BY <1>5, <1>6, <1>7, <1>8, <1>9, <1>10, <1>11, <1>12, SMTT(30) DEF OperatorKey

(* A list of the service takes the place of the one shown, and the selection is
   clamped to it. *)
LEMMA InstallStep == ASSUME Inv, FetchRest PROVE Inv'
<1> DEFINE n == Len(step.got.bots)
           i == ClampSelectedIndex(app.selected, n)
<1>1. Shape /\ ListsKnown /\ SelectionInv /\ PromptInv /\ BackInv
  BY DEF Inv
<1>2. /\ app' = [app EXCEPT !.kill = step.got.kill, !.bots = step.got.bots, !.selected = i]
      /\ Go(step.back) /\ UNCHANGED service
  BY DEF FetchRest, Installed
<1>3. step.back # "post"
  BY <1>1 DEF BackInv
<1>4. /\ step' = [pc |-> step.back, back |-> step.back,
                  request |-> step.request, got |-> step.got]
      /\ BackInv' /\ DestructiveIsConfirmed' /\ step'.got = step.got
  BY <1>1, <1>2, <1>3, GoKeeps, SMTT(30)
<1>5. i \in Nat /\ (n # 0 => i < n)
  <2>1. n \in Nat /\ app.selected \in Nat
    BY <1>1, EmptyList, SMTT(30) DEF ListsKnown, SelectionInv
  <2> QED BY <2>1 DEF ClampSelectedIndex
<1>6. app' = [bots |-> step.got.bots, kill |-> step.got.kill,
              selected |-> i, pending |-> app.pending]
  <2> HIDE DEF i
  <2> QED BY <1>1, <1>2, Zenon DEF Shape
<1> HIDE DEF i
<1>7. Shape'
  BY <1>1, <1>2, <1>4, <1>6, Zenon DEF Shape
<1>8. ListsKnown' /\ SelectionInv' /\ PromptInv'
  BY <1>1, <1>2, <1>4, <1>5, <1>6, SMTT(30) DEF ListsKnown, SelectionInv, PromptInv
<1> QED BY <1>4, <1>7, <1>8, SMTT(30) DEF Inv

(* The service changing, by a request of the dashboard or by others. *)
LEMMA ServiceStep ==
    ASSUME Inv, UNCHANGED app, BackInv', DestructiveIsConfirmed',
           service' = [bots |-> service'.bots, kill |-> service'.kill],
           service'.bots \in BotLists,
           step' = [pc |-> step'.pc, back |-> step'.back,
                    request |-> step'.request, got |-> step.got]
    PROVE  Inv'
  <1>1. step'.got = step.got
    OBVIOUS
  <1>2. Shape'
    BY <1>1, SMTT(30) DEF Inv, Shape
  <1>3. ListsKnown' /\ SelectionInv' /\ PromptInv'
    BY <1>1 DEF Inv, ListsKnown, SelectionInv, PromptInv
  <1> QED BY <1>2, <1>3, SMTT(30) DEF Inv

(* A request changes the switch and no list. *)
LEMMA ServedKeeps ==
    ASSUME Shape, NEW request
    PROVE  /\ Served(request) = [bots |-> Served(request).bots, kill |-> Served(request).kill]
           /\ Served(request).bots = service.bots
  <1>1. service = [bots |-> service.bots, kill |-> service.kill]
    BY DEF Shape
  <1> QED BY <1>1, Zenon DEF Served

(* Every step keeps the invariant. *)
LEMMA InvNext == Inv /\ [Next]_vars => Inv'
<1> SUFFICES ASSUME Inv, [Next]_vars PROVE Inv'
  OBVIOUS
<1>1. Shape /\ ListsKnown /\ BackInv
  BY DEF Inv
<1>2. /\ step = [pc |-> step.pc, back |-> step.back, request |-> step.request, got |-> step.got]
      /\ step.got = [bots |-> step.got.bots, kill |-> step.got.kill] /\ step.got.bots \in BotLists
      /\ service = [bots |-> service.bots, kill |-> service.kill] /\ service.bots \in BotLists
  BY <1>1 DEF Shape, ListsKnown
<1>3. CASE OperatorKey
  BY <1>3, KeyStep, SMTT(30)
<1>4. CASE PostSucceeds
  <2>1. service' = Served(step.request) /\ Refresh("after") /\ UNCHANGED app
    BY <1>4, SMTT(30) DEF PostSucceeds
  <2> QED BY <1>1, <1>2, <2>1, ServedKeeps, RefreshKeeps, ServiceStep, SMTT(30)
<1>5. CASE PostFails
  <2>1. service' \in {service, Served(step.request)} /\ Go("after") /\ UNCHANGED app
    BY <1>5, SMTT(30) DEF PostFails
  <2> QED BY <1>1, <1>2, <2>1, ServedKeeps, GoKeeps, ServiceStep, SMTT(30)
<1>6. CASE FetchStatus
  <2>1. step' = [pc |-> "bots", back |-> step.back, request |-> step.request,
                 got |-> [bots |-> step.got.bots, kill |-> service.kill]]
    BY <1>2, <1>6, Zenon DEF FetchStatus
  <2>2. UNCHANGED <<service, app>>
    BY <1>6 DEF FetchStatus
  <2>3. BackInv' /\ DestructiveIsConfirmed'
    BY <1>1, <2>1 DEF BackInv, DestructiveIsConfirmed, At
  <2> QED BY <1>2, <2>1, <2>2, <2>3, OnlyStep, SMTT(30)
<1>7. CASE FetchBots
  <2>1. step' = [pc |-> "rest", back |-> step.back, request |-> step.request,
                 got |-> [bots |-> service.bots, kill |-> step.got.kill]]
    BY <1>2, <1>7, Zenon DEF FetchBots
  <2>2. UNCHANGED <<service, app>>
    BY <1>7 DEF FetchBots
  <2>3. BackInv' /\ DestructiveIsConfirmed'
    BY <1>1, <2>1 DEF BackInv, DestructiveIsConfirmed, At
  <2> QED BY <1>2, <2>1, <2>2, <2>3, OnlyStep
<1>8. CASE FetchRest
  BY <1>8, InstallStep
<1>9. CASE FetchFails
  <2>1. Go(step.back) /\ step.back # "post" /\ UNCHANGED <<service, app>>
    BY <1>1, <1>9, SMTT(30) DEF FetchFails, BackInv
  <2> QED BY <1>1, <1>2, <2>1, GoKeeps, OnlyStep
<1>10. CASE PollTimesOut
  <2>1. Go("after") /\ UNCHANGED <<service, app>>
    BY <1>10, SMTT(30) DEF PollTimesOut
  <2> QED BY <1>1, <1>2, <2>1, GoKeeps, OnlyStep, SMTT(30)
<1>11. CASE AutoRefresh
  <2>1. (Refresh("poll") \/ Go("poll")) /\ UNCHANGED <<service, app>>
    BY <1>11, SMTT(30) DEF AutoRefresh
  <2> QED BY <1>1, <1>2, <2>1, RefreshKeeps, GoKeeps, OnlyStep, SMTT(30)
<1>12. CASE Elapse \/ UNCHANGED vars
  <2>1. UNCHANGED <<service, app, step, agreed>>
    BY <1>12 DEF Elapse, vars
  <2>2. BackInv' /\ DestructiveIsConfirmed'
    BY <2>1 DEF Inv, BackInv, DestructiveIsConfirmed, At
  <2> QED BY <1>2, <2>1, <2>2, OnlyStep, SMTT(30)
<1>13. CASE OthersChange
  <2>1. /\ service' \in ({[service EXCEPT !.kill = ~@]} \cup
                         {[service EXCEPT !.bots = l]: l \in BotLists \ {service.bots}})
        /\ UNCHANGED <<app, step, agreed>>
    BY <1>13, SMTT(30) DEF OthersChange
  <2>2. /\ service' = [bots |-> service'.bots, kill |-> service'.kill]
        /\ service'.bots \in BotLists
    BY <1>2, <2>1, SMTT(30)
  <2>3. BackInv' /\ DestructiveIsConfirmed'
    BY <2>1, SMTT(30) DEF Inv, BackInv, DestructiveIsConfirmed, At
  <2> QED BY <1>2, <2>1, <2>2, <2>3, ServiceStep, SMTT(30)
<1> QED BY <1>3, <1>4, <1>5, <1>6, <1>7, <1>8, <1>9, <1>10, <1>11, <1>12, <1>13
        DEF Next, LoopStep

(* The invariant holds when the dashboard is drawn for the first time. *)
LEMMA InvInit == Init => Inv
<1> SUFFICES ASSUME Init PROVE Inv
  OBVIOUS
<1>1. service = [bots |-> service.bots, kill |-> service.kill] /\ service.bots \in BotLists
  BY DEF Init
<1>2. /\ app.bots = service.bots /\ app.selected = 0 /\ app.pending = None
      /\ step.got = service /\ step.pc = "poll" /\ step.back = "poll"
  BY DEF Init
<1>3. Shape
  BY <1>1, <1>2, SMTT(30) DEF Init, Shape
<1>4. SelectionInv
  BY <1>1, <1>2, EmptyList, SMTT(30) DEF SelectionInv
<1>5. ListsKnown /\ PromptInv /\ BackInv /\ DestructiveIsConfirmed
  BY <1>1, <1>2, SMTT(30) DEF ListsKnown, PromptInv, BackInv, DestructiveIsConfirmed, At
<1> QED BY <1>3, <1>4, <1>5, SMTT(30) DEF Inv

-----------------------------------------------------------------------------
(* However the service reorders, shortens or empties the list between two
   refreshes, the selected index of DashboardApp is one of the bots shown. *)
THEOREM SelectionShown == Spec => []SelectionIsShown
<1>1. Inv => SelectionIsShown
  BY EmptyList, SMTT(30) DEF Inv, ListsKnown, SelectionInv, SelectionIsShown
<1> QED BY InvInit, InvNext, <1>1, PTL DEF Spec

(* resolve_pending_confirmation and the keys send a destructive request only
   when the operator has just confirmed the prompt for that operation and bot. *)
THEOREM DestructiveConfirmed == Spec => []DestructiveIsConfirmed
<1>1. Inv => DestructiveIsConfirmed
  BY DEF Inv
<1> QED BY InvInit, InvNext, <1>1, PTL DEF Spec

-----------------------------------------------------------------------------
(***************************************************************************)
(* Sums over finite sets.  A claim that fails for some subset of a finite  *)
(* set fails for a smallest one; taking one element out of that gives the  *)
(* contradiction.                                                          *)
(***************************************************************************)
Any(s) == CHOOSE x \in s : TRUE

\* g sums up f over every subset of S, one element at a time.
SumsUp(g, f, S) ==
    g = [s \in SUBSET S |-> IF s = {} THEN 0 ELSE f[Any(s)] + g[s \ {Any(s)}]]

\* A nonempty set of subsets of a finite set has a smallest one.
LEMMA SmallestSubset ==
    ASSUME NEW S, IsFiniteSet(S), NEW T \in SUBSET (SUBSET S), T # {}
    PROVE  \E x \in T : \A y \in T : ~(y \subseteq x /\ y # x)
<1> DEFINE R == StrictSubsetOrdering(S)
<1>1. IsWellFoundedOn(R, SUBSET S)
  BY FS_StrictSubsetOrderingWellFounded, FS_FiniteSubsetsOfFinite
<1>2. \E x \in T : \A y \in T : ~(<<y, x>> \in R)
  <2> HIDE DEF R
  <2> QED  BY <1>1, WFMin
<1>3. ASSUME NEW x \in T, NEW y \in T, y \subseteq x, y # x PROVE <<y, x>> \in R
  BY <1>3 DEF StrictSubsetOrdering
<1> HIDE DEF R
<1> QED  BY <1>2, <1>3, Zenon

LEMMA AnyIsMember == ASSUME NEW s, s # {} PROVE Any(s) \in s
  BY DEF Any

\* Two functions that sum up f over sets that have a subset in common agree on it.
LEMMA SumsAgree ==
    ASSUME NEW S, NEW U, IsFiniteSet(S), NEW f, NEW g, NEW h, SumsUp(g, f, S), SumsUp(h, f, U)
    PROVE  \A s \in SUBSET (S \cap U) : g[s] = h[s]
<1> DEFINE Bad == {s \in SUBSET S : s \subseteq U /\ g[s] # h[s]}
<1>1. SUFFICES ASSUME Bad # {} PROVE FALSE
  BY Zenon
<1>2. PICK s \in Bad : \A y \in Bad : ~(y \subseteq s /\ y # s)
  <2>1. Bad \in SUBSET (SUBSET S)
    OBVIOUS
  <2> HIDE DEF Bad
  <2> QED  BY <1>1, <2>1, SmallestSubset
<1>3. s \in SUBSET S /\ s \in SUBSET U
  OBVIOUS
<1>4. /\ g[s] = IF s = {} THEN 0 ELSE f[Any(s)] + g[s \ {Any(s)}]
      /\ h[s] = IF s = {} THEN 0 ELSE f[Any(s)] + h[s \ {Any(s)}]
  BY <1>3, Zenon DEF SumsUp
<1>5. CASE s = {}
  BY <1>2, <1>4, <1>5, Zenon
<1>6. CASE s # {}
  <2>1. Any(s) \in s
    BY <1>6, AnyIsMember
  <2>2. s \ {Any(s)} \notin Bad
    BY <1>2, <2>1, Zenon
  <2>3. s \ {Any(s)} \in SUBSET S /\ s \ {Any(s)} \in SUBSET U
    BY <1>3, Zenon
  <2>4. g[s \ {Any(s)}] = h[s \ {Any(s)}]
    BY <2>2, <2>3, Zenon
  <2> QED  BY <1>2, <1>4, <1>6, <2>4, Zenon
<1> QED  BY <1>5, <1>6

\* There is a function that sums f up over the subsets of a finite set.
LEMMA SumExists ==
    ASSUME NEW S, IsFiniteSet(S), NEW f
    PROVE  \E g : SumsUp(g, f, S)
<1> DEFINE Bad == {T \in SUBSET S : ~\E g : SumsUp(g, f, T)}
<1>1. SUFFICES ASSUME Bad # {} PROVE FALSE
  <2>1. S \in SUBSET S
    OBVIOUS
  <2> QED  BY <1>1, <2>1, Zenon
<1>2. PICK T \in Bad : \A y \in Bad : ~(y \subseteq T /\ y # T)
  <2>1. Bad \in SUBSET (SUBSET S)
    OBVIOUS
  <2> HIDE DEF Bad
  <2> QED  BY <1>1, <2>1, SmallestSubset
<1> DEFINE G(U) == CHOOSE g : SumsUp(g, f, U)
           W(s) == IF s = {} THEN 0 ELSE f[Any(s)] + G(s \ {Any(s)})[s \ {Any(s)}]
           h == [s \in SUBSET T |-> W(s)]
<1>3. ASSUME NEW U \in SUBSET T, U # T PROVE SumsUp(G(U), f, U)
  <2>1. U \in SUBSET S /\ U \notin Bad
    BY <1>2, <1>3, Zenon
  <2>2. \E g : SumsUp(g, f, U)
    BY <2>1, Zenon
  <2> HIDE DEF SumsUp
  <2> QED  BY <2>2, Zenon
<1>4. ASSUME NEW s \in SUBSET T, s # {} PROVE h[s \ {Any(s)}] = G(s \ {Any(s)})[s \ {Any(s)}]
  <2> DEFINE u == s \ {Any(s)}
             v == u \ {Any(u)}
  <2>1. Any(s) \in s
    BY <1>4, AnyIsMember
  <2>2. u \in SUBSET T /\ u # T
    BY <2>1, Zenon
  <2>3. SumsUp(G(u), f, u)
    <3> HIDE DEF G, u
    <3> QED  BY <1>3, <2>2, Zenon
  <2>4. u \in SUBSET u
    OBVIOUS
  <2>5. G(u)[u] = IF u = {} THEN 0 ELSE f[Any(u)] + G(u)[v]
    <3> HIDE DEF G, u
    <3> QED  BY <2>3, <2>4, Zenon DEF SumsUp
  <2>6. ASSUME u # {} PROVE G(u)[v] = G(v)[v]
    <3>1. Any(u) \in u
      BY <2>6, AnyIsMember
    <3>2. v \in SUBSET T /\ v # T /\ v \in SUBSET (u \cap v)
      BY <2>2, <3>1, Zenon
    <3>3. SumsUp(G(v), f, v)
      <4> HIDE DEF G, v
      <4> QED  BY <1>3, <3>2, Zenon
    <3>4. IsFiniteSet(u)
      BY <1>2, FS_Subset
    <3> HIDE DEF G, u, v
    <3> QED  BY <2>3, <3>2, <3>3, <3>4, SumsAgree
  <2>7. h[u] = W(u)
    <3> HIDE DEF W, u
    <3> QED  BY <2>2
  <2>8. CASE u = {}
    BY <2>5, <2>7, <2>8, Zenon
  <2>9. CASE u # {}
    <3> HIDE DEF G, h
    <3> QED  BY <2>5, <2>6, <2>7, <2>9, Zenon
  <2> QED  BY <2>8, <2>9
<1>5. ASSUME NEW s \in SUBSET T
      PROVE  W(s) = IF s = {} THEN 0 ELSE f[Any(s)] + h[s \ {Any(s)}]
  <2> HIDE DEF G, h
  <2> QED  BY <1>4, Zenon
<1>6. h = [s \in SUBSET T |-> IF s = {} THEN 0 ELSE f[Any(s)] + h[s \ {Any(s)}]]
  <2> DEFINE k == [s \in SUBSET T |-> IF s = {} THEN 0 ELSE f[Any(s)] + h[s \ {Any(s)}]]
  <2>1. \A s \in SUBSET T : h[s] = k[s]
    <3>1. ASSUME NEW s \in SUBSET T PROVE h[s] = W(s)
      <4> HIDE DEF W
      <4> QED  OBVIOUS
    <3> HIDE DEF W, h
    <3> QED  BY <1>5, <3>1, Zenon
  <2>2. DOMAIN h = SUBSET T /\ DOMAIN k = SUBSET T
    OBVIOUS
  <2>3. h = [s \in SUBSET T |-> h[s]]
    <3> HIDE DEF W
    <3> QED  OBVIOUS
  <2>4. k = [s \in SUBSET T |-> k[s]]
    <3> HIDE DEF W, h
    <3> QED  OBVIOUS
  <2> HIDE DEF W, h, k
  <2> QED  BY <2>1, <2>3, <2>4, Zenon DEF k
<1>7. SumsUp(h, f, T)
  <2> HIDE DEF h
  <2> QED  BY <1>6, Zenon DEF SumsUp
<1> HIDE DEF h, SumsUp
<1> QED  BY <1>2, <1>7, Zenon

-----------------------------------------------------------------------------
\* The sum of a function over a finite set, one element at a time.
LEMMA SumUnfolds ==
    ASSUME NEW S, IsFiniteSet(S), NEW f
    PROVE  SumFunctionOnSet(f, S) =
               IF S = {} THEN 0 ELSE f[Any(S)] + SumFunctionOnSet(f, S \ {Any(S)})
<1> DEFINE G(U) == CHOOSE g : SumsUp(g, f, U)
<1>1. ASSUME NEW U, IsFiniteSet(U) PROVE SumFunctionOnSet(f, U) = G(U)[U] /\ SumsUp(G(U), f, U)
  <2>1. SumFunctionOnSet(f, U) = G(U)[U]
    BY DEF SumFunctionOnSet, FoldFunctionOnSet, MapThenFoldSet, SumsUp, Any
  <2>2. \E g : SumsUp(g, f, U)
    BY <1>1, SumExists
  <2> HIDE DEF SumsUp
  <2> QED  BY <2>1, <2>2, Zenon
<1> DEFINE u == S \ {Any(S)}
<1>2. IsFiniteSet(u)
  BY FS_Subset
<1>3. S \in SUBSET S /\ u \in SUBSET (S \cap u)
  OBVIOUS
<1>4. SumFunctionOnSet(f, S) = G(S)[S] /\ SumFunctionOnSet(f, u) = G(u)[u]
  <2> HIDE DEF G, u
  <2> QED  BY <1>1, <1>2, Zenon
<1>5. SumsUp(G(S), f, S) /\ SumsUp(G(u), f, u)
  <2> HIDE DEF G, u
  <2> QED  BY <1>1, <1>2, Zenon
<1>6. G(S)[u] = G(u)[u]
  <2> HIDE DEF G, u
  <2> QED  BY <1>3, <1>5, SumsAgree
<1>7. G(S)[S] = IF S = {} THEN 0 ELSE f[Any(S)] + G(S)[u]
  <2> HIDE DEF G
  <2> QED  BY <1>3, <1>5, Zenon DEF SumsUp
<1> HIDE DEF G
<1> QED  BY <1>4, <1>6, <1>7, Zenon


\* A sum of integers is an integer.
LEMMA SumIsInt ==
    ASSUME NEW S, IsFiniteSet(S), NEW f, \A x \in S : f[x] \in Int
    PROVE  SumFunctionOnSet(f, S) \in Int
<1> DEFINE Bad == {T \in SUBSET S : SumFunctionOnSet(f, T) \notin Int}
<1>1. SUFFICES ASSUME Bad # {} PROVE FALSE
  <2>1. S \in SUBSET S
    OBVIOUS
  <2> QED  BY <1>1, <2>1, Zenon
<1>2. PICK T \in Bad : \A y \in Bad : ~(y \subseteq T /\ y # T)
  <2>1. Bad \in SUBSET (SUBSET S)
    OBVIOUS
  <2> HIDE DEF Bad
  <2> QED  BY <1>1, <2>1, SmallestSubset
<1>3. IsFiniteSet(T)
  BY FS_Subset
<1>4. SumFunctionOnSet(f, T) =
          IF T = {} THEN 0 ELSE f[Any(T)] + SumFunctionOnSet(f, T \ {Any(T)})
  BY <1>3, SumUnfolds, Zenon
<1>5. CASE T = {}
  BY <1>2, <1>4, <1>5
<1>6. CASE T # {}
  <2>1. Any(T) \in T /\ Any(T) \in S
    BY <1>6, AnyIsMember
  <2>2. T \ {Any(T)} \in SUBSET S /\ T \ {Any(T)} \notin Bad
    BY <1>2, <2>1, Zenon
  <2>3. SumFunctionOnSet(f, T \ {Any(T)}) \in Int
    BY <2>2, Zenon
  <2> DEFINE rest == SumFunctionOnSet(f, T \ {Any(T)})
             sum == SumFunctionOnSet(f, T)
             e == f[Any(T)]
  <2>4. sum = e + rest /\ rest \in Int /\ e \in Int /\ sum \notin Int
    <3>1. e \in Int
      BY <2>1, Zenon
    <3>2. sum \notin Int
      BY <1>2, Zenon
    <3> QED  BY <1>4, <1>6, <2>3, <3>1, <3>2, Zenon
  <2> HIDE DEF rest, sum, e
  <2> QED  BY <2>4
<1> QED  BY <1>5, <1>6

\* Any element may be taken out of a sum.
LEMMA SumSplits ==
    ASSUME NEW S, IsFiniteSet(S), NEW f, \A x \in S : f[x] \in Int
    PROVE  \A x \in S : SumFunctionOnSet(f, S) = f[x] + SumFunctionOnSet(f, S \ {x})
<1> DEFINE Sum(T) == SumFunctionOnSet(f, T)
           Bad == {T \in SUBSET S : \E x \in T : Sum(T) # f[x] + Sum(T \ {x})}
<1>1. SUFFICES ASSUME Bad # {} PROVE FALSE
  <2>1. S \in SUBSET S
    OBVIOUS
  <2> QED  BY <1>1, <2>1, Zenon
<1>2. PICK T \in Bad : \A y \in Bad : ~(y \subseteq T /\ y # T)
  <2>1. Bad \in SUBSET (SUBSET S)
    OBVIOUS
  <2> HIDE DEF Bad
  <2> QED  BY <1>1, <2>1, SmallestSubset
<1>3. PICK x \in T : Sum(T) # f[x] + Sum(T \ {x})
  OBVIOUS
<1> DEFINE p == Any(T)
<1>4. p \in T /\ T # {} /\ T \in SUBSET S
  BY AnyIsMember
<1>5. ASSUME NEW U \in SUBSET T PROVE IsFiniteSet(U) /\ Sum(U) \in Int
  <2>1. IsFiniteSet(U) /\ \A y \in U : f[y] \in Int
    BY FS_Subset
  <2> QED  BY <2>1, SumIsInt
<1>6. Sum(T) = f[p] + Sum(T \ {p})
  <2>1. IsFiniteSet(T)
    BY <1>5, Zenon
  <2> QED  BY <1>4, <2>1, SumUnfolds, Zenon
<1>7. ASSUME NEW y \in T, NEW z \in T, y # z
      PROVE  Sum(T \ {y}) = f[z] + Sum((T \ {y}) \ {z})
  <2>1. T \ {y} \in SUBSET S /\ T \ {y} # T /\ T \ {y} \subseteq T /\ z \in T \ {y}
    BY <1>4, <1>7, Zenon
  <2>2. T \ {y} \notin Bad
    BY <1>2, <2>1, Zenon
  <2> HIDE DEF Sum
  <2> QED  BY <2>1, <2>2, Zenon
<1>8. x # p
  <2> HIDE DEF Sum, p
  <2> QED  BY <1>3, <1>6, Zenon
<1>9. (T \ {p}) \ {x} = (T \ {x}) \ {p}
  OBVIOUS
<1> DEFINE r == Sum((T \ {x}) \ {p})
           fx == f[x]
           fp == f[p]
           all == Sum(T)
           noX == Sum(T \ {x})
           noP == Sum(T \ {p})
<1>10. all = fp + noP /\ noP = fx + r /\ noX = fp + r /\ all # fx + noX
  <2>1. noP = fx + r
    <3> HIDE DEF Sum, p
    <3> QED  BY <1>4, <1>7, <1>8, <1>9, Zenon
  <2>2. noX = fp + r
    <3> HIDE DEF Sum, p
    <3> QED  BY <1>4, <1>7, <1>8, Zenon
  <2> HIDE DEF Sum, p
  <2> QED  BY <1>3, <1>6, <2>1, <2>2, Zenon
<1>11. r \in Int /\ fx \in Int /\ fp \in Int
  <2>1. (T \ {x}) \ {p} \in SUBSET T
    OBVIOUS
  <2>2. x \in S /\ p \in S
    BY <1>4, Zenon
  <2> HIDE DEF Sum, p
  <2> QED  BY <1>5, <2>1, <2>2, Zenon
<1> HIDE DEF r, fx, fp, all, noX, noP
<1> QED  BY <1>10, <1>11

\* What a sum is over does not depend on the values elsewhere.
LEMMA SumOfSame ==
    ASSUME NEW S, IsFiniteSet(S), NEW f, NEW g, \A x \in S : f[x] = g[x]
    PROVE  SumFunctionOnSet(f, S) = SumFunctionOnSet(g, S)
<1> DEFINE Bad == {T \in SUBSET S : SumFunctionOnSet(f, T) # SumFunctionOnSet(g, T)}
<1>1. SUFFICES ASSUME Bad # {} PROVE FALSE
  <2>1. S \in SUBSET S
    OBVIOUS
  <2> QED  BY <1>1, <2>1, Zenon
<1>2. PICK T \in Bad : \A y \in Bad : ~(y \subseteq T /\ y # T)
  <2>1. Bad \in SUBSET (SUBSET S)
    OBVIOUS
  <2> HIDE DEF Bad
  <2> QED  BY <1>1, <2>1, SmallestSubset
<1>3. IsFiniteSet(T) /\ T \in SUBSET S
  BY FS_Subset
<1> DEFINE u == T \ {Any(T)}
<1>4. /\ SumFunctionOnSet(f, T) = IF T = {} THEN 0 ELSE f[Any(T)] + SumFunctionOnSet(f, u)
      /\ SumFunctionOnSet(g, T) = IF T = {} THEN 0 ELSE g[Any(T)] + SumFunctionOnSet(g, u)
  BY <1>3, SumUnfolds
<1>5. CASE T = {}
  BY <1>2, <1>4, <1>5, Zenon
<1>6. CASE T # {}
  <2>1. Any(T) \in T /\ Any(T) \in S
    BY <1>6, AnyIsMember
  <2>2. u \in SUBSET S /\ u # T /\ u \subseteq T
    BY <1>3, <2>1, Zenon
  <2>3. SumFunctionOnSet(f, u) = SumFunctionOnSet(g, u)
    <3> HIDE DEF u
    <3> QED  BY <1>2, <2>2, Zenon
  <2>4. f[Any(T)] = g[Any(T)]
    BY <2>1, Zenon
  <2> HIDE DEF u
  <2> QED  BY <1>2, <1>4, <1>6, <2>3, <2>4, Zenon
<1> QED  BY <1>5, <1>6

\* A sum grows by what one of its values grows.
LEMMA SumOfRaised ==
    ASSUME NEW S, IsFiniteSet(S), NEW D, S \subseteq D, NEW f \in [D -> Int], NEW x \in S,
           NEW n \in Int
    PROVE  SumFunctionOnSet([f EXCEPT ![x] = f[x] + n], S) = SumFunctionOnSet(f, S) + n
<1> DEFINE g == [f EXCEPT ![x] = f[x] + n]
           rest == S \ {x}
<1>1. /\ \A y \in S : f[y] \in Int /\ g[y] \in Int
      /\ g[x] = f[x] + n /\ \A y \in rest : f[y] = g[y]
  OBVIOUS
<1>2. IsFiniteSet(rest) /\ \A y \in rest : f[y] \in Int
  BY FS_Subset
<1> HIDE DEF g
<1>3. SumFunctionOnSet(f, S) = f[x] + SumFunctionOnSet(f, rest)
  BY <1>1, SumSplits
<1>4. SumFunctionOnSet(g, S) = g[x] + SumFunctionOnSet(g, rest)
  BY <1>1, SumSplits
<1> HIDE DEF rest
<1>5. SumFunctionOnSet(f, rest) = SumFunctionOnSet(g, rest)
  BY <1>1, <1>2, SumOfSame
<1>6. SumFunctionOnSet(f, rest) \in Int
  BY <1>2, SumIsInt
<1>7. SumFunctionOnSet(g, S) = SumFunctionOnSet(f, S) + n
  <2> DEFINE r == SumFunctionOnSet(f, rest)
             fx == f[x]
             all == SumFunctionOnSet(f, S)
             new == SumFunctionOnSet(g, S)
  <2>1. all = fx + r /\ new = (fx + n) + r /\ r \in Int /\ fx \in Int
    BY <1>1, <1>3, <1>4, <1>5, <1>6, Zenon
  <2> HIDE DEF r, fx, all, new
  <2>2. new = all + n
    BY <2>1
  <2> QED  BY <2>2, Zenon DEF all, new
<1> QED  BY <1>7 DEF g

\* A sum of zeros is zero.
LEMMA SumOfZeros ==
    ASSUME NEW S, IsFiniteSet(S), NEW f, \A x \in S : f[x] = 0
    PROVE  SumFunctionOnSet(f, S) = 0
<1> DEFINE Bad == {T \in SUBSET S : SumFunctionOnSet(f, T) # 0}
<1>1. SUFFICES ASSUME Bad # {} PROVE FALSE
  <2>1. S \in SUBSET S
    OBVIOUS
  <2> QED  BY <1>1, <2>1, Zenon
<1>2. PICK T \in Bad : \A y \in Bad : ~(y \subseteq T /\ y # T)
  <2>1. Bad \in SUBSET (SUBSET S)
    OBVIOUS
  <2> HIDE DEF Bad
  <2> QED  BY <1>1, <2>1, SmallestSubset
<1>3. IsFiniteSet(T) /\ T \in SUBSET S
  BY FS_Subset
<1> DEFINE u == T \ {Any(T)}
<1>4. SumFunctionOnSet(f, T) = IF T = {} THEN 0 ELSE f[Any(T)] + SumFunctionOnSet(f, u)
  BY <1>3, SumUnfolds
<1>5. CASE T = {}
  BY <1>2, <1>4, <1>5, Zenon
<1>6. CASE T # {}
  <2>1. Any(T) \in T /\ Any(T) \in S
    BY <1>6, AnyIsMember
  <2>2. u \in SUBSET S /\ u # T /\ u \subseteq T
    BY <1>3, <2>1, Zenon
  <2>3. SumFunctionOnSet(f, u) = 0
    <3> HIDE DEF u
    <3> QED  BY <1>2, <2>2, Zenon
  <2>4. f[Any(T)] = 0
    BY <2>1, Zenon
  <2>5. SumFunctionOnSet(f, T) = 0
    <3> HIDE DEF u
    <3> QED  BY <1>4, <1>6, <2>3, <2>4
  <2> QED  BY <1>2, <2>5, Zenon
<1> QED  BY <1>5, <1>6
-----------------------------------------------------------------------------
(***************************************************************************)
(* The risk gate, of lanes of any accounts.                                *)
(***************************************************************************)
CONSTANTS RiskLanes, AccountOf, DailyLimit, PositionsAllowed, BarAge, CooldownMs, DayLength,
          MaxTime, MaxTrades, MaxRiskRestarts

VARIABLES clock, riskLane, realised, rejectedAt, verdict, trades, riskRestarts

Risk == INSTANCE RiskGate WITH
    Lanes <- RiskLanes, PositionLimit <- PositionsAllowed, Age <- BarAge,
    Cooldown <- CooldownMs, MaxRestarts <- MaxRiskRestarts,
    lane <- riskLane, restarts <- riskRestarts

LaneState == [qty : Nat, loss : Nat, lossDate : Int, until : Int]

(***************************************************************************)
(* Strengthens CooldownIsServed: no rejection lies ahead of the clock, and *)
(* whatever rejection set the lane's cooldown_until_ms last, its bar was   *)
(* at most its age older than the latest one rejected.                     *)
(***************************************************************************)
CooldownInv ==
    /\ clock \in Nat
    /\ riskLane \in [RiskLanes -> LaneState]
    /\ rejectedAt \in [RiskLanes -> Int]
    /\ \A l \in RiskLanes :
        /\ rejectedAt[l] <= clock
        /\ rejectedAt[l] # -1 => riskLane[l].until >= rejectedAt[l] + CooldownMs - BarAge[l]

AgesOK == \A l \in RiskLanes : BarAge[l] \in Nat

\* Changing one field of a lane's record.
LEMMA SetQuantity ==
    ASSUME NEW s \in LaneState, NEW q \in Nat
    PROVE  [s EXCEPT !.qty = q] \in LaneState
  BY DEF LaneState

LEMMA SetLoss ==
    ASSUME NEW s \in LaneState, NEW x \in Nat
    PROVE  /\ [s EXCEPT !.loss = x] \in LaneState
           /\ [s EXCEPT !.loss = x].until = s.until
           /\ [s EXCEPT !.loss = x].qty = s.qty
  BY DEF LaneState

LEMMA SetLossDate ==
    ASSUME NEW s \in LaneState, NEW d \in Int
    PROVE  /\ [s EXCEPT !.lossDate = d] \in LaneState
           /\ [s EXCEPT !.lossDate = d].until = s.until
           /\ [s EXCEPT !.lossDate = d].qty = s.qty
  BY DEF LaneState

LEMMA SetUntil ==
    ASSUME NEW s \in LaneState, NEW t \in Int
    PROVE  [s EXCEPT !.until = t] \in LaneState /\ [s EXCEPT !.until = t].until = t
  BY DEF LaneState

\* What the rollover, a buy and a sale make of a lane's record.
LEMMA ResetLoss ==
    ASSUME NEW s \in LaneState, NEW d \in Int
    PROVE  /\ [s EXCEPT !.loss = 0, !.lossDate = d] \in LaneState
           /\ [s EXCEPT !.loss = 0, !.lossDate = d].until = s.until
           /\ [s EXCEPT !.loss = 0, !.lossDate = d].qty = s.qty
<1> DEFINE r == [s EXCEPT !.loss = 0]
<1>1. [s EXCEPT !.loss = 0, !.lossDate = d] = [r EXCEPT !.lossDate = d]
  BY DEF LaneState
<1>2. r \in LaneState /\ r.until = s.until /\ r.qty = s.qty
  BY SetLoss
<1> HIDE DEF r
<1> QED  BY <1>1, <1>2, SetLossDate

LEMMA Bought ==
    ASSUME NEW s \in LaneState
    PROVE  [s EXCEPT !.qty = @ + 1, !.until = 0] \in LaneState
<1> DEFINE r == [s EXCEPT !.qty = s.qty + 1]
<1>1. [s EXCEPT !.qty = @ + 1, !.until = 0] = [r EXCEPT !.until = 0]
  BY DEF LaneState
<1>2. s.qty + 1 \in Nat
  BY DEF LaneState
<1>3. r \in LaneState
  BY <1>2, SetQuantity
<1> HIDE DEF r
<1> QED  BY <1>1, <1>3, SetUntil

LEMMA Sold ==
    ASSUME NEW s \in LaneState, NEW sold \in 1 .. s.qty, NEW loss \in Nat
    PROVE  [s EXCEPT !.qty = @ - sold, !.loss = @ + loss, !.until = 0] \in LaneState
<1> DEFINE r == [s EXCEPT !.qty = s.qty - sold]
           z == [r EXCEPT !.loss = s.loss + loss]
<1>1. [s EXCEPT !.qty = @ - sold, !.loss = @ + loss, !.until = 0] = [z EXCEPT !.until = 0]
  BY DEF LaneState
<1>2. s.qty - sold \in Nat /\ s.loss + loss \in Nat
  BY DEF LaneState
<1>3. r \in LaneState
  BY <1>2, SetQuantity
<1> HIDE DEF r
<1>4. z \in LaneState
  BY <1>2, <1>3, SetLoss
<1> HIDE DEF z
<1> QED  BY <1>1, <1>4, SetUntil

\* The rollover of the daily losses leaves quantities and cooldowns alone.
LEMMA RolloverKeepsTheRest ==
    ASSUME riskLane \in [RiskLanes -> LaneState], NEW d \in Int
    PROVE  /\ Risk!Rollover(d) \in [RiskLanes -> LaneState]
           /\ \A l \in RiskLanes : Risk!Rollover(d)[l].until = riskLane[l].until
                               /\ Risk!Rollover(d)[l].qty = riskLane[l].qty
<1>1. \A l \in RiskLanes : riskLane[l] \in LaneState
  OBVIOUS
<1>2. \A l \in RiskLanes : Risk!Rollover(d)[l] = riskLane[l]
                       \/ Risk!Rollover(d)[l] = [riskLane[l] EXCEPT !.loss = 0, !.lossDate = d]
  BY SMTT(30) DEF Risk!Rollover
<1>3. \A l \in RiskLanes : /\ Risk!Rollover(d)[l] \in LaneState
                       /\ Risk!Rollover(d)[l].until = riskLane[l].until
                       /\ Risk!Rollover(d)[l].qty = riskLane[l].qty
  <2> TAKE l \in RiskLanes
  <2>1. CASE Risk!Rollover(d)[l] = riskLane[l]
    BY <1>1, <2>1
  <2>2. CASE Risk!Rollover(d)[l] = [riskLane[l] EXCEPT !.loss = 0, !.lossDate = d]
    <3> DEFINE r == [riskLane[l] EXCEPT !.loss = 0, !.lossDate = d]
    <3>1. r \in LaneState /\ r.until = riskLane[l].until /\ r.qty = riskLane[l].qty
      BY <1>1, ResetLoss, Zenon
    <3> HIDE DEF r
    <3>2. Risk!Rollover(d)[l] = r
      BY <2>2 DEF r
    <3> QED  BY <3>1, <3>2, Zenon
  <2> QED  BY <1>2, <2>1, <2>2, Zenon
<1>4. Risk!Rollover(d) = [l \in RiskLanes |-> Risk!Rollover(d)[l]]
  BY DEF Risk!Rollover
<1> QED  BY <1>3, <1>4

\* An entry the policy allows comes after the lane's cooldown.
LEMMA AllowedEntryIsAfterCooldown ==
    ASSUME NEW ls, NEW l \in RiskLanes, NEW ts \in Int, NEW intent \in Risk!Entries, NEW sized,
           NEW stale \in BOOLEAN, ls[l].until \in Int,
           sized \in {"some", "zero"} \union Risk!LedgerOutcomes,
           Risk!RiskDecision(ls, l, ts, intent, sized, stale) = "allow"
    PROVE  ts >= ls[l].until
  BY DEF Risk!RiskDecision, Risk!LedgerOutcomes

\* A loss is a natural number.
LEMMA LossIsNatural ==
    ASSUME NEW s \in LaneState, NEW sold \in 1 .. s.qty, NEW bad \in BOOLEAN
    PROVE  Risk!LossOf(s, sold, bad) \in Nat
  BY DEF Risk!LossOf, Risk!FullLoss, LaneState

LEMMA DatesAreIntegers ==
    ASSUME Risk!TimeOK, NEW ts \in Int PROVE Risk!Date(ts) \in Int
  BY DEF Risk!TimeOK, Risk!Date

\* What a cycle does to the cooldowns, whatever it decides.
LEMMA CyclePreserves ==
    ASSUME Risk!TimeOK, AgesOK, CooldownInv, NEW l \in RiskLanes, NEW ts \in Int,
           clock - BarAge[l] <= ts, ts <= clock, Risk!Cycle(l, ts)
    PROVE  CooldownInv'
<1> DEFINE d == Risk!Date(ts)
           ls == Risk!Rollover(d)
           Until(t) == [ls[l] EXCEPT !.until = t]
           latest == IF rejectedAt[l] < ts THEN ts ELSE rejectedAt[l]
<1>1. \/ /\ Risk!Buy(ls, l) \/ Risk!Sell(ls, l, d)
         /\ rejectedAt' = [rejectedAt EXCEPT ![l] = -1]
      \/ /\ riskLane' = [ls EXCEPT ![l].until = ts + CooldownMs]
         /\ rejectedAt' = [rejectedAt EXCEPT ![l] = IF @ < ts THEN ts ELSE @]
      \/ riskLane' = ls /\ rejectedAt' = rejectedAt
  BY ZenonT(30) DEF Risk!Cycle
<1>2. clock' \in Nat /\ clock' = clock
  BY Zenon DEF Risk!Cycle, CooldownInv
<1>3. d \in Int
  BY DatesAreIntegers
<1>4. /\ ls \in [RiskLanes -> LaneState]
      /\ \A x \in RiskLanes : ls[x].until = riskLane[x].until
  BY <1>3, RolloverKeepsTheRest DEF CooldownInv
<1>5. ls[l] \in LaneState
  BY <1>4
<1> HIDE DEF d, ls
<1>6. ASSUME NEW s \in LaneState, riskLane' = [ls EXCEPT ![l] = s],
             NEW t \in Int, rejectedAt' = [rejectedAt EXCEPT ![l] = t], t <= clock,
             t # -1 => s.until >= t + CooldownMs - BarAge[l]
      PROVE  CooldownInv'
  <2>1. riskLane' \in [RiskLanes -> LaneState] /\ rejectedAt' \in [RiskLanes -> Int]
    BY <1>4, <1>6 DEF CooldownInv
  <2>2. riskLane'[l] = s /\ rejectedAt'[l] = t
    BY <1>4, <1>6 DEF CooldownInv
  <2>3. \A x \in RiskLanes \ {l} : riskLane'[x] = ls[x] /\ rejectedAt'[x] = rejectedAt[x]
    BY <1>4, <1>6 DEF CooldownInv
  <2>4. \A x \in RiskLanes \ {l} :
            /\ rejectedAt'[x] <= clock
            /\ rejectedAt'[x] # -1 => riskLane'[x].until >= rejectedAt'[x] + CooldownMs - BarAge[x]
    BY <1>4, <2>3 DEF CooldownInv
  <2> QED  BY <1>2, <1>6, <2>1, <2>2, <2>4 DEF CooldownInv
<1>7. CASE Risk!Buy(ls, l) /\ rejectedAt' = [rejectedAt EXCEPT ![l] = -1]
  <2>1. riskLane' = [ls EXCEPT ![l] = [ls[l] EXCEPT !.qty = @ + 1, !.until = 0]]
    BY <1>7 DEF Risk!Buy, Risk!Filled
  <2>2. -1 \in Int /\ -1 <= clock
    BY DEF CooldownInv
  <2> QED  BY <1>5, <1>6, <1>7, <2>1, <2>2, Bought, Zenon
<1>8. CASE Risk!Sell(ls, l, d) /\ rejectedAt' = [rejectedAt EXCEPT ![l] = -1]
  <2>1. PICK sold \in 1 .. ls[l].qty, bad \in BOOLEAN :
          riskLane' = [ls EXCEPT ![l] = [ls[l] EXCEPT !.qty = @ - sold,
                                        !.loss = @ + Risk!LossOf(ls[l], sold, bad), !.until = 0]]
    BY <1>8, Zenon DEF Risk!Sell, Risk!Filled
  <2>2. Risk!LossOf(ls[l], sold, bad) \in Nat
    BY <1>5, LossIsNatural
  <2>3. [ls[l] EXCEPT !.qty = @ - sold, !.loss = @ + Risk!LossOf(ls[l], sold, bad), !.until = 0]
            \in LaneState
    BY <1>5, <2>2, Sold, Zenon
  <2>4. -1 \in Int /\ -1 <= clock
    BY DEF CooldownInv
  <2> QED  BY <1>6, <1>8, <2>1, <2>3, <2>4, Zenon
<1>9. CASE /\ riskLane' = [ls EXCEPT ![l].until = ts + CooldownMs]
           /\ rejectedAt' = [rejectedAt EXCEPT ![l] = IF @ < ts THEN ts ELSE @]
  <2>1. riskLane' = [ls EXCEPT ![l] = Until(ts + CooldownMs)]
    BY <1>9
  <2>2. ts + CooldownMs \in Int
    BY DEF Risk!TimeOK
  <2>3. Until(ts + CooldownMs) \in LaneState /\ Until(ts + CooldownMs).until = ts + CooldownMs
    BY <1>5, <2>2, SetUntil
  <2>4. rejectedAt' = [rejectedAt EXCEPT ![l] = latest]
    BY <1>9 DEF CooldownInv
  <2>5. /\ latest \in Int /\ latest <= clock
        /\ ts + CooldownMs >= latest + CooldownMs - BarAge[l]
    BY DEF CooldownInv, AgesOK, Risk!TimeOK
  <2> HIDE DEF Until, latest
  <2>6. Until(ts + CooldownMs).until >= latest + CooldownMs - BarAge[l]
    BY <2>3, <2>5
  <2> QED  BY <1>6, <2>1, <2>3, <2>4, <2>5, <2>6, Zenon
<1>10. CASE riskLane' = ls /\ rejectedAt' = rejectedAt
  BY <1>2, <1>4, <1>10 DEF CooldownInv
<1> QED  BY <1>1, <1>7, <1>8, <1>9, <1>10

\* The trigger of a cycle bears a time of the clock, at most the age of the bar ago.
LEMMA TriggersAreRecent ==
    ASSUME AgesOK, CooldownInv, NEW l \in RiskLanes,
           NEW ts \in Risk!Max({0, clock - BarAge[l]}) .. clock
    PROVE  ts \in Int /\ clock - BarAge[l] <= ts /\ ts <= clock
<1> DEFINE n == clock - BarAge[l]
<1>1. n \in Int
  BY DEF AgesOK, CooldownInv
<1> HIDE DEF n
<1>2. \E x \in {0, n} : \A y \in {0, n} : x >= y
  <2>1. CASE n >= 0
    BY <1>1, <2>1
  <2>2. CASE ~(n >= 0)
    BY <1>1, <2>2
  <2> QED  BY <2>1, <2>2
<1>3. Risk!Max({0, n}) \in {0, n} /\ \A y \in {0, n} : Risk!Max({0, n}) >= y
  BY <1>2 DEF Risk!Max
<1>4. Risk!Max({0, n}) \in Int /\ Risk!Max({0, n}) >= n
  BY <1>1, <1>3
<1>5. ts \in Int /\ Risk!Max({0, n}) <= ts /\ ts <= clock
  BY DEF n
<1>6. n <= ts
  BY <1>1, <1>4, <1>5
<1> QED  BY <1>5, <1>6 DEF n

\* The invariant holds at first and every step keeps it.
LEMMA InitCooldown == Risk!Init => CooldownInv
  BY DEF Risk!Init, CooldownInv, Risk!NewLane, Risk!NoDate, LaneState

LEMMA NextCooldown ==
    Risk!TimeOK /\ AgesOK /\ CooldownInv /\ [Risk!Next]_Risk!vars => CooldownInv'
<1> SUFFICES ASSUME Risk!TimeOK, AgesOK, CooldownInv, [Risk!Next]_Risk!vars
             PROVE  CooldownInv'
  OBVIOUS
<1>1. CASE \E l \in RiskLanes :
                \E ts \in Risk!Max({0, clock - BarAge[l]}) .. clock : Risk!Cycle(l, ts)
  BY <1>1, TriggersAreRecent, CyclePreserves
<1>2. CASE Risk!Tick
  BY <1>2 DEF Risk!Tick, CooldownInv
<1>3. CASE Risk!Restart
  <2>1. riskLane' \in [RiskLanes -> LaneState]
    <3>1. \A l \in RiskLanes : Risk!NewLane(riskLane[l].qty) \in LaneState
      BY DEF Risk!NewLane, Risk!NoDate, LaneState, CooldownInv
    <3> QED  BY <1>3, <3>1 DEF Risk!Restart
  <2>2. rejectedAt' = [l \in RiskLanes |-> -1] /\ clock' = clock
    BY <1>3 DEF Risk!Restart
  <2> QED  BY <2>1, <2>2 DEF CooldownInv
<1>4. CASE UNCHANGED Risk!vars
  BY <1>4 DEF Risk!vars, CooldownInv
<1> QED  BY <1>1, <1>2, <1>3, <1>4 DEF Risk!Next

(***************************************************************************)
(* However late its bars, a lane's cooldown_until_ms is never less than    *)
(* the latest rejection since its last allowed order and the cooldown, but *)
(* for the age of a bar: the clock the triggers follow only goes forward.  *)
(***************************************************************************)
THEOREM CooldownInvariant == Risk!TimeOK /\ AgesOK => (Risk!Spec => []CooldownInv)
<1> SUFFICES ASSUME Risk!TimeOK, AgesOK PROVE Risk!Spec => []CooldownInv
  OBVIOUS
<1>1. CooldownInv /\ [Risk!Next]_Risk!vars => CooldownInv'
  BY NextCooldown
<1> QED  BY <1>1, InitCooldown, PTL DEF Risk!Spec

\* A cycle that enters found the lane's cooldown over.
LEMMA CycleServesCooldown ==
    ASSUME Risk!TimeOK, AgesOK, CooldownInv, NEW l \in RiskLanes, NEW ts \in Int,
           Risk!Cycle(l, ts), Risk!Entered'
    PROVE  \/ rejectedAt[verdict'.lane] = -1
           \/ verdict'.ts >= rejectedAt[verdict'.lane] + CooldownMs - BarAge[verdict'.lane]
<1> DEFINE ls == Risk!Rollover(Risk!Date(ts))
<1>1. PICK intent \in Risk!Intents,
           sized \in {"some", "zero"} \union Risk!LedgerOutcomes, stale \in BOOLEAN :
        verdict' = [kind |-> Risk!RiskDecision(ls, l, ts, intent, sized, stale),
                    lane |-> l, intent |-> intent, ts |-> ts]
  BY ZenonT(30) DEF Risk!Cycle
<1>2. /\ Risk!RiskDecision(ls, l, ts, intent, sized, stale) = "allow"
      /\ intent \in Risk!Entries
      /\ verdict'.lane = l /\ verdict'.ts = ts
  BY <1>1 DEF Risk!Entered
<1>3. Risk!Date(ts) \in Int
  BY DatesAreIntegers
<1>4. ls[l].until = riskLane[l].until /\ ls[l] \in LaneState
  BY <1>3, RolloverKeepsTheRest DEF CooldownInv
<1> HIDE DEF ls
<1>5. ls[l].until \in Int
  BY <1>4 DEF LaneState
<1>6. ts >= ls[l].until
  BY <1>2, <1>5, AllowedEntryIsAfterCooldown
<1>7. rejectedAt[l] # -1 => riskLane[l].until >= rejectedAt[l] + CooldownMs - BarAge[l]
  BY DEF CooldownInv
<1>8. rejectedAt[l] \in Int /\ CooldownMs \in Int /\ BarAge[l] \in Int
  BY DEF CooldownInv, AgesOK, Risk!TimeOK
<1>9. rejectedAt[l] # -1 => ts >= rejectedAt[l] + CooldownMs - BarAge[l]
  BY <1>4, <1>5, <1>6, <1>7, <1>8
<1> QED  BY <1>2, <1>9

(***************************************************************************)
(* A lane whose order was refused enters nothing for the cooldown after    *)
(* the latest of its rejections, less the age its bars can have, unless an *)
(* order of its own was allowed since or the process began again           *)
(* (cooldown_until_ms in run_lane_cycle).                                  *)
(***************************************************************************)
THEOREM CooldownServed == Risk!TimeOK /\ AgesOK => (Risk!Spec => Risk!CooldownIsServed)
<1> SUFFICES ASSUME Risk!TimeOK, AgesOK PROVE Risk!Spec => Risk!CooldownIsServed
  OBVIOUS
<1> DEFINE Waited ==
        LET l == verdict'.lane
        IN  rejectedAt[l] = -1 \/ verdict'.ts >= rejectedAt[l] + CooldownMs - BarAge[l]
<1>1. CooldownInv /\ [Risk!Next]_Risk!vars => [Risk!Entered' => Waited]_Risk!vars
  <2> SUFFICES ASSUME CooldownInv, Risk!Next, Risk!Entered'
               PROVE  Waited
    OBVIOUS
  <2>1. CASE \E l \in RiskLanes :
                  \E ts \in Risk!Max({0, clock - BarAge[l]}) .. clock : Risk!Cycle(l, ts)
    BY <2>1, TriggersAreRecent, CycleServesCooldown
  <2>2. CASE Risk!Tick \/ Risk!Restart
    BY <2>2 DEF Risk!Tick, Risk!Restart, Risk!Entered, Risk!NoVerdict
  <2> QED  BY <2>1, <2>2, Zenon DEF Risk!Next
<1>2. Risk!Spec => []CooldownInv
  BY CooldownInvariant
<1> QED  BY <1>1, <1>2, PTL DEF Risk!Spec, Risk!CooldownIsServed

\* The sum of the instance is the sum the lemmas above are about.
LEMMA SumOfInstance ==
    ASSUME NEW f, NEW S PROVE Risk!SumFunctionOnSet(f, S) = SumFunctionOnSet(f, S)
  BY DEF SumFunctionOnSet, FoldFunctionOnSet, MapThenFoldSet,
         Risk!SumFunctionOnSet, Risk!FoldFunctionOnSet, Risk!MapThenFoldSet

\* Dates follow the clock.
LEMMA DatesAreMonotone ==
    ASSUME Risk!TimeOK, NEW s \in Nat, NEW t \in Nat, s <= t
    PROVE  Risk!Date(s) \in Nat /\ Risk!Date(s) <= Risk!Date(t)
<1> DEFINE p == s \div DayLength
           q == t \div DayLength
<1>1. DayLength \in Nat /\ DayLength > 0
  BY DEF Risk!TimeOK
<1>2. /\ p \in Nat /\ q \in Nat
      /\ DayLength * p <= s /\ t < DayLength * q + DayLength
  BY <1>1
<1>3. ASSUME q < p PROVE FALSE
  <2> HIDE DEF p, q
  <2>1. p >= q + 1
    BY <1>2, <1>3
  <2>2. DayLength * p >= DayLength * (q + 1)
    BY <1>1, <1>2, <2>1
  <2>3. DayLength * (q + 1) = DayLength * q + DayLength
    BY <1>1, <1>2
  <2>4. DayLength * p \in Int /\ DayLength * q \in Int
    BY <1>1, <1>2
  <2> QED  BY <1>1, <1>2, <2>2, <2>3, <2>4
<1> QED  BY <1>2, <1>3 DEF Risk!Date

\* ms is ls, as far as losses go, with n more lost by lane l.
AddsLoss(ls, ms, l, n) ==
    ms[l].loss = ls[l].loss + n /\ \A x \in RiskLanes \ {l} : ms[x].loss = ls[x].loss

\* From ls to ms, the account of lane l lost n more and no other account lost anything.
AccountLosesMore(ls, ms, l, n) ==
    \A m \in RiskLanes :
        /\ Risk!AccountLoss(ls, m) \in Int
        /\ AccountOf[m] = AccountOf[l] => Risk!AccountLoss(ms, m) = Risk!AccountLoss(ls, m) + n
        /\ AccountOf[m] # AccountOf[l] => Risk!AccountLoss(ms, m) = Risk!AccountLoss(ls, m)

\* One lane's new loss is a new loss of its account and of no other.
LEMMA AccountLossAfter ==
    ASSUME IsFiniteSet(RiskLanes), NEW ls \in [RiskLanes -> LaneState],
           NEW ms \in [RiskLanes -> LaneState], NEW l \in RiskLanes, NEW n \in Nat,
           AddsLoss(ls, ms, l, n)
    PROVE  AccountLosesMore(ls, ms, l, n)
<1> SUFFICES ASSUME NEW m \in RiskLanes
             PROVE  /\ Risk!AccountLoss(ls, m) \in Int
                    /\ AccountOf[m] = AccountOf[l] =>
                          Risk!AccountLoss(ms, m) = Risk!AccountLoss(ls, m) + n
                    /\ AccountOf[m] # AccountOf[l] =>
                          Risk!AccountLoss(ms, m) = Risk!AccountLoss(ls, m)
  BY Zenon DEF AccountLosesMore
<1> DEFINE f == [x \in RiskLanes |-> ls[x].loss]
           g == [x \in RiskLanes |-> ms[x].loss]
           S == {x \in RiskLanes : AccountOf[x] = AccountOf[m]}
<1>1. IsFiniteSet(S) /\ S \subseteq RiskLanes
  BY FS_Subset
<1>2. \A x \in RiskLanes : ls[x].loss \in Nat
  BY DEF LaneState
<1>3. f \in [RiskLanes -> Int] /\ \A x \in S : f[x] \in Int
  BY <1>2
<1>4. g = [f EXCEPT ![l] = f[l] + n]
  BY Zenon DEF AddsLoss
<1>5. \A x \in RiskLanes : x # l => f[x] = g[x]
  BY DEF AddsLoss
<1>6. l \in S <=> AccountOf[m] = AccountOf[l]
  OBVIOUS
<1>7. Risk!AccountLoss(ls, m) = SumFunctionOnSet(f, S)
      /\ Risk!AccountLoss(ms, m) = SumFunctionOnSet(g, S)
  BY SumOfInstance, Zenon DEF Risk!AccountLoss
<1> HIDE DEF f, g, S
<1>8. SumFunctionOnSet(f, S) \in Int
  BY <1>1, <1>3, SumIsInt
<1>9. CASE l \in S
  <2>1. n \in Int
    OBVIOUS
  <2>2. SumFunctionOnSet(g, S) = SumFunctionOnSet(f, S) + n
    BY <1>1, <1>3, <1>4, <1>9, <2>1, SumOfRaised, Zenon
  <2> QED  BY <1>6, <1>7, <1>8, <1>9, <2>2
<1>10. CASE l \notin S
  <2>1. \A x \in S : f[x] = g[x]
    BY <1>1, <1>5, <1>10
  <2>2. SumFunctionOnSet(g, S) = SumFunctionOnSet(f, S)
    BY <1>1, <2>1, SumOfSame, Zenon
  <2> QED  BY <1>6, <1>7, <1>8, <1>10, <2>2
<1> QED  BY <1>9, <1>10

\* On a new date an account has lost nothing yet; on the same one nothing changes.
LEMMA RolloverOfLosses ==
    ASSUME IsFiniteSet(RiskLanes), riskLane \in [RiskLanes -> LaneState], NEW d \in Int,
           \A x, y \in RiskLanes : riskLane[x].lossDate = riskLane[y].lossDate, NEW m \in RiskLanes
    PROVE  /\ Risk!Rollover(d) \in [RiskLanes -> LaneState]
           /\ Risk!Rollover(d)[m].lossDate = d
           /\ Risk!AccountLoss(Risk!Rollover(d), m) =
                  IF riskLane[m].lossDate = d THEN Risk!AccountLoss(riskLane, m) ELSE 0
<1> DEFINE ls == Risk!Rollover(d)
<1>1. ls \in [RiskLanes -> LaneState]
  BY RolloverKeepsTheRest
<1>2. \A x \in RiskLanes : ls[x] = IF riskLane[x].lossDate = d THEN riskLane[x]
                                   ELSE [riskLane[x] EXCEPT !.loss = 0, !.lossDate = d]
  BY Zenon DEF Risk!Rollover
<1>3. \A x \in RiskLanes :
        /\ [riskLane[x] EXCEPT !.loss = 0, !.lossDate = d].loss = 0
        /\ [riskLane[x] EXCEPT !.loss = 0, !.lossDate = d].lossDate = d
  BY DEF LaneState
<1> HIDE DEF ls
<1>4. ls[m].lossDate = d
  BY <1>2, <1>3, Zenon
<1>5. CASE riskLane[m].lossDate = d
  <2>1. \A x \in RiskLanes : ls[x] = riskLane[x]
    BY <1>2, <1>5, Zenon
  <2>2. ls = riskLane
    BY <1>1, <2>1
  <2> QED  BY <1>1, <1>4, <1>5, <2>2, Zenon DEF ls
<1>6. CASE riskLane[m].lossDate # d
  <2> DEFINE f == [x \in RiskLanes |-> ls[x].loss]
             S == {x \in RiskLanes : AccountOf[x] = AccountOf[m]}
  <2>1. \A x \in RiskLanes : ls[x].loss = 0
    BY <1>2, <1>3, <1>6, Zenon
  <2>2. IsFiniteSet(S)
    BY FS_Subset
  <2>3. \A x \in S : f[x] = 0
    BY <2>1
  <2>4. Risk!AccountLoss(ls, m) = SumFunctionOnSet(f, S)
    BY SumOfInstance, Zenon DEF Risk!AccountLoss
  <2> HIDE DEF f, S
  <2>5. SumFunctionOnSet(f, S) = 0
    BY <2>2, <2>3, SumOfZeros
  <2> QED  BY <1>1, <1>4, <1>6, <2>4, <2>5, Zenon DEF ls
<1> QED  BY <1>5, <1>6

(***************************************************************************)
(* Strengthens RefusalIsJust: all lanes are at one date, and what they     *)
(* count as the account's loss of that date was lost on it.                *)
(***************************************************************************)
LossInv ==
    /\ clock \in 0 .. MaxTime
    /\ riskLane \in [RiskLanes -> LaneState]
    /\ realised \in [Risk!Accounts -> [Risk!Dates -> Nat]]
    /\ \A x, y \in RiskLanes : riskLane[x].lossDate = riskLane[y].lossDate
    /\ \A l \in RiskLanes, d \in Risk!Dates :
          riskLane[l].lossDate = d => Risk!AccountLoss(riskLane, l) <= realised[AccountOf[l]][d]
    /\ Risk!RefusalIsJust

\* What a cycle does to the losses: all lanes are brought to the date of the bar, and
\* at most the cycle's lane, and its account, lose something on it.
LossStep(l, ts, n) ==
    LET d == Risk!Date(ts)
        ls == Risk!Rollover(d)
    IN  /\ riskLane' \in [RiskLanes -> LaneState]
        /\ \A x \in RiskLanes : riskLane'[x].lossDate = ls[x].lossDate
        /\ AddsLoss(ls, riskLane', l, n)
        /\ realised' \in [Risk!Accounts -> [Risk!Dates -> Nat]]
        /\ \A a \in Risk!Accounts, e \in Risk!Dates :
              realised'[a][e] = IF a = AccountOf[l] /\ e = d THEN realised[a][e] + n
                                ELSE realised[a][e]
        /\ verdict'.kind = "daily loss" \/ Risk!Entered' =>
              n = 0 /\ verdict'.lane = l /\ verdict'.ts = ts
        /\ verdict'.kind = "daily loss" => Risk!LossLimitReached(ls, l)
        /\ Risk!Entered' => ~Risk!LossLimitReached(ls, l)
        /\ clock' = clock /\ riskRestarts' = riskRestarts

\* What losses have to do with a decision: only an entry is refused for them, when the
\* limit is reached, and none is allowed then.
LEMMA DecisionOfLosses ==
    ASSUME NEW ls, NEW l \in RiskLanes, NEW ts, NEW intent \in Risk!Intents, NEW stale,
           NEW sized \in {"some", "zero"} \union Risk!LedgerOutcomes
    PROVE  LET decision == Risk!RiskDecision(ls, l, ts, intent, sized, stale)
           IN  /\ decision = "daily loss" => Risk!LossLimitReached(ls, l)
               /\ decision = "allow" /\ intent \in Risk!Entries => ~Risk!LossLimitReached(ls, l)
<1> HIDE DEF Risk!LossLimitReached
<1>1. CASE sized \in Risk!LedgerOutcomes
  BY <1>1, Zenon DEF Risk!RiskDecision, Risk!LedgerOutcomes, Risk!Entries
<1>2. CASE sized = "zero"
  BY <1>2, Zenon DEF Risk!RiskDecision, Risk!Entries
<1>3. CASE sized = "some"
  BY <1>3, Zenon DEF Risk!RiskDecision, Risk!Entries, Risk!Intents
<1> QED  BY <1>1, <1>2, <1>3, Zenon

\* A purchase and a rejection leave the losses alone.
LEMMA KeptLosses ==
    ASSUME NEW s \in LaneState, NEW t \in Int
    PROVE  /\ [s EXCEPT !.qty = @ + 1, !.until = 0] \in LaneState
           /\ [s EXCEPT !.qty = @ + 1, !.until = 0].loss = s.loss
           /\ [s EXCEPT !.qty = @ + 1, !.until = 0].lossDate = s.lossDate
           /\ [s EXCEPT !.until = t] \in LaneState
           /\ [s EXCEPT !.until = t].loss = s.loss
           /\ [s EXCEPT !.until = t].lossDate = s.lossDate
<1>1. [s EXCEPT !.qty = @ + 1, !.until = 0] \in LaneState /\ [s EXCEPT !.until = t] \in LaneState
  BY Bought, SetUntil, Zenon
<1>2. /\ [s EXCEPT !.qty = @ + 1, !.until = 0].loss = s.loss
      /\ [s EXCEPT !.qty = @ + 1, !.until = 0].lossDate = s.lossDate
  BY DEF LaneState
<1>3. [s EXCEPT !.until = t].loss = s.loss /\ [s EXCEPT !.until = t].lossDate = s.lossDate
  BY DEF LaneState
<1> QED  BY <1>1, <1>2, <1>3

LEMMA CycleIsLossStep ==
    ASSUME Risk!TimeOK, LossInv, NEW l \in RiskLanes, NEW ts \in 0 .. clock, Risk!Cycle(l, ts)
    PROVE  \E n \in Nat : LossStep(l, ts, n)
<1> DEFINE d == Risk!Date(ts)
           ls == Risk!Rollover(d)
           Says(intent, sized, stale) == Risk!RiskDecision(ls, l, ts, intent, sized, stale)
<1>1. PICK intent \in Risk!Intents,
           sized \in {"some", "zero"} \union Risk!LedgerOutcomes, stale \in BOOLEAN :
        /\ verdict' = [kind |-> Says(intent, sized, stale), lane |-> l, intent |-> intent,
                       ts |-> ts]
        /\ \/ /\ Says(intent, sized, stale) = "allow"
              /\ IF intent \in Risk!Entries THEN Risk!Buy(ls, l) ELSE Risk!Sell(ls, l, d)
           \/ /\ riskLane' = [ls EXCEPT ![l].until = ts + CooldownMs]
              /\ realised' = realised
           \/ riskLane' = ls /\ realised' = realised
        /\ clock' = clock /\ riskRestarts' = riskRestarts
  BY ZenonT(60) DEF Risk!Cycle
<1> DEFINE decision == Says(intent, sized, stale)
<1>2. /\ decision = "daily loss" => Risk!LossLimitReached(ls, l)
      /\ decision = "allow" /\ intent \in Risk!Entries => ~Risk!LossLimitReached(ls, l)
  BY DecisionOfLosses, Zenon
<1>3. d \in Int /\ d \in Risk!Dates
  <2>1. ts \in Nat /\ MaxTime \in Nat /\ ts <= MaxTime
    BY DEF LossInv, Risk!TimeOK
  <2> QED  BY <2>1, DatesAreMonotone DEF Risk!Dates
<1>4. /\ ls \in [RiskLanes -> LaneState] /\ ls[l] \in LaneState
  BY <1>3, RolloverKeepsTheRest DEF LossInv
<1>5. AccountOf[l] \in Risk!Accounts
  BY DEF Risk!Accounts
<1>6. /\ verdict'.kind = decision /\ verdict'.lane = l /\ verdict'.ts = ts
      /\ Risk!Entered' <=> decision = "allow" /\ intent \in Risk!Entries
  BY <1>1 DEF Risk!Entered
<1> HIDE DEF d, ls, Says, decision
<1> DEFINE OnLanes(n) ==
              /\ riskLane' \in [RiskLanes -> LaneState]
              /\ \A x \in RiskLanes : riskLane'[x].lossDate = ls[x].lossDate
              /\ AddsLoss(ls, riskLane', l, n)
           OnBooks(n) ==
              /\ realised' \in [Risk!Accounts -> [Risk!Dates -> Nat]]
              /\ \A a \in Risk!Accounts, e \in Risk!Dates :
                    realised'[a][e] = IF a = AccountOf[l] /\ e = d THEN realised[a][e] + n
                                      ELSE realised[a][e]
<1>7. ASSUME NEW n \in Nat, OnLanes(n), OnBooks(n),
             decision = "daily loss" \/ (decision = "allow" /\ intent \in Risk!Entries) => n = 0
      PROVE  LossStep(l, ts, n)
  BY <1>1, <1>2, <1>6, <1>7, Zenon DEF LossStep, d, ls
<1>8. ASSUME NEW s \in LaneState, NEW n \in Nat, s.lossDate = ls[l].lossDate,
             s.loss = ls[l].loss + n, riskLane' = [ls EXCEPT ![l] = s]
      PROVE  OnLanes(n)
  <2>1. riskLane' \in [RiskLanes -> LaneState] /\ riskLane'[l] = s
    BY <1>4, <1>8
  <2>2. \A x \in RiskLanes : x # l => riskLane'[x] = ls[x]
    BY <1>4, <1>8
  <2> QED  BY <1>8, <2>1, <2>2 DEF AddsLoss
<1>9. ASSUME realised' = realised PROVE OnBooks(0)
  <2>1. \A a \in Risk!Accounts, e \in Risk!Dates : realised[a][e] \in Nat
    BY DEF LossInv
  <2> QED  BY <1>9, <2>1 DEF LossInv
<1>10. \A k \in Nat : k + 0 = k
  OBVIOUS
<1>11. ls[l].loss \in Nat
  BY <1>4 DEF LaneState
<1>12. CASE decision = "allow" /\ intent \in Risk!Entries /\ Risk!Buy(ls, l)
  <2>1. /\ riskLane' = [ls EXCEPT ![l] = [ls[l] EXCEPT !.qty = @ + 1, !.until = 0]]
        /\ realised' = realised
    BY <1>12 DEF Risk!Buy, Risk!Filled
  <2>2. 0 \in Nat /\ 0 \in Int
    OBVIOUS
  <2>3. OnLanes(0)
    <3> HIDE DEF OnLanes
    <3> QED  BY <1>4, <1>8, <1>10, <1>11, <2>1, <2>2, KeptLosses, Zenon
  <2>4. OnBooks(0)
    BY <1>9, <2>1
  <2> HIDE DEF OnLanes, OnBooks
  <2> QED  BY <1>7, <2>2, <2>3, <2>4, Zenon
<1>13. CASE decision = "allow" /\ intent \notin Risk!Entries /\ Risk!Sell(ls, l, d)
  <2>1. PICK sold \in 1 .. ls[l].qty, bad \in BOOLEAN :
          /\ riskLane' = [ls EXCEPT ![l] = [ls[l] EXCEPT !.qty = @ - sold,
                                        !.loss = @ + Risk!LossOf(ls[l], sold, bad), !.until = 0]]
          /\ realised' = [realised EXCEPT ![AccountOf[l]][d] = @ + Risk!LossOf(ls[l], sold, bad)]
    BY <1>13, Zenon DEF Risk!Sell, Risk!Filled
  <2> DEFINE n == Risk!LossOf(ls[l], sold, bad)
  <2>2. n \in Nat
    BY <1>4, LossIsNatural
  <2> HIDE DEF n
  <2>3. /\ riskLane' =
              [ls EXCEPT ![l] = [ls[l] EXCEPT !.qty = @ - sold, !.loss = @ + n, !.until = 0]]
        /\ realised' = [realised EXCEPT ![AccountOf[l]][d] = @ + n]
    BY <2>1, Zenon DEF n
  <2>4. OnLanes(n)
    <3> DEFINE s == [ls[l] EXCEPT !.qty = @ - sold, !.loss = @ + n, !.until = 0]
    <3>1. s \in LaneState /\ s.loss = ls[l].loss + n /\ s.lossDate = ls[l].lossDate
      <4>1. s \in LaneState
        BY <1>4, <2>2, Sold, Zenon
      <4>2. s.loss = ls[l].loss + n /\ s.lossDate = ls[l].lossDate
        BY <1>4 DEF LaneState
      <4> QED  BY <4>1, <4>2
    <3>2. riskLane' = [ls EXCEPT ![l] = s]
      BY <2>3, Zenon
    <3> HIDE DEF s, OnLanes
    <3> QED  BY <1>8, <2>2, <3>1, <3>2, Zenon
  <2>5. OnBooks(n)
    <3>1. realised[AccountOf[l]] \in [Risk!Dates -> Nat] /\ realised[AccountOf[l]][d] \in Nat
      BY <1>3, <1>5 DEF LossInv
    <3>2. realised' = [realised EXCEPT ![AccountOf[l]] =
                          [realised[AccountOf[l]] EXCEPT ![d] = realised[AccountOf[l]][d] + n]]
      BY <2>3
    <3>3. \A a \in Risk!Accounts, e \in Risk!Dates : realised[a][e] \in Nat
      BY DEF LossInv
    <3>4. realised' \in [Risk!Accounts -> [Risk!Dates -> Nat]]
      BY <1>3, <1>5, <2>2, <3>1, <3>2, SMTT(30) DEF LossInv
    <3>5. \A a \in Risk!Accounts, e \in Risk!Dates :
            realised'[a][e] = IF a = AccountOf[l] /\ e = d THEN realised[a][e] + n
                              ELSE realised[a][e]
      BY <1>3, <1>5, <2>2, <3>1, <3>2, <3>3 DEF LossInv
    <3> QED  BY <3>4, <3>5
  <2>6. ~(decision = "daily loss" \/ (decision = "allow" /\ intent \in Risk!Entries))
    BY <1>13
  <2> HIDE DEF OnLanes, OnBooks
  <2> QED  BY <1>7, <2>2, <2>4, <2>5, <2>6, Zenon
<1>14. CASE riskLane' = [ls EXCEPT ![l].until = ts + CooldownMs] /\ realised' = realised
  <2>1. riskLane' = [ls EXCEPT ![l] = [ls[l] EXCEPT !.until = ts + CooldownMs]]
    BY <1>14
  <2>2. ts + CooldownMs \in Int /\ 0 \in Nat
    BY DEF Risk!TimeOK
  <2>3. OnLanes(0)
    <3> HIDE DEF OnLanes
    <3> QED  BY <1>4, <1>8, <1>10, <1>11, <2>1, <2>2, KeptLosses, Zenon
  <2>4. OnBooks(0)
    BY <1>9, <1>14
  <2> HIDE DEF OnLanes, OnBooks
  <2> QED  BY <1>7, <2>2, <2>3, <2>4, Zenon
<1>15. CASE riskLane' = ls /\ realised' = realised
  <2>1. riskLane' = [ls EXCEPT ![l] = ls[l]] /\ 0 \in Nat
    BY <1>4, <1>15
  <2>2. OnLanes(0)
    <3> HIDE DEF OnLanes
    <3> QED  BY <1>4, <1>8, <1>10, <1>11, <2>1, Zenon
  <2>3. OnBooks(0)
    BY <1>9, <1>15
  <2> HIDE DEF OnLanes, OnBooks
  <2> QED  BY <1>7, <2>1, <2>2, <2>3, Zenon
<1> QED
  BY <1>1, <1>12, <1>13, <1>14, <1>15, Zenon DEF decision

\* A loss step keeps what the lanes count within what the account lost.
LEMMA LossStepKeeps ==
    ASSUME Risk!TimeOK, Risk!LimitsOK, LossInv, NEW l \in RiskLanes, NEW ts \in 0 .. clock,
           NEW n \in Nat, LossStep(l, ts, n)
    PROVE  LossInv'
<1> DEFINE d == Risk!Date(ts)
           ls == Risk!Rollover(d)
           Lost(m) == Risk!AccountLoss(ls, m)
           LostAfter(m) == Risk!AccountLoss(riskLane', m)
<1>1. d \in Int /\ d \in Risk!Dates
  <2>1. ts \in Nat /\ MaxTime \in Nat /\ ts <= MaxTime
    BY DEF LossInv, Risk!TimeOK
  <2> QED  BY <2>1, DatesAreMonotone DEF Risk!Dates
<1>2. IsFiniteSet(RiskLanes) /\ DailyLimit[l] \in Nat
  BY Zenon DEF Risk!LimitsOK, Risk!IsFiniteSet, IsFiniteSet
<1>3. \A m \in RiskLanes : AccountOf[m] \in Risk!Accounts
  BY DEF Risk!Accounts
<1>4. ASSUME NEW m \in RiskLanes
      PROVE  /\ ls \in [RiskLanes -> LaneState] /\ ls[m].lossDate = d
             /\ Lost(m) = IF riskLane[m].lossDate = d THEN Risk!AccountLoss(riskLane, m) ELSE 0
  BY <1>1, <1>2, RolloverOfLosses DEF LossInv
<1>5. /\ riskLane' \in [RiskLanes -> LaneState]
      /\ \A x \in RiskLanes : riskLane'[x].lossDate = ls[x].lossDate
      /\ AddsLoss(ls, riskLane', l, n)
      /\ realised' \in [Risk!Accounts -> [Risk!Dates -> Nat]]
      /\ \A a \in Risk!Accounts, e \in Risk!Dates :
            realised'[a][e] = IF a = AccountOf[l] /\ e = d THEN realised[a][e] + n
                              ELSE realised[a][e]
      /\ clock' = clock
  BY Zenon DEF LossStep
<1>6. verdict'.kind = "daily loss" =>
          n = 0 /\ verdict'.lane = l /\ verdict'.ts = ts /\ Risk!LossLimitReached(ls, l)
  BY Zenon DEF LossStep
<1>7. ASSUME NEW m \in RiskLanes
      PROVE  /\ Lost(m) \in Int
             /\ AccountOf[m] = AccountOf[l] => LostAfter(m) = Lost(m) + n
             /\ AccountOf[m] # AccountOf[l] => LostAfter(m) = Lost(m)
  <2>1. ls \in [RiskLanes -> LaneState]
    BY <1>4
  <2> DEFINE ms == riskLane'
  <2>2. /\ ms \in [RiskLanes -> LaneState]
        /\ AddsLoss(ls, ms, l, n)
    BY <1>5, Zenon
  <2> HIDE DEF ls, ms
  <2>3. AccountLosesMore(ls, ms, l, n)
    BY <1>2, <2>1, <2>2, AccountLossAfter, Zenon
  <2> QED  BY <2>3, Zenon DEF ms, AccountLosesMore
<1> HIDE DEF d, ls, Lost, LostAfter
<1>8. ASSUME NEW m \in RiskLanes
      PROVE  /\ realised[AccountOf[m]][d] \in Nat
             /\ Lost(m) <= realised[AccountOf[m]][d]
  <2>1. realised[AccountOf[m]][d] \in Nat
    BY <1>1, <1>3 DEF LossInv
  <2>2. CASE riskLane[m].lossDate = d
    BY <1>1, <1>4, <2>1, <2>2, Zenon DEF LossInv
  <2>3. CASE riskLane[m].lossDate # d
    BY <1>4, <2>1, <2>3
  <2> QED  BY <2>1, <2>2, <2>3
<1>9. ASSUME NEW m \in RiskLanes PROVE LostAfter(m) <= realised'[AccountOf[m]][d]
  <2>1. realised'[AccountOf[m]][d] = IF AccountOf[m] = AccountOf[l]
                                     THEN realised[AccountOf[m]][d] + n
                                     ELSE realised[AccountOf[m]][d]
    BY <1>1, <1>3, <1>5, Zenon
  <2>2. CASE AccountOf[m] = AccountOf[l]
    BY <1>7, <1>8, <2>1, <2>2
  <2>3. CASE AccountOf[m] # AccountOf[l]
    BY <1>7, <1>8, <2>1, <2>3
  <2> QED  BY <2>2, <2>3
<1>10. \A m \in RiskLanes : riskLane'[m].lossDate = d
  BY <1>4, <1>5, Zenon
<1>11. Risk!RefusalIsJust'
  <2>1. ASSUME Lost(l) >= DailyLimit[l], n = 0
        PROVE  realised'[AccountOf[l]][d] >= DailyLimit[l]
    <3>1. realised'[AccountOf[l]][d] = realised[AccountOf[l]][d] + n
      BY <1>1, <1>3, <1>5, Zenon
    <3>2. Lost(l) \in Int /\ realised[AccountOf[l]][d] \in Nat
      BY <1>7, <1>8, Zenon
    <3> QED  BY <1>2, <1>8, <2>1, <3>1, <3>2
  <2> QED  BY <1>6, <2>1, Zenon DEF Risk!RefusalIsJust, Risk!LossLimitReached, Lost, d
<1>12. \A m \in RiskLanes, e \in Risk!Dates :
          riskLane'[m].lossDate = e => Risk!AccountLoss(riskLane', m) <= realised'[AccountOf[m]][e]
  BY <1>9, <1>10, Zenon DEF LostAfter
<1>13. \A x, y \in RiskLanes : riskLane'[x].lossDate = riskLane'[y].lossDate
  BY <1>10, Zenon
<1>14. clock' \in 0 .. MaxTime
  BY <1>5 DEF LossInv
<1>15. (Risk!AccountLoss(riskLane, l))' = Risk!AccountLoss(riskLane', l)
  BY Zenon DEF Risk!AccountLoss
<1> QED
  BY <1>5, <1>11, <1>12, <1>13, <1>14, Zenon
     DEF LossInv, Risk!AccountLoss, Risk!Accounts, Risk!Dates, Risk!Date

\* The trigger of a cycle is not ahead of the clock.
LEMMA TriggersAreNotAhead ==
    ASSUME Risk!LimitsOK, LossInv, NEW l \in RiskLanes,
           NEW ts \in Risk!Max({0, clock - BarAge[l]}) .. clock
    PROVE  ts \in 0 .. clock /\ (BarAge[l] = 0 => ts = clock)
<1> DEFINE S == {0, clock - BarAge[l]}
           Greatest(x) == x \in S /\ \A y \in S : x >= y
<1>1. clock \in Nat /\ BarAge[l] \in Nat
  BY DEF LossInv, Risk!LimitsOK
<1>2. \E x : Greatest(x)
  <2>1. CASE clock - BarAge[l] >= 0
    <3>1. Greatest(clock - BarAge[l])
      BY <1>1, <2>1
    <3> QED  BY <3>1
  <2>2. CASE ~(clock - BarAge[l] >= 0)
    <3>1. Greatest(0)
      BY <1>1, <2>2
    <3> QED  BY <3>1
  <2> QED  BY <2>1, <2>2
<1>3. Greatest(Risk!Max(S))
  BY <1>2, Zenon DEF Risk!Max
<1>4. Risk!Max(S) \in Int /\ Risk!Max(S) >= 0 /\ Risk!Max(S) >= clock - BarAge[l]
  BY <1>1, <1>3
<1> HIDE DEF S
<1>5. ts \in Risk!Max(S) .. clock
  BY DEF S
<1> QED  BY <1>1, <1>4, <1>5

\* The losses are in order at first and after every step.
LEMMA InitLosses ==
    ASSUME Risk!TimeOK, Risk!Init PROVE LossInv
<1>1. riskLane \in [RiskLanes -> LaneState] /\ \A l \in RiskLanes : riskLane[l].lossDate = -1
  BY DEF Risk!Init, Risk!NewLane, Risk!NoDate, LaneState
<1>2. \A d \in Risk!Dates : d # -1
  BY DEF Risk!Dates
<1>3. clock \in 0 .. MaxTime
  BY DEF Risk!Init, Risk!TimeOK
<1>4. realised \in [Risk!Accounts -> [Risk!Dates -> Nat]]
  BY DEF Risk!Init
<1>5. Risk!RefusalIsJust
  BY DEF Risk!Init, Risk!NoVerdict, Risk!RefusalIsJust
<1> QED  BY <1>1, <1>2, <1>3, <1>4, <1>5, Zenon DEF LossInv

LEMMA NextLosses ==
    ASSUME Risk!TimeOK, Risk!LimitsOK, LossInv, [Risk!Next]_Risk!vars PROVE LossInv'
<1>1. CASE \E l \in RiskLanes : \E ts \in Risk!Max({0, clock - BarAge[l]}) .. clock :
              Risk!Cycle(l, ts)
  <2>1. PICK l \in RiskLanes : \E ts \in Risk!Max({0, clock - BarAge[l]}) .. clock :
              Risk!Cycle(l, ts)
    BY <1>1
  <2>2. PICK ts \in Risk!Max({0, clock - BarAge[l]}) .. clock : Risk!Cycle(l, ts)
    BY <2>1
  <2>3. ts \in 0 .. clock
    BY <2>2, TriggersAreNotAhead
  <2>4. PICK n \in Nat : LossStep(l, ts, n)
    BY <2>2, <2>3, CycleIsLossStep
  <2> QED  BY <2>3, <2>4, LossStepKeeps
<1>2. CASE Risk!Tick
  <2>1. clock' \in 0 .. MaxTime /\ UNCHANGED <<riskLane, realised>> /\ verdict' = Risk!NoVerdict
    BY <1>2 DEF Risk!Tick, LossInv, Risk!TimeOK
  <2>2. Risk!RefusalIsJust'
    BY <2>1 DEF Risk!NoVerdict, Risk!RefusalIsJust
  <2> QED  BY <2>1, <2>2, Zenon
              DEF LossInv, Risk!AccountLoss, Risk!Accounts, Risk!Dates, Risk!Date
<1>3. CASE Risk!Restart
  <2>1. /\ clock' = clock /\ realised' = realised /\ verdict' = Risk!NoVerdict
        /\ riskLane' = [l \in RiskLanes |-> Risk!NewLane(riskLane[l].qty)]
    BY <1>3, Zenon DEF Risk!Restart
  <2>2. Risk!RefusalIsJust'
    BY <2>1 DEF Risk!NoVerdict, Risk!RefusalIsJust
  <2>3. \A l \in RiskLanes : /\ Risk!NewLane(riskLane[l].qty) \in LaneState
                             /\ Risk!NewLane(riskLane[l].qty).lossDate = -1
    BY DEF Risk!NewLane, Risk!NoDate, LaneState, LossInv
  <2>4. riskLane' \in [RiskLanes -> LaneState] /\ \A l \in RiskLanes : riskLane'[l].lossDate = -1
    BY <2>1, <2>3
  <2>5. \A d \in Risk!Dates : d # -1
    BY DEF Risk!Dates
  <2> QED  BY <2>1, <2>2, <2>4, <2>5, Zenon
              DEF LossInv, Risk!AccountLoss, Risk!Accounts, Risk!Dates, Risk!Date
<1>4. CASE UNCHANGED Risk!vars
  <2>1. UNCHANGED <<clock, riskLane, realised, verdict>>
    BY <1>4 DEF Risk!vars
  <2> QED  BY <2>1, Zenon DEF LossInv, Risk!RefusalIsJust, Risk!AccountLoss, Risk!Accounts,
                              Risk!Dates, Risk!Date
<1> QED  BY <1>1, <1>2, <1>3, <1>4, Zenon DEF Risk!Next

(***************************************************************************)
(* An entry is refused for losses only when the account lost that much on  *)
(* the date of the bar: losses of another day or of another account never  *)
(* count (refresh_daily_loss_rollover and account_risk_snapshot), however  *)
(* old the bars of the lanes are, and over restarts.                       *)
(***************************************************************************)
THEOREM RefusalsAreJust ==
    Risk!TimeOK /\ Risk!LimitsOK => (Risk!Spec => []Risk!RefusalIsJust)
<1> SUFFICES ASSUME Risk!TimeOK, Risk!LimitsOK PROVE Risk!Spec => []Risk!RefusalIsJust
  OBVIOUS
<1>1. Risk!Init => LossInv
  BY InitLosses
<1>2. LossInv /\ [Risk!Next]_Risk!vars => LossInv'
  BY NextLosses
<1>3. LossInv => Risk!RefusalIsJust
  BY DEF LossInv
<1> QED  BY <1>1, <1>2, <1>3, PTL DEF Risk!Spec

(***************************************************************************)
(* Strengthens EntriesStopAtLimit for lanes whose bars are as old as the   *)
(* clock, until a restart: the lanes count all the account lost on their   *)
(* date, and nothing was lost on a later one.                              *)
(***************************************************************************)
ExactInv ==
    /\ riskRestarts = 0
    /\ \A l \in RiskLanes : riskLane[l].lossDate <= Risk!Date(clock)
    /\ \A l \in RiskLanes, d \in Risk!Dates :
          riskLane[l].lossDate = d => Risk!AccountLoss(riskLane, l) = realised[AccountOf[l]][d]
    /\ \A l \in RiskLanes, d \in Risk!Dates :
          riskLane[l].lossDate < d => realised[AccountOf[l]][d] = 0
    /\ Risk!EntriesStopAtLimit

\* A loss step at the clock counts all the account lost.
LEMMA LossStepIsExact ==
    ASSUME Risk!TimeOK, Risk!LimitsOK, LossInv, ExactInv, NEW l \in RiskLanes,
           NEW n \in Nat, LossStep(l, clock, n)
    PROVE  ExactInv'
<1> DEFINE d == Risk!Date(clock)
           ls == Risk!Rollover(d)
           Lost(m) == Risk!AccountLoss(ls, m)
           LostAfter(m) == Risk!AccountLoss(riskLane', m)
<1>1. d \in Int /\ d \in Risk!Dates /\ \A e \in Risk!Dates : e \in Int
  <2>1. clock \in Nat /\ MaxTime \in Nat /\ clock <= MaxTime
    BY DEF LossInv, Risk!TimeOK
  <2> QED  BY <2>1, DatesAreMonotone DEF Risk!Dates
<1>2. IsFiniteSet(RiskLanes) /\ DailyLimit[l] \in Nat
  BY Zenon DEF Risk!LimitsOK, Risk!IsFiniteSet, IsFiniteSet
<1>3. \A m \in RiskLanes : AccountOf[m] \in Risk!Accounts /\ riskLane[m].lossDate \in Int
  BY Zenon DEF Risk!Accounts, LossInv, LaneState
<1>4. ASSUME NEW m \in RiskLanes
      PROVE  /\ ls \in [RiskLanes -> LaneState] /\ ls[m].lossDate = d
             /\ Lost(m) = IF riskLane[m].lossDate = d THEN Risk!AccountLoss(riskLane, m) ELSE 0
  BY <1>1, <1>2, RolloverOfLosses DEF LossInv
<1>5. /\ riskLane' \in [RiskLanes -> LaneState]
      /\ \A x \in RiskLanes : riskLane'[x].lossDate = ls[x].lossDate
      /\ AddsLoss(ls, riskLane', l, n)
      /\ \A a \in Risk!Accounts, e \in Risk!Dates :
            realised'[a][e] = IF a = AccountOf[l] /\ e = d THEN realised[a][e] + n
                              ELSE realised[a][e]
      /\ clock' = clock /\ riskRestarts' = riskRestarts
  BY Zenon DEF LossStep
<1>6. Risk!Entered' =>
          n = 0 /\ verdict'.lane = l /\ verdict'.ts = clock /\ ~Risk!LossLimitReached(ls, l)
  BY Zenon DEF LossStep
<1>7. ASSUME NEW m \in RiskLanes
      PROVE  /\ Lost(m) \in Int
             /\ AccountOf[m] = AccountOf[l] => LostAfter(m) = Lost(m) + n
             /\ AccountOf[m] # AccountOf[l] => LostAfter(m) = Lost(m)
  <2>1. ls \in [RiskLanes -> LaneState]
    BY <1>4
  <2> DEFINE ms == riskLane'
  <2>2. /\ ms \in [RiskLanes -> LaneState]
        /\ AddsLoss(ls, ms, l, n)
    BY <1>5, Zenon
  <2> HIDE DEF ls, ms
  <2>3. AccountLosesMore(ls, ms, l, n)
    BY <1>2, <2>1, <2>2, AccountLossAfter, Zenon
  <2> QED  BY <2>3, Zenon DEF ms, AccountLosesMore
<1> HIDE DEF ls, Lost, LostAfter
<1>8. ASSUME NEW m \in RiskLanes
      PROVE  /\ realised[AccountOf[m]][d] \in Nat
             /\ Lost(m) = realised[AccountOf[m]][d]
  <2>1. realised[AccountOf[m]][d] \in Nat
    BY <1>1, <1>3 DEF LossInv
  <2>2. CASE riskLane[m].lossDate = d
    BY <1>1, <1>4, <2>1, <2>2, Zenon DEF ExactInv
  <2>3. CASE riskLane[m].lossDate # d
    <3>1. riskLane[m].lossDate <= d
      BY Zenon DEF ExactInv
    <3>2. riskLane[m].lossDate < d
      BY <1>1, <1>3, <2>3, <3>1
    <3>3. realised[AccountOf[m]][d] = 0
      BY <1>1, <3>2, Zenon DEF ExactInv
    <3> QED  BY <1>4, <2>1, <2>3, <3>3, Zenon
  <2> QED  BY <2>1, <2>2, <2>3
<1>9. ASSUME NEW m \in RiskLanes PROVE LostAfter(m) = realised'[AccountOf[m]][d]
  <2>1. realised'[AccountOf[m]][d] = IF AccountOf[m] = AccountOf[l]
                                     THEN realised[AccountOf[m]][d] + n
                                     ELSE realised[AccountOf[m]][d]
    BY <1>1, <1>3, <1>5, Zenon
  <2>2. CASE AccountOf[m] = AccountOf[l]
    BY <1>7, <1>8, <2>1, <2>2, Zenon
  <2>3. CASE AccountOf[m] # AccountOf[l]
    BY <1>7, <1>8, <2>1, <2>3
  <2> QED  BY <2>2, <2>3
<1>10. \A m \in RiskLanes : riskLane'[m].lossDate = d
  BY <1>4, <1>5, Zenon
<1>11. ASSUME NEW m \in RiskLanes, NEW e \in Risk!Dates, riskLane'[m].lossDate < e
       PROVE  realised'[AccountOf[m]][e] = 0
  <2>1. d < e /\ e \in Int
    BY <1>1, <1>10, <1>11
  <2>2. riskLane[m].lossDate <= d
    BY DEF ExactInv
  <2>3. riskLane[m].lossDate < e /\ e # d
    BY <1>1, <1>3, <2>1, <2>2
  <2>4. realised[AccountOf[m]][e] = 0
    BY <2>3, Zenon DEF ExactInv
  <2> QED  BY <1>3, <1>5, <2>3, <2>4, Zenon
<1>12. Risk!EntriesStopAtLimit'
  <2>1. ASSUME ~(Lost(l) >= DailyLimit[l]), n = 0
        PROVE  realised'[AccountOf[l]][d] < DailyLimit[l]
    <3>1. realised'[AccountOf[l]][d] = realised[AccountOf[l]][d] + n
      BY <1>1, <1>3, <1>5, Zenon
    <3>2. Lost(l) \in Int /\ realised[AccountOf[l]][d] \in Nat
      BY <1>7, <1>8, Zenon
    <3> QED  BY <1>2, <1>8, <2>1, <3>1, <3>2
  <2> QED  BY <1>6, <2>1, Zenon DEF Risk!EntriesStopAtLimit, Risk!LossLimitReached, Lost, d
<1>13. \A m \in RiskLanes, e \in Risk!Dates :
          riskLane'[m].lossDate = e => Risk!AccountLoss(riskLane', m) = realised'[AccountOf[m]][e]
  BY <1>9, <1>10, Zenon DEF LostAfter
<1>14. riskRestarts' = 0 /\ \A m \in RiskLanes : riskLane'[m].lossDate <= Risk!Date(clock')
  <2>1. riskRestarts' = 0 /\ Risk!Date(clock') = d
    BY <1>5, Zenon DEF ExactInv
  <2>2. d <= d
    BY <1>1
  <2> QED  BY <1>10, <2>1, <2>2, Zenon
<1> QED
  BY <1>11, <1>12, <1>13, <1>14, Zenon
     DEF ExactInv, Risk!AccountLoss, Risk!Accounts, Risk!Dates, Risk!Date

\* The lanes trade on bars of the clock's age, and the process never restarts.
InStep == (\A l \in RiskLanes : BarAge[l] = 0) /\ MaxRiskRestarts = 0

LEMMA InitExact ==
    ASSUME Risk!TimeOK, Risk!Init PROVE ExactInv
<1>1. \A l \in RiskLanes : riskLane[l].lossDate = -1
  BY DEF Risk!Init, Risk!NewLane, Risk!NoDate
<1>2. \A d \in Risk!Dates : d \in Nat
  BY DEF Risk!Dates
<1>3. Risk!Date(clock) \in Nat
  BY DatesAreMonotone DEF Risk!Init
<1>4. riskRestarts = 0
  BY DEF Risk!Init
<1>5. \A l \in RiskLanes, d \in Risk!Dates : realised[AccountOf[l]][d] = 0
  <2>1. \A l \in RiskLanes : AccountOf[l] \in Risk!Accounts
    BY DEF Risk!Accounts
  <2> QED  BY <2>1 DEF Risk!Init
<1>6. Risk!EntriesStopAtLimit
  BY DEF Risk!Init, Risk!NoVerdict, Risk!EntriesStopAtLimit, Risk!Entered
<1>7. \A l \in RiskLanes : riskLane[l].lossDate <= Risk!Date(clock)
  BY <1>1, <1>3
<1>8. \A l \in RiskLanes, d \in Risk!Dates : riskLane[l].lossDate # d
  BY <1>1, <1>2
<1> QED  BY <1>4, <1>5, <1>6, <1>7, <1>8, Zenon DEF ExactInv

LEMMA NextExact ==
    ASSUME Risk!TimeOK, Risk!LimitsOK, InStep, LossInv, ExactInv, [Risk!Next]_Risk!vars
    PROVE  ExactInv'
<1>1. CASE \E l \in RiskLanes : \E ts \in Risk!Max({0, clock - BarAge[l]}) .. clock :
              Risk!Cycle(l, ts)
  <2>1. PICK l \in RiskLanes : \E ts \in Risk!Max({0, clock - BarAge[l]}) .. clock :
              Risk!Cycle(l, ts)
    BY <1>1
  <2>2. PICK ts \in Risk!Max({0, clock - BarAge[l]}) .. clock : Risk!Cycle(l, ts)
    BY <2>1
  <2>3. ts \in 0 .. clock /\ ts = clock
    BY <2>2, TriggersAreNotAhead DEF InStep
  <2>4. PICK n \in Nat : LossStep(l, ts, n)
    BY <2>2, <2>3, CycleIsLossStep
  <2>5. LossStep(l, clock, n)
    BY <2>3, <2>4
  <2> QED  BY <2>5, LossStepIsExact
<1>2. CASE Risk!Tick
  <2>1. /\ clock' = clock + 1 /\ verdict' = Risk!NoVerdict
        /\ UNCHANGED <<riskLane, realised, riskRestarts>>
    BY <1>2 DEF Risk!Tick
  <2>2. Risk!EntriesStopAtLimit'
    BY <2>1 DEF Risk!NoVerdict, Risk!EntriesStopAtLimit, Risk!Entered
  <2>3. \A l \in RiskLanes : riskLane[l].lossDate <= Risk!Date(clock + 1)
    <3>1. clock \in Nat /\ clock + 1 \in Nat /\ clock <= clock + 1
      BY DEF LossInv
    <3>2. /\ Risk!Date(clock) \in Nat /\ Risk!Date(clock + 1) \in Nat
          /\ Risk!Date(clock) <= Risk!Date(clock + 1)
      BY <3>1, DatesAreMonotone
    <3>3. \A l \in RiskLanes :
              riskLane[l].lossDate \in Int /\ riskLane[l].lossDate <= Risk!Date(clock)
      BY DEF LossInv, LaneState, ExactInv
    <3> QED  BY <3>2, <3>3
  <2> QED  BY <2>1, <2>2, <2>3, Zenon
              DEF ExactInv, Risk!AccountLoss, Risk!Accounts, Risk!Dates, Risk!Date
<1>3. CASE Risk!Restart
  BY <1>3 DEF Risk!Restart, InStep, ExactInv
<1>4. CASE UNCHANGED Risk!vars
  <2>1. UNCHANGED <<clock, riskLane, realised, verdict, riskRestarts>>
    BY <1>4 DEF Risk!vars
  <2> QED  BY <2>1, Zenon DEF ExactInv, Risk!EntriesStopAtLimit, Risk!Entered,
                              Risk!AccountLoss, Risk!Accounts, Risk!Dates, Risk!Date
<1> QED  BY <1>1, <1>2, <1>3, <1>4, Zenon DEF Risk!Next

(***************************************************************************)
(* Once the losses the lanes of an account have realised on a date reach a *)
(* bot's limit, the bot enters nothing more on that date (the daily-loss   *)
(* check of BasicRiskPolicy::evaluate), as long as all lanes trade on bars *)
(* of the current date and the process does not restart.  Either would     *)
(* forget losses: a lane with an older bar rolls every lane back, and a    *)
(* restart begins at zero.                                                 *)
(***************************************************************************)
THEOREM EntriesStop ==
    Risk!TimeOK /\ Risk!LimitsOK /\ InStep => (Risk!Spec => []Risk!EntriesStopAtLimit)
<1> SUFFICES ASSUME Risk!TimeOK, Risk!LimitsOK, InStep
             PROVE  Risk!Spec => []Risk!EntriesStopAtLimit
  OBVIOUS
<1>1. Risk!Init => LossInv /\ ExactInv
  BY InitLosses, InitExact
<1>2. LossInv /\ ExactInv /\ [Risk!Next]_Risk!vars => LossInv' /\ ExactInv'
  BY NextLosses, NextExact
<1>3. ExactInv => Risk!EntriesStopAtLimit
  BY DEF ExactInv
<1> QED  BY <1>1, <1>2, <1>3, PTL DEF Risk!Spec

-----------------------------------------------------------------------------
(***************************************************************************)
(* What validate accepts, for any configurations.                          *)
(***************************************************************************)
CONSTANTS Bundles, Updates, Environment, LiveBalances

VARIABLES config, update

Rules == INSTANCE ConfigRules

\* The configuration that is looked at stays the same.
LEMMA ConfigStays == Rules!Spec => [](config \in Bundles)
<1>1. Rules!Init => config \in Bundles
  BY Zenon DEF Rules!Init
<1>2. config \in Bundles /\ [Rules!Next]_Rules!vars => (config \in Bundles)'
  BY DEF Rules!Next, Rules!vars
<1> QED  BY <1>1, <1>2, PTL DEF Rules!Spec

\* A connector for a market is the only one for it.
LEMMA OneConnectorPerMarket ==
    ASSUME NEW k \in {"alpaca", "binance"}, NEW m, Rules!SupportsMarket(k, m)
    PROVE  k = "binance" <=> m = "crypto"
  BY DEF Rules!SupportsMarket, Rules!ConnectorCapabilities

(***************************************************************************)
(* Bars and previews are fetched with the connector of the bot's account,  *)
(* and that is the data_connector of every bot of a configuration that     *)
(* ConfigBundle::validate accepts, whatever the configuration.             *)
(***************************************************************************)
THEOREM DataFromTheAccount == Rules!Spec => []Rules!DataComesFromTheAccount
<1>1. Rules!DataComesFromTheAccount
  <2> SUFFICES ASSUME Rules!Validate(config), NEW i \in DOMAIN config.instances
               PROVE  LET bot == config.instances[i]
                      IN  /\ bot.data_connector = config.accounts[bot.account].kind
                          /\ bot.signal_mode = "intrabar" =>
                                Rules!SupportsPreview(config.accounts[bot.account].kind)
    BY Zenon DEF Rules!DataComesFromTheAccount
  <2> DEFINE bot == config.instances[i]
             account == config.accounts[bot.account]
  <2>1. Rules!ValidBot(config, bot)
    BY Zenon DEF Rules!Validate
  <2>2. Rules!ValidBindings(bot, account) /\ Rules!ValidSignalMode(bot, account)
    BY <2>1, Zenon DEF Rules!ValidBot
  <2>3. /\ bot.data_connector \in {"alpaca", "binance"}
        /\ bot.execution_connector \in {"alpaca", "binance"}
        /\ Rules!SupportsMarket(bot.data_connector, bot.market)
        /\ Rules!SupportsMarket(bot.execution_connector, bot.market)
        /\ bot.execution_connector = account.kind
    BY <2>2, Zenon DEF Rules!ValidBindings, Rules!ConnectorCapabilities
  <2>4. bot.signal_mode = "intrabar" => Rules!SupportsPreview(bot.data_connector)
    BY <2>2, Zenon DEF Rules!ValidSignalMode
  <2>5. bot.data_connector = bot.execution_connector
    <3>1. /\ bot.data_connector = "binance" <=> bot.market = "crypto"
          /\ bot.execution_connector = "binance" <=> bot.market = "crypto"
      BY <2>3, OneConnectorPerMarket, Zenon
    <3> QED  BY <2>3, <3>1, Zenon
  <2> QED  BY <2>3, <2>4, <2>5, Zenon
<1> QED  BY <1>1, PTL

(***************************************************************************)
(* A dashboard that saves what it read changes nothing, not even whether   *)
(* remote submission is inherited (AccountConfigUpdate::into_account).     *)
(***************************************************************************)
THEOREM SavingIsIdempotent ==
    Rules!AccountsOK => (Rules!Spec => []Rules!SavingWhatWasReadChangesNothing)
<1> SUFFICES ASSUME Rules!AccountsOK PROVE Rules!Spec => []Rules!SavingWhatWasReadChangesNothing
  OBVIOUS
<1>1. ASSUME NEW x, x = [f \in DOMAIN x |-> x[f]], "execution_remote_submission" \in DOMAIN x
      PROVE  Rules!IntoAccount(Rules!Echo(x), x) = x
  <2> DEFINE e == Rules!Echo(x)
  <2>1. e = [x EXCEPT !.execution_remote_submission = Rules!Submits(x)]
    BY Zenon DEF Rules!Echo
  <2>2. e.execution_remote_submission = Rules!Submits(x)
    BY <1>1, <2>1
  <2>3. \A f \in DOMAIN x : f \in Rules!Replaced => e[f] = x[f]
    BY <1>1, <2>1 DEF Rules!Replaced
  <2> HIDE DEF e
  <2>4. Rules!IntoAccount(e, x) = Rules!Adopt(e, x, x.execution_remote_submission)
    BY <2>2, Zenon DEF Rules!IntoAccount
  <2>5. Rules!Adopt(e, x, x.execution_remote_submission) = [f \in DOMAIN x |-> x[f]]
    BY <2>3 DEF Rules!Adopt
  <2> QED  BY <1>1, <2>4, <2>5, Zenon DEF e
<1>2. config \in Bundles => Rules!SavingWhatWasReadChangesNothing
  BY <1>1, Zenon DEF Rules!SavingWhatWasReadChangesNothing, Rules!AccountsOK
<1> QED  BY <1>2, ConfigStays, PTL

(***************************************************************************)
(* An update of an account that needs no restart leaves the account        *)
(* submitting orders to the venue exactly when the update asked for it     *)
(* (AccountConfigUpdate::into_account, account_settings_changed).          *)
(***************************************************************************)
THEOREM SubmissionAsAsked ==
    Rules!AccountsOK => (Rules!Spec => []Rules!SubmitsAsAsked)
<1> SUFFICES ASSUME Rules!AccountsOK PROVE Rules!Spec => []Rules!SubmitsAsAsked
  OBVIOUS
<1>1. ASSUME NEW x, NEW u, "execution_remote_submission" \in DOMAIN x,
             ~Rules!SettingsChanged(x, Rules!IntoAccount(u, x)),
             u.execution_remote_submission # None
      PROVE  Rules!Submits(Rules!IntoAccount(u, x)) = u.execution_remote_submission
  <2> DEFINE new == Rules!IntoAccount(u, x)
  <2>1. Rules!Submits(x) = Rules!Submits(new)
    BY <1>1, Zenon DEF Rules!SettingsChanged
  <2>2. CASE u.execution_remote_submission = Rules!Submits(x)
    BY <2>1, <2>2, Zenon
  <2>3. CASE u.execution_remote_submission # Rules!Submits(x)
    <3>1. new = Rules!Adopt(u, x, u.execution_remote_submission)
      BY <1>1, <2>3, Zenon DEF Rules!IntoAccount
    <3>2. new.execution_remote_submission = u.execution_remote_submission
      BY <1>1, <3>1 DEF Rules!Adopt, Rules!Replaced
    <3> QED  BY <1>1, <3>2, Zenon DEF Rules!Submits, Rules!Seen
  <2> QED  BY <2>2, <2>3
<1>2. config \in Bundles => Rules!SubmitsAsAsked
  BY <1>1, Zenon DEF Rules!SubmitsAsAsked, Rules!AccountsOK
<1> QED  BY <1>2, ConfigStays, PTL

\* Of nothing but n and 0, n is the largest.
LEMMA LargestOfOne ==
    ASSUME NEW S, NEW n \in Nat, S \subseteq {n}, S # {}
    PROVE  Rules!Largest(S) = n
<1>1. S = {n}
  BY Zenon
<1>2. n \in S \union {0} /\ \A y \in S \union {0} : n >= y
  BY <1>1
<1>3. \A x \in S \union {0} : (\A y \in S \union {0} : x >= y) => x = n
  BY <1>1
<1> QED  BY <1>2, <1>3, Zenon DEF Rules!Largest, Rules!Max

(***************************************************************************)
(* What stops a configuration that ConfigBundle::validate accepts from     *)
(* being built is a disabled, unknown or badly parameterised indicator or  *)
(* an unknown strategy: accounts, connectors, risk profiles and lanes      *)
(* resolve, and the warmup covers every indicator that runs.               *)
(***************************************************************************)
THEOREM ValidIsBuilt == Rules!IndicatorsOK => (Rules!Spec => []Rules!ValidCanBeBuilt)
<1> SUFFICES ASSUME Rules!IndicatorsOK PROVE Rules!Spec => []Rules!ValidCanBeBuilt
  OBVIOUS
<1> DEFINE Built(i) ==
        LET bot == config.instances[i]
        IN  Rules!IndicatorsBuild(bot) /\ Rules!StrategyBuilds(bot) =>
                /\ Rules!LaneBuilds(config, i)
                /\ \A k \in Rules!Range(Rules!Enabled(bot)) :
                      Rules!RequiredWarmup(bot) >= Rules!Manifest[k.type].minimum
<1>1. ASSUME Rules!Validate(config) PROVE Rules!RegistryBuilds(config)
  <2>1. \A a \in DOMAIN config.accounts : Rules!ValidAccount(config.accounts[a])
    BY <1>1, Zenon DEF Rules!Validate
  <2> QED
    BY <2>1, Zenon DEF Rules!ValidAccount, Rules!RegistryBuilds, Rules!ConnectorCapabilities
<1>2. ASSUME config \in Bundles, Rules!Validate(config), NEW i \in DOMAIN config.instances
      PROVE  Built(i)
  <2> DEFINE bot == config.instances[i]
             live == config.accounts[bot.account].mode = "live"
             used == Rules!Range(bot.indicators)
             run == Rules!Range(Rules!Enabled(bot))
  <2>1. SUFFICES ASSUME Rules!IndicatorsBuild(bot), Rules!StrategyBuilds(bot)
                 PROVE  /\ Rules!LaneBuilds(config, i)
                        /\ \A k \in run :
                              Rules!RequiredWarmup(bot) >= Rules!Manifest[k.type].minimum
    BY Zenon
  <2>2. Rules!ValidBot(config, bot)
    BY <1>2, Zenon DEF Rules!Validate
  <2>3. /\ bot.symbols # <<>>
        /\ \A n \in DOMAIN bot.symbols : bot.symbols[n] # ""
        /\ Rules!ReferencesExist(config, bot)
        /\ bot.indicators # <<>>
        /\ Rules!ValidIndicators(bot, live)
    BY <2>2, Zenon DEF Rules!ValidBot
  <2>4. Rules!LaneBuilds(config, i)
    BY <2>1, <2>3, Zenon DEF Rules!LaneBuilds, Rules!RiskResolves, Rules!ReferencesExist
  <2>5. \A t \in DOMAIN Rules!Manifest :
            Rules!Manifest[t].minimum = 50 /\ Rules!Manifest[t].recommended = 200
    BY DEF Rules!Manifest
  <2>6. \A k \in run : k.type \in DOMAIN Rules!Manifest
    BY <2>1, Zenon DEF Rules!IndicatorsBuild, Rules!EngineBuilds
  <2>7. ASSUME NEW k \in run PROVE Rules!RequiredWarmup(bot) >= Rules!Manifest[k.type].minimum
    <3>1. Rules!Manifest[k.type].minimum = 50
      BY <2>5, <2>6
    <3>2. CASE bot.warmup_target_bars = None
      <4> DEFINE S == {Rules!Manifest[j.type].recommended : j \in run}
                 n == 200
      <4>1. n \in Nat /\ S \subseteq {n} /\ S # {}
        BY <2>5, <2>6, <2>7
      <4>2. Rules!Largest(S) = n
        <5> HIDE DEF S, n
        <5> QED  BY <4>1, LargestOfOne, Zenon
      <4>3. Rules!RequiredWarmup(bot) = Rules!Largest(S)
        BY <3>2, Zenon DEF Rules!RequiredWarmup, Rules!Seen
      <4>4. n >= 50
        OBVIOUS
      <4> HIDE DEF n
      <4> QED  BY <3>1, <4>2, <4>3, <4>4, Zenon
    <3>3. CASE bot.warmup_target_bars # None
      <4> DEFINE S == {Rules!Manifest[j.type].minimum : j \in used}
      <4>1. \A n \in DOMAIN bot.indicators :
                Rules!ValidIndicator(bot, live, bot.indicators[n])
        BY <2>3, Zenon DEF Rules!ValidIndicators
      <4>2. \A j \in used : j.type \in DOMAIN Rules!Manifest
        BY <4>1, Zenon DEF Rules!ValidIndicator, Rules!Range
      <4>3. used # {}
        <5>1. DOMAIN bot.indicators # {}
          BY <1>2, <2>3, Zenon DEF Rules!IndicatorsOK
        <5> QED  BY <5>1, Zenon DEF Rules!Range
      <4>4. S \subseteq {50} /\ S # {}
        BY <2>5, <4>2, <4>3
      <4>5. Rules!Largest(S) = 50
        <5> HIDE DEF S
        <5> QED  BY <4>4, LargestOfOne, Zenon
      <4>6. bot.warmup_target_bars >= Rules!Largest(S)
        BY <2>3, <3>3, Zenon DEF Rules!ValidIndicators
      <4>7. Rules!RequiredWarmup(bot) = bot.warmup_target_bars
        BY <3>3, Zenon DEF Rules!RequiredWarmup, Rules!Seen
      <4> QED  BY <3>1, <4>5, <4>6, <4>7, Zenon
    <3> QED  BY <3>2, <3>3
  <2> QED  BY <2>4, <2>7, Zenon
<1>3. config \in Bundles => Rules!ValidCanBeBuilt
  <2> HIDE DEF Built
  <2>1. ASSUME config \in Bundles, Rules!Validate(config)
        PROVE  \A i \in DOMAIN config.instances : Built(i)
    BY <1>2, <2>1, Zenon
  <2> QED  BY <1>1, <2>1, Zenon DEF Rules!ValidCanBeBuilt, Built
<1> QED  BY <1>3, ConfigStays, PTL

\* Shares of an amount add up to no more than the share their parts add up to.
LEMMA SharesOfSum ==
    ASSUME NEW S, IsFiniteSet(S), NEW f, NEW g, NEW t \in Nat,
           \A x \in S : f[x] \in Nat /\ g[x] \in Nat /\ f[x] <= t * g[x]
    PROVE  SumFunctionOnSet(f, S) <= t * SumFunctionOnSet(g, S)
<1> DEFINE Fits(U) == SumFunctionOnSet(f, U) <= t * SumFunctionOnSet(g, U)
           Bad == {U \in SUBSET S : ~Fits(U)}
<1>1. SUFFICES ASSUME Bad # {} PROVE FALSE
  <2>1. S \in SUBSET S
    OBVIOUS
  <2> QED  BY <1>1, <2>1, Zenon
<1>2. PICK U \in Bad : \A y \in Bad : ~(y \subseteq U /\ y # U)
  <2>1. Bad \in SUBSET (SUBSET S)
    OBVIOUS
  <2> HIDE DEF Bad
  <2> QED  BY <1>1, <2>1, SmallestSubset
<1> DEFINE p == Any(U)
           F == SumFunctionOnSet(f, U)
           G == SumFunctionOnSet(g, U)
           Frest == SumFunctionOnSet(f, U \ {p})
           Grest == SumFunctionOnSet(g, U \ {p})
<1>3. IsFiniteSet(U) /\ IsFiniteSet(U \ {p})
  BY FS_Subset
<1>4. /\ F = IF U = {} THEN 0 ELSE f[p] + Frest
      /\ G = IF U = {} THEN 0 ELSE g[p] + Grest
  BY <1>3, SumUnfolds, Zenon
<1>5. ~(F <= t * G)
  BY <1>2, Zenon
<1>6. CASE U = {}
  <2>1. F = 0 /\ G = 0
    BY <1>4, <1>6, Zenon
  <2> HIDE DEF F, G
  <2> QED  BY <1>5, <2>1
<1>7. CASE U # {}
  <2>1. p \in U /\ p \in S
    BY <1>7, AnyIsMember
  <2>2. U \ {p} \in SUBSET S /\ U \ {p} \notin Bad
    BY <1>2, <2>1, Zenon
  <2>3. Frest <= t * Grest
    BY <2>2, Zenon
  <2>4. Frest \in Int /\ Grest \in Int
    <3>1. \A x \in U \ {p} : f[x] \in Int /\ g[x] \in Int
      OBVIOUS
    <3> QED  BY <1>3, <3>1, SumIsInt, Zenon
  <2>5. f[p] \in Nat /\ g[p] \in Nat /\ f[p] <= t * g[p]
    BY <2>1, Zenon
  <2>6. F = f[p] + Frest /\ G = g[p] + Grest
    BY <1>4, <1>7, Zenon
  <2> DEFINE a == f[p]
             b == g[p]
  <2> HIDE DEF F, G, Frest, Grest, a, b
  <2>7. /\ a \in Nat /\ b \in Nat /\ a <= t * b
        /\ F = a + Frest /\ G = b + Grest
    BY <2>5, <2>6, Zenon DEF a, b
  <2>8. t * G = t * b + t * Grest
    BY <2>4, <2>7
  <2>9. t * b \in Int /\ t * Grest \in Int
    BY <2>4, <2>7
  <2> QED  BY <1>5, <2>3, <2>4, <2>7, <2>8, <2>9
<1> QED  BY <1>6, <1>7

\* The sum of module ConfigRules is the same.
LEMMA SumOfRules == ASSUME NEW f, NEW S PROVE Rules!SumFunctionOnSet(f, S) = SumFunctionOnSet(f, S)
  BY DEF SumFunctionOnSet, FoldFunctionOnSet, MapThenFoldSet,
         Rules!SumFunctionOnSet, Rules!FoldFunctionOnSet, Rules!MapThenFoldSet

(***************************************************************************)
(* What the ledger allocates (bot_allocated_usd) to the bots that can run  *)
(* on an account adds up to no more than the account may commit            *)
(* (effective_cap_usd), whatever balance the venue reports: that           *)
(* validate_account_budget_allocations looks at the percentages only is    *)
(* enough, for any bots and amounts.                                       *)
(***************************************************************************)
THEOREM LimitsFit == Rules!AmountsOK => (Rules!Spec => []Rules!LimitsFitTheAccount)
<1> SUFFICES ASSUME Rules!AmountsOK PROVE Rules!Spec => []Rules!LimitsFitTheAccount
  OBVIOUS
<1>1. ASSUME config \in Bundles, Rules!Validate(config), NEW a \in DOMAIN config.accounts,
             NEW live \in LiveBalances
      PROVE  Rules!SumFunctionOnSet(
                 [i \in DOMAIN config.instances |->
                     Rules!BotAllocated(config.accounts[a], live, config.instances[i])],
                 Rules!Allocated(config, a)) <= 100 * Rules!EffectiveCap(config.accounts[a], live)
  <2> DEFINE bots == DOMAIN config.instances
             S == Rules!Allocated(config, a)
             t == Rules!EffectiveCap(config.accounts[a], live)
             f == [i \in bots |->
                     Rules!BotAllocated(config.accounts[a], live, config.instances[i])]
             g == [i \in bots |-> config.instances[i].budget_pct]
             F == SumFunctionOnSet(f, S)
             G == SumFunctionOnSet(g, S)
  <2>1. /\ config.accounts[a].total_budget_usd \in Nat /\ Rules!IsFiniteSet(bots)
        /\ \A i \in bots : config.instances[i].budget_pct \in Nat
    BY <1>1, Zenon DEF Rules!AmountsOK
  <2>2. t \in Nat
    <3>1. live # None => live \in Nat
      BY DEF Rules!AmountsOK
    <3> QED  BY <2>1, <3>1 DEF Rules!EffectiveCap
  <2>3. S \subseteq bots
    BY Zenon DEF Rules!Allocated
  <2>4. IsFiniteSet(S)
    <3>1. IsFiniteSet(bots)
      BY <2>1, Zenon DEF Rules!IsFiniteSet, IsFiniteSet
    <3> HIDE DEF S, bots
    <3> QED  BY <2>3, <3>1, FS_Subset
  <2>5. ASSUME NEW i \in S PROVE f[i] \in Nat /\ g[i] \in Nat /\ f[i] <= t * g[i]
    <3> DEFINE b == config.instances[i].budget_pct
    <3>1. i \in bots
      BY <2>3, Zenon
    <3>2. f[i] = t * b /\ g[i] = b
      BY <3>1, Zenon DEF Rules!BotAllocated
    <3>3. b \in Nat
      BY <2>1, <3>1, Zenon
    <3> HIDE DEF t, b, f, g
    <3>4. t * b \in Nat
      BY <2>2, <3>3
    <3>5. t * b <= t * b
      BY <3>4
    <3> QED  BY <3>2, <3>3, <3>4, <3>5, Zenon
  <2>6. G <= 100
    <3>1. Rules!SumPct(config, S) <= 100
      BY <1>1, Zenon DEF Rules!Validate, Rules!ValidAllocations
    <3> QED  BY <3>1, SumOfRules, Zenon DEF Rules!SumPct
  <2> HIDE DEF S, t, f, g
  <2>7. F <= t * G
    BY <2>2, <2>4, <2>5, SharesOfSum, Zenon
  <2>8. F \in Int /\ G \in Int
    <3>1. \A i \in S : f[i] \in Int /\ g[i] \in Int
      BY <2>5
    <3> QED  BY <2>4, <3>1, SumIsInt, Zenon
  <2>9. F <= 100 * t
    <3> HIDE DEF F, G
    <3>1. t * G <= t * 100
      BY <2>2, <2>6, <2>8
    <3>2. t * G \in Int
      BY <2>2, <2>8
    <3> QED  BY <2>2, <2>7, <2>8, <3>1, <3>2
  <2> QED  BY <2>9, SumOfRules, Zenon DEF S, t, f
<1>2. config \in Bundles => Rules!LimitsFitTheAccount
  BY <1>1, Zenon DEF Rules!LimitsFitTheAccount
<1> QED  BY <1>2, ConfigStays, PTL
=============================================================================
