------------------------------ MODULE RiskGate ------------------------------
(***************************************************************************)
(* What keeps the lanes of an account from trading on: losses of the day,  *)
(* open positions and the cooldown after a rejection, over the cycles of   *)
(* several lanes, midnight and a restart.  Time is the bars' time; a       *)
(* trigger bears the timestamp of its bar, which for long timeframes and   *)
(* for manual signals lies behind the clock.  A loss is in percent, of a   *)
(* whole position or of the half of it.                                    *)
(***************************************************************************)
EXTENDS Integers, FiniteSetsExt

CONSTANTS Lanes,
          AccountOf,      \* AccountOf[l]: the account of a lane
          DailyLimit,     \* max_daily_loss_pct of a lane's bot
          PositionLimit,  \* max_open_positions of a lane's bot
          Age,            \* how far a lane's newest bar may lie behind the clock
          Cooldown,       \* cooldown_after_reject_ms
          DayLength,
          MaxTime,        \* bound: the clock
          MaxTrades,      \* bound: orders filled
          MaxRestarts     \* bound: restarts of the process

LimitsOK ==
    /\ IsFiniteSet(Lanes)
    /\ \A l \in Lanes : /\ DailyLimit[l] \in Nat \ {0} /\ PositionLimit[l] \in Nat \ {0}
                        /\ Age[l] \in Nat

TimeOK == Cooldown \in Nat /\ DayLength \in Nat \ {0} /\ MaxTime \in Nat

VARIABLES clock,
          lane,        \* lane[l]: qty, loss, lossDate, until (cooldown_until_ms)
          realised,    \* history: losses of an account by the date of their bar
          rejectedAt,  \* history: the latest rejection a cooldown is due for, -1: none
          verdict,     \* history: what this step's trigger came to
          trades, restarts

vars == <<clock, lane, realised, rejectedAt, verdict, trades, restarts>>

Accounts == {AccountOf[l] : l \in Lanes}
Date(t) == t \div DayLength
Dates == 0 .. Date(MaxTime)
NoDate == -1
MaxQuantity == 2
FullLoss == 2        \* percent lost by closing a whole position at a bad price
Entries == {"OpenLong", "AddLong"}
Intents == Entries \union {"CloseLong", "NoOp"}
LedgerOutcomes == {"exhausted", "dust"}  \* of entries without room
NoVerdict == [kind |-> "none"]

NewLane(qty) == [qty |-> qty, loss |-> 0, lossDate |-> NoDate, until |-> 0]

Init ==
    /\ clock = 0
    /\ lane = [l \in Lanes |-> NewLane(0)]
    /\ realised = [a \in Accounts |-> [d \in Dates |-> 0]]
    /\ rejectedAt = [l \in Lanes |-> -1]
    /\ verdict = NoVerdict
    /\ trades = 0 /\ restarts = 0

(***************************************************************************)
(* refresh_daily_loss_rollover, of all lanes and accounts.                 *)
(***************************************************************************)

Rollover(d) ==
    [l \in Lanes |-> IF lane[l].lossDate = d THEN lane[l]
                     ELSE [lane[l] EXCEPT !.loss = 0, !.lossDate = d]]

\* account_risk_snapshot
OpenPositions(ls, a) == {l \in Lanes : AccountOf[l] = a /\ ls[l].qty > 0}

\* Mutant: only the lane's own losses count.
OwnLoss(ls, l) == ls[l].loss

AccountLoss(ls, l) ==
    SumFunctionOnSet([x \in Lanes |-> ls[x].loss], {x \in Lanes : AccountOf[x] = AccountOf[l]})

PositionsLeft(ls, l) ==
    Cardinality(OpenPositions(ls, AccountOf[l])) < PositionLimit[l]

LossLimitReached(ls, l) == AccountLoss(ls, l) >= DailyLimit[l]

(***************************************************************************)
(* BasicRiskPolicy and what build_process_bar_evaluation makes of it:      *)
(* `sized` is what order sizing returned, `stale` whether the bar is old.  *)
(* The kill switch stops a cycle before it gets here.                      *)
(***************************************************************************)
RiskDecision(ls, l, ts, intent, sized, stale) ==
    CASE sized = "exhausted" -> "exhausted"
      [] sized = "dust" \/ intent = "NoOp" -> "no order"
      [] sized = "zero" /\ intent # "NoOp" -> "quantity"
      [] sized = "some" /\ intent = "CloseLong" -> "allow"
      [] sized = "some" /\ intent \in Entries ->
            IF ts < ls[l].until THEN "cooldown"
            ELSE IF stale THEN "stale"
            ELSE IF LossLimitReached(ls, l) THEN "daily loss"
            ELSE IF ~PositionsLeft(ls, l) THEN "open positions"
            ELSE "allow"

WithoutCooldown == {"exhausted", "no order"}
Rejections == {"quantity", "cooldown", "stale", "daily loss", "open positions"}

\* Mutant: a trade on another lane of the account ends the cooldown.
FilledForAll(ls, l, s) == [x \in Lanes |-> IF x = l THEN s ELSE [ls[x] EXCEPT !.until = 0]]

Filled(ls, l, s) == [ls EXCEPT ![l] = s]

(***************************************************************************)
(* apply_process_bar_fill_state after an allowed entry or exit.            *)
(***************************************************************************)
Buy(ls, l) ==
    /\ ls[l].qty < MaxQuantity
    /\ lane' = Filled(ls, l, [ls[l] EXCEPT !.qty = @ + 1, !.until = 0])
    /\ UNCHANGED realised

LossOf(s, sold, bad) == IF bad THEN (FullLoss * sold) \div s.qty ELSE 0

Sell(ls, l, d) ==
    \E sold \in 1 .. ls[l].qty, bad \in BOOLEAN :
        LET loss == LossOf(ls[l], sold, bad)
        IN  /\ lane' = Filled(ls, l, [ls[l] EXCEPT !.qty = @ - sold, !.loss = @ + loss,
                                                   !.until = 0])
            /\ realised' = [realised EXCEPT ![AccountOf[l]][d] = @ + loss]

\* A cycle of lane l for a trigger at ts, from the rollover to the position.
Cycle(l, ts) ==
    \E intent \in Intents,
       sized \in {"some", "zero"} \union LedgerOutcomes, stale \in BOOLEAN :
        LET d == Date(ts)
            ls == Rollover(d)
            decision == RiskDecision(ls, l, ts, intent, sized, stale)
        IN  /\ intent = "OpenLong" => lane[l].qty = 0
            /\ intent \in {"AddLong", "CloseLong"} => lane[l].qty > 0
            /\ sized \in LedgerOutcomes => intent \in Entries
            /\ stale => sized = "some" /\ intent \in Entries  \* of no account otherwise
            /\ verdict' = [kind |-> decision, lane |-> l, intent |-> intent, ts |-> ts]
            /\ \/ /\ decision = "allow"
                  /\ trades < MaxTrades /\ trades' = trades + 1
                  /\ IF intent \in Entries THEN Buy(ls, l) ELSE Sell(ls, l, d)
                  /\ rejectedAt' = [rejectedAt EXCEPT ![l] = -1]
               \/ /\ decision \in Rejections
                  /\ lane' = [ls EXCEPT ![l].until = ts + Cooldown]
                  /\ rejectedAt' = [rejectedAt EXCEPT ![l] = IF @ < ts THEN ts ELSE @]
                  /\ UNCHANGED <<realised, trades>>
               \/ /\ decision \in WithoutCooldown
                  /\ lane' = ls
                  /\ UNCHANGED <<realised, rejectedAt, trades>>
            /\ UNCHANGED <<clock, restarts>>

Tick ==
    /\ clock < MaxTime
    /\ clock' = clock + 1
    /\ verdict' = NoVerdict
    /\ UNCHANGED <<lane, realised, rejectedAt, trades, restarts>>

\* build_lane_runtime; positions come back from the journal and the exchange.
Restart ==
    /\ restarts < MaxRestarts
    /\ restarts' = restarts + 1
    /\ lane' = [l \in Lanes |-> NewLane(lane[l].qty)]
    /\ rejectedAt' = [l \in Lanes |-> -1]
    /\ verdict' = NoVerdict
    /\ UNCHANGED <<clock, realised, trades>>

Next ==
    \/ \E l \in Lanes : \E ts \in Max({0, clock - Age[l]}) .. clock : Cycle(l, ts)
    \/ Tick
    \/ Restart

Spec == Init /\ [][Next]_vars
-----------------------------------------------------------------------------
(***************************************************************************)
(* Properties.                                                             *)
(***************************************************************************)
TypeOK ==
    /\ clock \in 0 .. MaxTime
    /\ lane \in [Lanes -> [qty : 0 .. MaxQuantity, loss : 0 .. FullLoss * (MaxTrades \div 2),
                           lossDate : Dates \union {NoDate},
                           until : 0 .. MaxTime + Cooldown]]
    /\ rejectedAt \in [Lanes -> -1 .. MaxTime]

Entered == verdict.kind = "allow" /\ verdict.intent \in Entries

(***************************************************************************)
(* Once the losses the lanes of an account have realised on a date reach a *)
(* bot's limit, the bot enters nothing more on that date (the daily-loss   *)
(* check of BasicRiskPolicy::evaluate).                                    *)
(***************************************************************************)
EntriesStopAtLimit ==
    Entered => realised[AccountOf[verdict.lane]][Date(verdict.ts)] < DailyLimit[verdict.lane]

(***************************************************************************)
(* An entry is refused for losses only when the account lost that much on  *)
(* the date of the bar: losses of another day or of another account never  *)
(* count (refresh_daily_loss_rollover and account_risk_snapshot).          *)
(***************************************************************************)
RefusalIsJust ==
    verdict.kind = "daily loss" =>
        realised[AccountOf[verdict.lane]][Date(verdict.ts)] >= DailyLimit[verdict.lane]

(***************************************************************************)
(* The lanes of an account never hold more positions at once than the most *)
(* generous of their bots allows (max_open_positions).                     *)
(***************************************************************************)
PositionsWithinLimit ==
    \A a \in Accounts :
        Cardinality(OpenPositions(lane, a))
            <= Max({PositionLimit[l] : l \in {x \in Lanes : AccountOf[x] = a}})

(***************************************************************************)
(* A lane whose order was refused enters nothing for the cooldown after    *)
(* the latest of its rejections, unless an order of its own was allowed    *)
(* since or the process began again (cooldown_until_ms).  A rejection of a *)
(* bar older than one already rejected sets the cooldown back, never by    *)
(* more than the age such a bar can have: a lane whose triggers are never  *)
(* late serves its cooldowns in full.                                      *)
(***************************************************************************)
CooldownIsServed ==
    [][Entered' => LET l == verdict'.lane
                   IN  \/ rejectedAt[l] = -1
                       \/ verdict'.ts >= rejectedAt[l] + Cooldown - Age[l]]_vars
=============================================================================
