----------------------------- MODULE MCPositions -----------------------------
(***************************************************************************)
(* What guards a bot's positions, for TLC: the risk gate, with bars of the *)
(* same age and with one lane whose bars are a day behind; the bots that   *)
(* share a symbol of an account, with restarts and with manual closes; and *)
(* the inventory of one lane, exact and with a tolerance.  The three share *)
(* no variable.  A behaviour is one of a single part, chosen at the start; *)
(* the others rest in an initial state.                                    *)
(*                                                                         *)
(* Prices and fees of the exact inventory are multiples of 12 * 12 * 12:   *)
(* no position holds more than 3 units, so three purchases leave every     *)
(* average exact.  With a tolerance a lane may believe to hold up to 8     *)
(* units; 840 is a multiple of 1 to 8, and the first average is a price.   *)
(***************************************************************************)
EXTENDS SharedSymbol

CONSTANTS b1, b2,
          Parts          \* the parts to explore

VARIABLES part,
          \* the risk gate, and the one with a lane a day behind
          clock, gateLane, realised, rejectedAt, verdict, trades, gateRestarts,
          lagClock, lagLane, lagRealised, lagRejectedAt, lagVerdict, lagTrades, lagRestarts,
          \* the inventory
          invLane, record, booting, fills, torn, invRestarts, held, cash, off, feesPaid,
          memory

gateVars == <<clock, gateLane, realised, rejectedAt, verdict, trades, gateRestarts>>
lagVars == <<lagClock, lagLane, lagRealised, lagRejectedAt, lagVerdict, lagTrades,
             lagRestarts>>
invVars == <<invLane, record, booting, fills, torn, invRestarts, held, cash, off,
             feesPaid, memory>>

OneMinute == "one_minute"
OneDay == "one_day"
Other == "other"
TwoLanes == {OneMinute, OneDay}
ThreeLanes == {OneMinute, OneDay, Other}
SharedAccount == [l \in ThreeLanes |-> IF l = Other THEN "b" ELSE "a"]
LossLimits == [l \in ThreeLanes |-> IF l = OneDay THEN 2 ELSE 3]
OnePosition == [l \in ThreeLanes |-> 1]
TwoPositions == [l \in ThreeLanes |-> 2]
InStep == [l \in ThreeLanes |-> 0]
Behind == [l \in ThreeLanes |-> IF l = OneDay THEN 1 ELSE 0]

Gate == INSTANCE RiskGate WITH
    Lanes <- TwoLanes, AccountOf <- SharedAccount, DailyLimit <- LossLimits,
    PositionLimit <- TwoPositions, Age <- InStep, Cooldown <- 1, DayLength <- 2,
    MaxTime <- 3, MaxTrades <- 4, MaxRestarts <- 0,
    lane <- gateLane, restarts <- gateRestarts

Lagging == INSTANCE RiskGate WITH
    Lanes <- ThreeLanes, AccountOf <- SharedAccount, DailyLimit <- LossLimits,
    PositionLimit <- OnePosition, Age <- Behind, Cooldown <- 2, DayLength <- 2,
    MaxTime <- 2, MaxTrades <- 2, MaxRestarts <- 1,
    clock <- lagClock, lane <- lagLane, realised <- lagRealised,
    rejectedAt <- lagRejectedAt, verdict <- lagVerdict, trades <- lagTrades,
    restarts <- lagRestarts

\* The extended SharedSymbol: one bot, b1, whose position is closed by hand, next to
\* trades made elsewhere.
SaleFaults == {"sell"} \X {"unanswered", "order_only", "no_row"}

\* What an older version may have left: the account's whole position booked to
\* a bot by a reconciliation, and a requested close.
OldRows ==
    {[here |-> TRUE, has |-> TRUE, qty |-> 1, priced |-> FALSE, reason |-> "reconciliation_sync"],
     [here |-> TRUE, has |-> FALSE, qty |-> 0, priced |-> FALSE, reason |-> "close_requested"]}

\* The same symbol traded by two bots, b1 and b2, whose purchases may go wrong, over
\* restarts.  Nothing tells the two apart: what holds of b1 holds of b2.
Restarts == INSTANCE SharedSymbol WITH
    Bots <- {b1, b2}, Closers <- {}, External <- FALSE, LegacyRows <- OldRows,
    Faults <- {"buy"} \X {"unanswered", "resting", "order_only", "no_row"},
    MaxShares <- 2, MaxRows <- 2, MaxOther <- 0, MaxBars <- 1

Books == INSTANCE LaneInventory WITH
    Quantities <- {1, 2}, Prices <- {1728, 3456}, Fees <- {1728},
    Tolerance <- 0, Share <- 1, MaxQuantity <- 3, MaxFills <- 3, MaxTorn <- 1,
    MaxRestarts <- 1, lane <- invLane, restarts <- invRestarts

Tolerant == INSTANCE LaneInventory WITH
    Quantities <- {1, 2, 3}, Prices <- {840 * 840, 2 * 840 * 840}, Fees <- {0},
    Tolerance <- 1, Share <- 4, MaxQuantity <- 4, MaxFills <- 3, MaxTorn <- 1,
    MaxRestarts <- 1, lane <- invLane, restarts <- invRestarts

ASSUME PositionsConstants ==
    /\ Gate!LimitsOK /\ Gate!TimeOK /\ Lagging!LimitsOK /\ Lagging!TimeOK
    /\ Scanned /\ Restarts!Scanned
    /\ Books!ConstantsOK /\ Tolerant!ConstantsOK

MCInit ==
    /\ part \in Parts
    /\ Gate!Init
    /\ Lagging!Init
    /\ IF part = "restarts" THEN Restarts!Init ELSE Init
    /\ Books!Init

MCNext ==
    /\ UNCHANGED part
    /\ \/ part = "in_step" /\ Gate!Next /\ UNCHANGED <<lagVars, vars, invVars>>
       \/ part = "day_behind" /\ Lagging!Next /\ UNCHANGED <<gateVars, vars, invVars>>
       \/ part = "restarts" /\ Restarts!Next /\ UNCHANGED <<gateVars, lagVars, invVars>>
       \/ part = "closes" /\ Next /\ UNCHANGED <<gateVars, lagVars, invVars>>
       \/ part = "books" /\ Books!Next /\ UNCHANGED <<gateVars, lagVars, vars>>
       \/ part = "tolerant" /\ Tolerant!Next /\ UNCHANGED <<gateVars, lagVars, vars>>

MCVars == <<part, vars, gateVars, lagVars, invVars>>

MCSpec == MCInit /\ [][MCNext]_MCVars
-----------------------------------------------------------------------------
\* Entries stop when the account's loss of the day has reached a lane's limit
\* (RiskGate!EntriesStopAtLimit); and they are refused for losses only when the
\* account lost that much on the date of the bar, though lanes lie a day apart and
\* the process restarts (RiskGate!RefusalIsJust).
LossLimitIsExact ==
    /\ part = "in_step" => Gate!EntriesStopAtLimit
    /\ part = "day_behind" => Lagging!RefusalIsJust

\* A lane whose order was refused enters nothing for the cooldown after the latest
\* rejection, less the age of its bars, with lanes in step and with one a day behind
\* (RiskGate!CooldownIsServed).
CooldownIsServed == Gate!CooldownIsServed /\ Lagging!CooldownIsServed

\* The profit a lane reports is what its fills brought in less what they cost, plus
\* the cost of the lot in hand (LaneInventory!BooksBalance), with exact quantities
\* and with a tolerance.
BooksBalance ==
    /\ part = "books" => Books!BooksBalance
    /\ part = "tolerant" => Tolerant!BooksBalance
=============================================================================
