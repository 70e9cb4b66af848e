---------------------------- MODULE OrderSizing ----------------------------
(***************************************************************************)
(* From a strategy's intent to an order quantity and a risk decision:      *)
(* resolve_order_quantity_with_constraints (openticker-execution) and      *)
(* BasicRiskPolicy (openticker-risk) with the ledger outcome's override.   *)
(*                                                                         *)
(* Quantities are natural numbers of the finest lot a connector accepts;   *)
(* the tradable quantity is a multiple of QuantityStep lots.  Prices are   *)
(* positive naturals, so the checks for non-finite values never fire.      *)
(***************************************************************************)
EXTENDS Integers

CONSTANTS
    OrderTarget,      \* target notional of an entry, capped by max_order_notional_usd
    MaxOrderNotional, \* RiskLimits.max_order_notional_usd
    MaxOpenPositions, \* RiskLimits.max_open_positions, over the account
    QuantityStep,     \* execution constraint: quantities are multiples of it
    MinQuantity,      \* execution constraint: smallest quantity
    MinNotional       \* execution constraint: smallest notional of an entry

ASSUME SizingAssumption ==
    /\ OrderTarget \in Nat
    /\ MaxOrderNotional \in Nat
    /\ MaxOpenPositions \in Nat
    /\ QuantityStep \in Nat \ {0}
    /\ MinQuantity \in Nat
    /\ MinNotional \in Nat

Entries == {"OpenLong", "AddLong"}
Intents == Entries \cup {"CloseLong", "NoOp"}
Outcomes == {"none", "bot_exhausted", "account_exhausted", "dust"}

Smaller(m, n) == IF m <= n THEN m ELSE n

FloorToStep(q) == (q \div QuantityStep) * QuantityStep

\* The notional an entry asks for, before it is turned into a quantity.
DesiredNotional(botRoom, accountRoom) ==
    Smaller(Smaller(Smaller(OrderTarget, MaxOrderNotional), botRoom), accountRoom)

RawQuantity(intent, price, held, botRoom, accountRoom) ==
    CASE intent \in Entries -> DesiredNotional(botRoom, accountRoom) \div price
      [] intent = "CloseLong" -> held
      [] OTHER -> 0

\* A close below the minimum notional still goes out; an entry does not.
ApplyExecutionConstraints(intent, price, q) ==
    LET stepped == FloorToStep(q)
    IN  IF \/ stepped < MinQuantity
           \/ intent \in Entries /\ stepped * price < MinNotional
        THEN 0 ELSE stepped

(***************************************************************************)
(* An entry that finds no room at all is exhausted; one whose room is too  *)
(* small for the exchange's minimums is dust.                              *)
(***************************************************************************)
ResolveOrderQuantity(intent, price, held, botRoom, accountRoom) ==
    LET raw == RawQuantity(intent, price, held, botRoom, accountRoom)
        qty == ApplyExecutionConstraints(intent, price, raw)
        exhausted == /\ intent \in Entries
                     /\ Smaller(OrderTarget, MaxOrderNotional) > 0
                     /\ DesiredNotional(botRoom, accountRoom) = 0
    IN  [qty |-> qty,
         outcome |-> CASE exhausted /\ botRoom = 0 -> "bot_exhausted"
                       [] exhausted /\ botRoom # 0 -> "account_exhausted"
                       [] /\ intent \in Entries
                          /\ DesiredNotional(botRoom, accountRoom) > 0
                          /\ qty = 0 -> "dust"
                       [] OTHER -> "none"]

(***************************************************************************)
(* The policy's checks in order, each an entry's only: `blocked' stands    *)
(* for the cooldown, stale data and daily loss checks, which look at state *)
(* outside the order.  Spread and slippage are constantly zero in the      *)
(* evaluation, so their checks never fire.                                 *)
(***************************************************************************)
PolicyAllows(intent, price, qty, blocked, openPositions) ==
    \/ intent = "NoOp"
    \/ /\ qty > 0
       /\ \/ intent \notin Entries
          \/ /\ ~blocked
             /\ price * qty <= MaxOrderNotional
             /\ openPositions < MaxOpenPositions

(***************************************************************************)
(* The decision: the intent that is allowed, or "Reject".  An exhausted    *)
(* ledger rejects whatever the policy said; dust becomes a no-op.          *)
(***************************************************************************)
RiskDecision(intent, price, resolved, blocked, openPositions) ==
    CASE resolved.outcome \in {"bot_exhausted", "account_exhausted"} -> "Reject"
      [] resolved.outcome = "dust" -> "NoOp"
      [] /\ resolved.outcome = "none"
         /\ PolicyAllows(intent, price, resolved.qty, blocked, openPositions) -> intent
      [] OTHER -> "Reject"
=============================================================================
