--------------------------- MODULE AccountLedger ---------------------------
(***************************************************************************)
(* The capital ledger of one account (openticker-ledger, AccountLedger):   *)
(* how much of the account is open or reserved on behalf of each lane, and *)
(* how much room is left for a bot to open more.  The ledger is a value,   *)
(* and every method of the code is an operator from ledgers to ledgers or  *)
(* to amounts; the modules that hold a ledger in a variable apply them.    *)
(*                                                                         *)
(* Amounts are natural numbers of a small currency unit, so the tolerance  *)
(* of the code (values within 1e-9 of zero are dropped) is equality with   *)
(* zero, and a bot's percentage of the cap is rounded down to the unit.    *)
(***************************************************************************)
EXTENDS Integers, FiniteSets, Functions

CONSTANTS
    Lanes,          \* the lanes that trade on the account
    Bots,           \* the bots that own them
    BotOf,          \* the bot of each lane
    DeclaredTotal,  \* the account's declared total, in currency units
    BudgetPct,      \* the percentage of the account granted to each bot
    NoBalance       \* no live balance has been fetched yet

ASSUME LedgerAssumption ==
    /\ IsFiniteSet(Lanes)
    /\ BotOf \in [Lanes -> Bots]
    /\ DeclaredTotal \in Nat
    /\ BudgetPct \in [Bots -> 0..100]
    /\ NoBalance \notin Nat

Ledger == [open: [Lanes -> Nat], reserved: [Lanes -> Nat],
           live: Nat \cup {NoBalance}, blocked: BOOLEAN]

NewLedger == [open |-> [l \in Lanes |-> 0], reserved |-> [l \in Lanes |-> 0],
              live |-> NoBalance, blocked |-> FALSE]

AtLeastZero(n) == IF n \in Nat THEN n ELSE 0

Lesser(m, n) == IF m <= n THEN m ELSE n

Total(f, S) == SumFunctionOnSet(f, S)

LanesOfBot(b) == {l \in Lanes: BotOf[l] = b}
-----------------------------------------------------------------------------
(***************************************************************************)
(* The room that is left.                                                  *)
(***************************************************************************)
EffectiveCap(led) ==
    IF led.live = NoBalance THEN DeclaredTotal ELSE Lesser(DeclaredTotal, led.live)

BotAllocated(led, b) == (EffectiveCap(led) * BudgetPct[b]) \div 100

BotCommitted(led, b) ==
    Total(led.open, LanesOfBot(b)) + Total(led.reserved, LanesOfBot(b))

TotalCommitted(led) == Total(led.open, Lanes) + Total(led.reserved, Lanes)

AccountAvailable(led) == AtLeastZero(EffectiveCap(led) - TotalCommitted(led))

AccountTradeable(led) ==
    IF led.blocked THEN 0 ELSE AccountAvailable(led)

BotAvailable(led, b) == AtLeastZero(BotAllocated(led, b) - BotCommitted(led, b))

BotTradeable(led, b) == Lesser(BotAvailable(led, b), AccountTradeable(led))
-----------------------------------------------------------------------------
(***************************************************************************)
(* The methods that change a ledger.  A release is clamped at zero, as     *)
(* adjust_owner_notional clamps it.                                        *)
(***************************************************************************)
CanReserve(led, l, n) == n <= BotTradeable(led, BotOf[l])

Reserve(led, l, n) == [led EXCEPT !.reserved[l] = @ + n]

ReleaseReservation(led, l, n) == [led EXCEPT !.reserved[l] = AtLeastZero(@ - n)]

ReconcileOpenFill(led, l, filled, held) ==
    [ReleaseReservation(led, l, held) EXCEPT !.open[l] = @ + filled]

ReleasePosition(led, l, n) == [led EXCEPT !.open[l] = AtLeastZero(@ - n)]

\* What the lanes hold replaces what the ledger attributed to them.
SyncFromLanes(led, notional) == [led EXCEPT !.open = notional]

\* A connector snapshot also replaces the balance and the exceptions.
RefreshFromSnapshot(led, notional, balance, deficit) ==
    [SyncFromLanes(led, notional) EXCEPT !.live = balance, !.blocked = deficit]
=============================================================================
