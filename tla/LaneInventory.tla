---------------------------- MODULE LaneInventory ----------------------------
(***************************************************************************)
(* The books of one lane: its inventory (a lot with an average cost, and   *)
(* the profit realized), the fields of the lane that repeat it, and the    *)
(* position records from which a restart recovers both.                    *)
(*                                                                         *)
(* Everything that moves them is here: fills of entries and exits, with    *)
(* and without a known entry price, the manual close taking over the       *)
(* quantity the venue shows, a reconciliation, and a restart.  How a fill  *)
(* comes about is LaneCycle's subject, and which record a reconciliation   *)
(* looks at is SharedSymbol's; the notional of a position is AccountLedger's. *)
(*                                                                         *)
(* Quantities are multiples of a small unit and money of another one; the  *)
(* code's f64::EPSILON is below one unit and its tolerance of 1e-9 is      *)
(* Tolerance units.  Prices and fees are given as multiples large enough   *)
(* for every average to be exact.  A price of 0 stands for None.           *)
(***************************************************************************)
EXTENDS Integers

CONSTANTS
    Quantities,   \* quantities of fills
    Prices, Fees, \* fill prices and fees (normalized to dollars)
    Tolerance,    \* POSITION_QUANTITY_TOLERANCE and LEDGER_VALUE_TOLERANCE
    Share,        \* a quantity of 1.0
    MaxQuantity, MaxFills, MaxTorn, MaxRestarts   \* bounds of the model

ConstantsOK ==
    /\ Quantities \subseteq Nat \ {0} /\ Prices \subseteq Nat \ {0} /\ Fees \subseteq Nat
    /\ {Tolerance, MaxQuantity, MaxFills, MaxTorn, MaxRestarts} \subseteq Nat
    /\ Share \in Nat \ {0}

VARIABLES
    lane,      \* [has, qty, entry, realized, inv, marked]
    record,    \* the latest position record, or NoRecord
    booting,   \* the lane was built anew and waits for its reconciliation
    fills, torn, restarts,   \* counters of the bounds
    held,      \* history: what the venue holds of the symbol
    cash,      \* history: what the lane's fills brought in, less what they cost
    off,       \* history: value that came or went without being booked
    feesPaid,  \* history: the fees of all the lane's sales
    memory     \* history: does the journal know what the lane knows?

vars == <<lane, record, booting, fills, torn, restarts, held, cash, off, feesPaid, memory>>

NoLot == [qty |-> 0, avg |-> 0]
NoRecord == [has |-> FALSE, qty |-> 0, entry |-> 0, realized |-> 0]

-----------------------------------------------------------------------------
\* InventoryState.

\* The inventory is rebuilt from the lane's fields: the lot needs a quantity
\* and a price, and the profit so far becomes gross and net profit alike.
FromPositionState(qty, entry, realized) ==
    [lot |-> IF qty > Tolerance /\ entry > 0 THEN [qty |-> qty, avg |-> entry] ELSE NoLot,
     gross |-> realized, fees |-> 0, net |-> realized]

\* Mutant: the fee of a purchase is not part of its cost.
BoughtWithoutFee(inv, q, p, fee) ==
    LET next == inv.lot.qty + q
    IN [inv EXCEPT !.lot = [qty |-> next,
                            avg |-> (inv.lot.qty * inv.lot.avg + q * p) \div next]]

Bought(inv, q, p, fee) ==
    LET next == inv.lot.qty + q
    IN [inv EXCEPT !.lot = [qty |-> next,
                            avg |-> (inv.lot.qty * inv.lot.avg + q * p + fee) \div next]]

Sold(inv, q, p, fee) ==
    LET gross == (p - inv.lot.avg) * q
        rest == inv.lot.qty - q
    IN [lot |-> IF rest <= Tolerance THEN NoLot ELSE [inv.lot EXCEPT !.qty = rest],
        gross |-> inv.gross + gross,
        fees |-> inv.fees + fee,
        net |-> inv.net + gross - fee]

-----------------------------------------------------------------------------
\* The lane's fields and the inventory.

SyncInventory(ln) ==
    [ln EXCEPT !.inv = FromPositionState(ln.qty, ln.entry, ln.realized)]

\* sync_runtime_fields_from_inventory, after a fill was applied to the
\* inventory; marked is the anomaly recorded in recovery_last_error.
SyncRuntime(ln) ==
    [ln EXCEPT !.qty = ln.inv.lot.qty,
               !.has = ln.inv.lot.qty > Tolerance,
               !.entry = ln.inv.lot.avg,
               !.realized = ln.inv.net,
               !.marked = @ \/ (ln.has /\ ln.inv.lot.qty <= Tolerance /\ ln.qty <= Tolerance)]

EffectiveQuantity(ln) ==
    IF ln.inv.lot.qty > Tolerance THEN ln.inv.lot.qty
    ELSE IF ln.qty > Tolerance THEN ln.qty ELSE 0

\* sync_remote_position_quantity: the lane takes over the venue's quantity and
\* keeps its entry price, if it has one.
SyncRemote(ln, remote) ==
    LET has == remote > Tolerance
        local == EffectiveQuantity(ln)
        differs == local > remote + Tolerance \/ remote > local + Tolerance
    IN IF ln.has = has /\ ~differs THEN ln
       ELSE SyncInventory([ln EXCEPT !.has = has, !.qty = remote,
                                     !.entry = IF has THEN @ ELSE 0])

\* Without a known cost the position so far is valued at the price of the
\* fill, and the fee is left out.
OpenUnpriced(ln, q, p) ==
    LET prev == EffectiveQuantity(ln)
        value == prev * (IF ln.entry > 0 THEN ln.entry ELSE p) + q * p
    IN SyncInventory([ln EXCEPT !.has = TRUE, !.qty = prev + q,
                                !.entry = value \div (prev + q)])

\* Without a known cost a sale realizes nothing.
CloseUnpriced(ln, q) ==
    LET rest == EffectiveQuantity(ln) - q
    IN SyncInventory([ln EXCEPT !.has = rest > 0, !.qty = rest,
                                !.entry = IF rest > 0 THEN @ ELSE 0])

-----------------------------------------------------------------------------
\* What the lane's lot has cost, and whether its quantity backs has_position.
Value(ln) == ln.inv.lot.qty * ln.inv.lot.avg
Consistent(ln) == ln.has => EffectiveQuantity(ln) > 0

RecordOf(ln) == [has |-> ln.has, qty |-> EffectiveQuantity(ln), entry |-> ln.entry,
                 realized |-> ln.realized]

\* The position record of the lane's new state is written, or its write fails
\* after the lane has moved.
AppendPositionRecord(ln) ==
    \/ /\ record' = RecordOf(ln)
       /\ memory' = IF memory = "lost" THEN "lost" ELSE "kept"
       /\ UNCHANGED torn
    \/ /\ torn < MaxTorn /\ torn' = torn + 1
       /\ memory' = IF memory = "lost" THEN "lost" ELSE "torn"
       /\ UNCHANGED record

\* apply_fill refuses a quantity within the tolerance: the venue has traded,
\* the lane is only synced, and nothing is recorded.
RefuseFill(synced) ==
    /\ lane' = synced /\ memory' = "lost"
    /\ UNCHANGED <<record, torn, off>>

MayFill(delta) ==
    /\ ~booting /\ fills < MaxFills /\ fills' = fills + 1
    /\ held + delta \in 0..MaxQuantity /\ held' = held + delta
    /\ UNCHANGED <<booting, restarts>>

\* An entry or an addition is filled.
OpenFill(q, p, fee) ==
    LET synced == SyncInventory(lane)
        prev == EffectiveQuantity(lane)
        usesLot == synced.inv.lot # NoLot \/ prev = 0
    IN /\ MayFill(q)
       /\ cash' = cash - q * p - fee
       /\ UNCHANGED feesPaid
       /\ \/ /\ usesLot /\ q > Tolerance
             /\ lane' = SyncRuntime([synced EXCEPT !.inv = Bought(@, q, p, fee)])
             /\ AppendPositionRecord(lane') /\ UNCHANGED off
          \/ usesLot /\ q <= Tolerance /\ RefuseFill(synced)
          \/ /\ ~usesLot
             /\ lane' = OpenUnpriced(lane, q, p)
             /\ AppendPositionRecord(lane') /\ off' = off + prev * p - fee

\* An exit or a reduction is filled; the order was for at most what the lane
\* holds.
CloseFill(q, p, fee) ==
    LET synced == SyncInventory(lane)
        lot == synced.inv.lot
    IN /\ q <= EffectiveQuantity(lane)
       /\ MayFill(-q)
       /\ cash' = cash + q * p - fee
       /\ feesPaid' = feesPaid + fee
       /\ \/ /\ lot # NoLot /\ q > Tolerance
             /\ lane' = SyncRuntime([synced EXCEPT !.inv = Sold(@, q, p, fee)])
             /\ AppendPositionRecord(lane')
             /\ off' = off - (IF lot.qty - q <= Tolerance THEN (lot.qty - q) * lot.avg ELSE 0)
          \/ lot # NoLot /\ q <= Tolerance /\ RefuseFill(synced)
          \/ /\ lot = NoLot
             /\ lane' = CloseUnpriced(lane, q)
             /\ AppendPositionRecord(lane') /\ off' = off + q * p - fee

\* Somebody else buys into the account.
ExternalBuy(q) ==
    /\ held + q <= MaxQuantity /\ held' = held + q
    /\ UNCHANGED <<lane, record, booting, fills, torn, restarts, cash, off, feesPaid, memory>>

\* The first half of a manual close: the lane takes over what the venue holds.
ManualCloseSync ==
    /\ ~booting
    /\ lane' = SyncRemote(lane, held)
    /\ off' = off + Value(lane') - Value(lane)
    /\ IF lane' = lane THEN UNCHANGED <<record, torn, memory>> ELSE AppendPositionRecord(lane')
    /\ UNCHANGED <<booting, fills, restarts, held, cash, feesPaid>>

\* The quantity of the lane's memory, or else the record's, or else one share
\* for a record of a position without a quantity.
ResolvedQuantity ==
    IF lane.qty > Tolerance THEN lane.qty
    ELSE IF record.qty > Tolerance THEN record.qty
    ELSE IF record.has THEN Share ELSE 0

ResolvedEntry(qty) == IF qty > Tolerance /\ record.has THEN record.entry ELSE 0

\* The profit is taken from the record when the venue can be asked.
RealizedAfter(available) ==
    IF available /\ record # NoRecord THEN record.realized ELSE lane.realized

\* A reconciliation, by hand or after a restart.
Reconcile(available) ==
    LET qty == ResolvedQuantity
    IN /\ lane' = SyncInventory([lane EXCEPT !.has = qty > Tolerance, !.qty = qty,
                                             !.entry = ResolvedEntry(qty),
                                             !.realized = RealizedAfter(available)])
       /\ booting' = (booting /\ ~available)
       /\ memory' = IF memory = "torn" THEN "lost" ELSE memory
       /\ UNCHANGED <<record, fills, torn, restarts, held, cash, off, feesPaid>>

\* build_lane_runtime: a flat lane with the profit of its latest record.
BuildLane(realized) ==
    [has |-> FALSE, qty |-> 0, entry |-> 0, realized |-> realized,
     inv |-> FromPositionState(0, 0, realized), marked |-> FALSE]

Restart ==
    /\ restarts < MaxRestarts /\ restarts' = restarts + 1
    /\ lane' = BuildLane(record.realized)
    /\ booting' = TRUE
    /\ memory' = IF memory = "torn" THEN "lost" ELSE memory
    /\ UNCHANGED <<record, fills, torn, held, cash, off, feesPaid>>

-----------------------------------------------------------------------------
Init ==
    /\ lane = BuildLane(0) /\ record = NoRecord /\ booting = FALSE
    /\ fills = 0 /\ torn = 0 /\ restarts = 0
    /\ held = 0 /\ cash = 0 /\ off = 0 /\ feesPaid = 0 /\ memory = "kept"

Next ==
    \/ \E q \in Quantities, p \in Prices, fee \in Fees: OpenFill(q, p, fee) \/ CloseFill(q, p, fee)
    \/ \E q \in Quantities: ExternalBuy(q)
    \/ ManualCloseSync
    \/ \E available \in BOOLEAN: Reconcile(available)
    \/ Restart

Spec == Init /\ [][Next]_vars

-----------------------------------------------------------------------------
\* The shape of the state.
TypeOK ==
    /\ lane.has \in BOOLEAN /\ lane.marked \in BOOLEAN
    /\ {lane.qty, lane.entry, lane.inv.lot.qty, lane.inv.lot.avg} \subseteq Nat
    /\ {lane.realized, lane.inv.gross, lane.inv.fees, lane.inv.net} \subseteq Int
    /\ record.has \in BOOLEAN /\ {record.qty, record.entry} \subseteq Nat
    /\ held \in 0..MaxQuantity /\ memory \in {"kept", "torn", "lost"}

\* The books balance: the profit the lane reports is what its fills brought in
\* less what they cost, plus what the lot still in hand has cost, apart from
\* the value that came or went outside of the books.  Neither a partial fill,
\* a fee, a restart nor a reconciliation changes that, unless a record is
\* lost (apply_fill, recovered_realized_pnl_by_lane and
\* apply_reconciliation_assessment_state together).
BooksBalance ==
    ~booting /\ memory # "lost" => lane.realized = cash + Value(lane) - off

\* The inventory and the fields that repeat it move in lockstep: reports read
\* the one, position records and sizing the other.
InventoryMirrorsFields ==
    /\ lane.inv.net = lane.realized
    /\ lane.inv.net = lane.inv.gross - lane.inv.fees
    /\ lane.inv.lot # NoLot =>
          lane.has /\ lane.inv.lot = [qty |-> lane.qty, avg |-> lane.entry]

\* The lane never believes to hold more than the account does, through
\* unpriced positions, manual closes and restarts alike.
QuantityIsHeld ==
    ~booting /\ memory # "lost" => EffectiveQuantity(lane) <= held

\* has_position means that there is a quantity.
PositionHasQuantity == Consistent(lane)

\* The fees reported are the fees of all sales since the lane was built.
FeesAccumulate == restarts = 0 => lane.inv.fees = feesPaid

\* A lane that claims a position without a quantity is marked when the next
\* fill is synced.
AnomalyIsMarked ==
    [][\A q \in Quantities, p \in Prices, fee \in Fees:
          OpenFill(q, p, fee) /\ q > Tolerance /\ ~Consistent(lane) => lane'.marked]_vars

=============================================================================
