----------------------------- MODULE SharedSymbol -----------------------------
(***************************************************************************)
(* One symbol of one account, traded by the lanes of several bots.  The    *)
(* venue knows a single position per symbol; which bot holds how much of   *)
(* it is known only to the lanes and to the position records of the        *)
(* journal.  The module models what moves that knowledge: trades,          *)
(* reconciliation (startup and manual), the operator's manual close, the   *)
(* refresh of the account ledger, and a restart, which forgets the lanes.  *)
(* LaneCycle has the steps of a trade and Lifecycle those of a lane's      *)
(* state; here a trade is one step with every way it can end.              *)
(***************************************************************************)
EXTENDS Integers, Sequences, FiniteSets, FiniteSetsExt

CONSTANTS
    Bots,            \* the bots whose lanes trade the symbol in the account
    Closers,         \* the bots whose position the operator closes by hand
    RemoteSnapshot,  \* the account's reconciliation_remote_snapshot
    External,        \* shares are also traded outside of OpenTicker
    Faults,          \* <<side, ending>>: the ways a trade may go wrong
    LegacyRows,      \* position rows an older version may have left
    ScanLimit,       \* RECONCILIATION_JOURNAL_SCAN_LIMIT
    MaxShares, MaxOrders, MaxRows, MaxOther, MaxBars, MaxRestarts, MaxFaults  \* bounds of the model

Endings == {"unanswered", "resting", "order_only", "no_row"}

ConstantsOK ==
    /\ Closers \subseteq Bots
    /\ RemoteSnapshot \in BOOLEAN /\ External \in BOOLEAN
    /\ Faults \subseteq {"buy", "sell"} \X Endings
    /\ {ScanLimit, MaxShares, MaxOrders, MaxRows, MaxOther, MaxBars, MaxRestarts,
        MaxFaults} \subseteq Nat

VARIABLES
    venue,     \* shares the account holds, and the ids of its open orders
    lane,      \* per bot: runtime state, quantity, entry price known?, blocked
    rows,      \* per bot: its position records, of this and other symbols
    orders,    \* order records: bot, id, and whether a fill record exists
    blocksNewOpens,  \* the account ledger holds a blocking exception
    recon,     \* the reconciliation in progress
    bar,       \* the newest bar of the market
    closes,    \* cycle traces of manual closes: <<bot, bar>>
    restarts, faults,
    owned,     \* history: shares each bot has bought and not sold
    trusted,   \* history: may the lane's memory differ from the journal?
    reported   \* history: the answer to the last manual close

vars == <<venue, lane, rows, orders, blocksNewOpens, recon, bar, closes,
          restarts, faults, owned, trusted, reported>>

Reasons == {"order_filled", "close_positions_sync", "managed_state_refresh",
            "reconciliation_sync", "close_requested"}
Rows == [here: BOOLEAN, has: BOOLEAN, qty: 0..MaxShares, priced: BOOLEAN,
         reason: Reasons]
OrderIds == Bots \X (1..MaxOrders)   \* <<b, 0>> is the id of a cancel request
States == {"running", "paused", "reconciling"}

NoRow == [here |-> TRUE, has |-> FALSE, qty |-> 0, priced |-> FALSE,
          reason |-> "order_filled"]
Idle == [at |-> "idle"]

TypeOK ==
    /\ venue \in [qty: 0..MaxShares, open: SUBSET OrderIds]
    /\ lane \in [Bots -> [state: States, qty: 0..MaxShares, priced: BOOLEAN,
                          blocked: BOOLEAN, booting: BOOLEAN, resume: BOOLEAN]]
    /\ \A b \in Bots: Len(rows[b]) <= MaxRows /\ Range(rows[b]) \subseteq Rows
    /\ \A o \in orders: o.bot \in Bots /\ o.filled \in BOOLEAN
    /\ blocksNewOpens \in BOOLEAN
    /\ bar \in 1..MaxBars /\ closes \subseteq Bots \X (1..MaxBars)
    /\ owned \in [Bots -> -MaxShares..MaxShares]
    /\ trusted \in [Bots -> {"yes", "torn", "restarted"}]

(***************************************************************************)
(* Position records.  Rows with the reason "close_requested" or one that   *)
(* ends in "_reconciliation_sync" do not count; only the newest ScanLimit  *)
(* rows of the bot, of all of its symbols, are looked at.                  *)
(***************************************************************************)

Authoritative(row) == row.reason \notin {"close_requested", "reconciliation_sync"}

\* What keeps the records within reach of a scan: a bot has at most ScanLimit rows, and
\* those an older version left do not count.
Scanned ==
    /\ ConstantsOK
    /\ MaxRows <= ScanLimit /\ ScanLimit > 0
    /\ LegacyRows \subseteq {row \in Rows : ~Authoritative(row)}

AuthoritativeIn(rs, from) ==
    LET found == {i \in DOMAIN rs : i > from /\ rs[i].here /\ Authoritative(rs[i])}
    IN  IF found = {} THEN NoRow ELSE rs[Max(found)]

LatestAuthoritative(rs) == AuthoritativeIn(rs, Len(rs) - ScanLimit)

\* latest_position_for_lane: the newest row of the symbol, whatever its reason.
LatestRaw(rs) ==
    LET found == {i \in DOMAIN rs : rs[i].here}
    IN  IF found = {} THEN NoRow ELSE rs[Max(found)]

AuthoritativeQuantity(row) == IF row.qty > 0 THEN row.qty ELSE IF row.has THEN 1 ELSE 0

\* account_symbol_exposure: what the journal says the bots hold together.
AggregateManaged(rws) ==
    MapThenSumSet(LAMBDA b: AuthoritativeQuantity(LatestAuthoritative(rws[b])), Bots)

(***************************************************************************)
(* Open orders.  A remote order with no local record is external; one that *)
(* matches the records of a single bot is that bot's; any other is unsafe. *)
(***************************************************************************)
Matches(os, id) == {o.bot : o \in {p \in os : p.id = id}}
ManagedOrders(os, open, b) == {id \in open : Matches(os, id) = {b}}
UnsafeOrders(os, open) == {id \in open : Cardinality(Matches(os, id)) > 1}

LocalOpenOrders(os, b) ==
    {o.id : o \in {p \in os : p.bot = b /\ ~p.filled /\ p.status # "cancel_requested"}}

\* The exceptions a refresh from a snapshot leaves in the account ledger.
BlockingExceptions(rws, os, snapshot) ==
    /\ RemoteSnapshot
    /\ \/ AggregateManaged(rws) > snapshot.qty
       \/ UnsafeOrders(os, snapshot.open) # {}

(***************************************************************************)
(* reconciliation_assessment_summary.  The lane's own quantity goes first, *)
(* then the journal's; the venue's quantity only leads to warnings.        *)
(***************************************************************************)
AssessmentSummary(qty, latest, stale, unsafe, reachable) ==
    LET resolved == IF qty > 0 THEN qty ELSE AuthoritativeQuantity(latest)
    IN  [qty |-> resolved,
         priced |-> resolved > 0 /\ latest.has /\ latest.priced,
         stale |-> stale,
         safe |-> reachable /\ unsafe = {}]

\* Whether a snapshot of the account can be fetched; nothing else is certain.
SnapshotOutcomes == BOOLEAN

\* What an assessment of b's lane reads of the journal and of the snapshot.
Assessed(b, available, qty, latest) ==
    LET open == IF RemoteSnapshot /\ available THEN venue.open ELSE {}
    IN  [summary |-> AssessmentSummary(qty, latest,
                         LocalOpenOrders(orders, b) \ ManagedOrders(orders, open, b),
                         UnsafeOrders(orders, open), available \/ ~RemoteSnapshot),
         available |-> RemoteSnapshot /\ available,
         snapshot |-> venue]

\* Mutant: the journal is not asked.
AssessFromMemory(b, available) == Assessed(b, available, lane[b].qty, NoRow)

Assess(b, available) == Assessed(b, available, lane[b].qty, LatestAuthoritative(rows[b]))

----------------------------------------------------------------------------
Quiet == recon = Idle /\ \A b \in Bots: ~lane[b].booting
HasRoom(b) == Len(rows[b]) < MaxRows
Row(qty, priced, reason) ==
    [here |-> TRUE, has |-> qty > 0, qty |-> qty, priced |-> priced, reason |-> reason]

Init ==
    /\ venue = [qty |-> 0, open |-> {}]
    /\ lane = [b \in Bots |-> [state |-> "paused", qty |-> 0, priced |-> FALSE,
                               blocked |-> FALSE, booting |-> FALSE, resume |-> FALSE]]
    /\ rows \in [Bots -> {<<>>} \cup {<<row>> : row \in LegacyRows}]
    /\ orders = {} /\ blocksNewOpens = FALSE /\ recon = Idle
    /\ bar = 1 /\ closes = {} /\ restarts = 0 /\ faults = 0
    /\ owned = [b \in Bots |-> 0]
    /\ trusted = [b \in Bots |-> "yes"]
    /\ reported = "none"

(***************************************************************************)
(* Trades.  An order that is answered is recorded with its fill, the lane  *)
(* moves and a position row is written.  Otherwise: the answer is lost;    *)
(* the order still rests at the venue when polling gives up; the journal   *)
(* fails after the order record; it fails after the lane has moved.        *)
(***************************************************************************)
NextId(b) ==
    LET used == {o.id : o \in orders} \cup venue.open
    IN  <<b, 1 + Cardinality(used \cap ({b} \X (1..MaxOrders)))>>

Order(b, filled) == [bot |-> b, id |-> NextId(b), filled |-> filled, status |-> "submitted"]

Executed(b, delta) ==
    /\ venue.qty + delta \in 0..MaxShares /\ owned[b] + delta \in -MaxShares..MaxShares
    /\ venue' = [venue EXCEPT !.qty = @ + delta]
    /\ owned' = [owned EXCEPT ![b] = @ + delta]

LaneMoves(b, ln, delta) ==
    [ln EXCEPT ![b].qty = @ + delta,
               ![b].priced = ln[b].qty + delta > 0 /\ (@ \/ delta > 0)]

Fails(side, ending) ==
    <<side, ending>> \in Faults /\ faults < MaxFaults /\ faults' = faults + 1

\* The ends of a trade of delta shares by b's lane; ln is the lanes before it
\* and rws the rows (a manual close has already touched both).
Trade(b, delta, ln, rws) ==
    LET side == IF delta > 0 THEN "buy" ELSE "sell"
        moved == LaneMoves(b, ln, delta)
    IN  /\ NextId(b) \in OrderIds
        /\ \/ /\ Len(rws[b]) < MaxRows /\ Executed(b, delta)
              /\ lane' = moved
              /\ rows' = [rws EXCEPT ![b] = Append(@, Row(moved[b].qty, moved[b].priced,
                                                           "order_filled"))]
              /\ orders' = orders \cup {Order(b, TRUE)}
              /\ trusted' = [trusted EXCEPT ![b] = "yes"] /\ UNCHANGED faults
           \/ /\ Fails(side, "unanswered") /\ Executed(b, delta)
              /\ lane' = ln /\ rows' = rws /\ UNCHANGED <<orders, trusted>>
           \/ /\ Fails(side, "resting")
              /\ venue' = [venue EXCEPT !.open = @ \cup {NextId(b)}]
              /\ lane' = ln /\ rows' = rws /\ UNCHANGED <<owned, orders, trusted>>
           \/ /\ Fails(side, "order_only") /\ Executed(b, delta)
              /\ orders' = orders \cup {Order(b, FALSE)}
              /\ lane' = ln /\ rows' = rws /\ UNCHANGED trusted
           \/ /\ Fails(side, "no_row") /\ Executed(b, delta)
              /\ lane' = moved
              /\ orders' = orders \cup {Order(b, TRUE)}
              /\ rows' = rws /\ trusted' = [trusted EXCEPT ![b] = "torn"]

Running(b) == Quiet /\ lane[b].state = "running"

Open(b) ==
    /\ Running(b) /\ lane[b].qty = 0 /\ ~blocksNewOpens
    /\ Trade(b, 1, lane, rows)
    /\ UNCHANGED <<blocksNewOpens, recon, bar, closes, restarts>>
    /\ reported' = "none"

Close(b) ==
    /\ Running(b) /\ lane[b].qty > 0
    /\ Trade(b, -lane[b].qty, lane, rows)
    /\ UNCHANGED <<blocksNewOpens, recon, bar, closes, restarts>>
    /\ reported' = "none"

\* A fill of another symbol of the same bot.
OtherSymbolFill(b) ==
    /\ Running(b) /\ HasRoom(b)
    /\ Cardinality({i \in DOMAIN rows[b] : ~rows[b][i].here}) < MaxOther
    /\ rows' = [rows EXCEPT ![b] = Append(@, [Row(0, FALSE, "order_filled") EXCEPT !.here = FALSE])]
    /\ UNCHANGED <<venue, lane, orders, blocksNewOpens, recon, bar, closes, restarts, faults,
                   owned, trusted>>
    /\ reported' = "none"

----------------------------------------------------------------------------
(***************************************************************************)
(* The manual close.  With a remote snapshot the lane first takes over the *)
(* whole quantity the venue shows for the symbol, and a row says so; the   *)
(* ledger is refreshed.  Then the newest bar is fetched and a sell signal  *)
(* at its close runs through the cycle, which skips it when a trace of the *)
(* same signal on the same bar exists.                                     *)
(***************************************************************************)

Adopt(b) ==
    IF ~RemoteSnapshot \/ lane[b].qty = venue.qty THEN [lane |-> lane, rows |-> rows]
    ELSE LET priced == lane[b].priced /\ venue.qty > 0
         IN  [lane |-> [lane EXCEPT ![b].qty = venue.qty, ![b].priced = priced],
              rows |-> [rows EXCEPT ![b] = Append(@, Row(venue.qty, priced,
                                                         "close_positions_sync"))]]

\* The sell signal in the cycle: traced when it ends well, an error otherwise.
SellSignal(b, delta, ln, rws) ==
    /\ Trade(b, delta, ln, rws)
    /\ IF rows' # rws
       THEN reported' = "submitted" /\ closes' = closes \cup {<<b, bar>>}
       ELSE reported' = "error" /\ UNCHANGED closes

ManualClose(b) ==
    LET a == Adopt(b)
        qty == a.lane[b].qty
        Keeps == /\ lane' = a.lane /\ rows' = a.rows
                 /\ trusted' = IF a.rows # rows THEN [trusted EXCEPT ![b] = "yes"] ELSE trusted
                 /\ UNCHANGED <<venue, owned, orders, faults>>
    IN  /\ Quiet /\ b \in Closers /\ HasRoom(b)
        /\ IF RemoteSnapshot
           THEN blocksNewOpens' = BlockingExceptions(a.rows, orders, venue)
           ELSE UNCHANGED blocksNewOpens
        /\ \/ qty = 0 /\ Keeps /\ reported' = "flat" /\ UNCHANGED closes
           \/ qty > 0 /\ Keeps /\ reported' = "error" /\ UNCHANGED closes
           \/ /\ qty > 0 /\ <<b, bar>> \in closes
              /\ Keeps /\ reported' = "flat" /\ UNCHANGED closes
           \/ /\ qty > 0 /\ <<b, bar>> \notin closes /\ lane[b].state = "running"
              /\ \/ SellSignal(b, -qty, a.lane, a.rows)
                 \/ /\ Keeps /\ reported' = "error"   \* the quantity rounds to nothing
                    /\ closes' = closes \cup {<<b, bar>>}
        /\ UNCHANGED <<recon, bar, restarts>>

\* cancel_open_orders only records the request.
CancelOpenOrders(b) ==
    /\ Quiet /\ b \in Closers
    /\ orders' = orders \cup {[bot |-> b, id |-> <<b, 0>>, filled |-> FALSE,
                               status |-> "cancel_requested"]}
    /\ UNCHANGED <<venue, lane, rows, blocksNewOpens, recon, bar, closes, restarts, faults,
                   owned, trusted>>
    /\ reported' = "none"

----------------------------------------------------------------------------
(***************************************************************************)
(* Reconciliation of a lane.  It assesses, writes what it corrects, and    *)
(* assesses again when it has written something: the venue may have moved  *)
(* in between.  Then it sets the lane and refreshes the ledger.            *)
(***************************************************************************)

ShouldRefresh(b, a) ==
    LET raw == LatestRaw(rows[b])
    IN  /\ raw.reason = "reconciliation_sync"
        /\ raw.qty # a.qty \/ raw.has # (a.qty > 0) \/ raw.priced # a.priced

BeginReconcile(b, source) ==
    /\ recon = Idle /\ HasRoom(b)
    /\ IF source = "startup" THEN lane[b].booting ELSE Quiet
    /\ lane' = [lane EXCEPT ![b].state = "reconciling"]
    /\ \E available \in SnapshotOutcomes:
         LET assessment == Assess(b, available)
             a == assessment.summary
             refresh == assessment.available /\ ShouldRefresh(b, a)
             stale == IF assessment.available THEN a.stale ELSE {}
         IN  /\ rows' = IF refresh
                        THEN [rows EXCEPT ![b] = Append(@, Row(a.qty, a.priced,
                                                               "managed_state_refresh"))]
                        ELSE rows
             /\ orders' = {IF o.bot = b /\ o.id \in stale
                           THEN [o EXCEPT !.filled = TRUE] ELSE o : o \in orders}
             /\ recon' = [at |-> "apply", bot |-> b, source |-> source,
                          first |-> assessment, synced |-> refresh \/ stale # {}]
    /\ UNCHANGED <<venue, blocksNewOpens, bar, closes, restarts, faults, owned, trusted>>
    /\ reported' = "none"

\* apply_reconciliation_assessment_state.
Applied(ln, summary) ==
    [ln EXCEPT !.qty = summary.qty, !.priced = summary.priced, !.blocked = ~summary.safe]

RefreshedFor(a) ==
    IF a.available THEN BlockingExceptions(rows, orders, a.snapshot) ELSE blocksNewOpens

FinishReconcile(available) ==
    LET b == recon.bot
        a == IF recon.synced THEN Assess(b, available) ELSE recon.first
    IN  /\ recon.at = "apply"
        /\ lane' = [lane EXCEPT ![b] =
                       [Applied(@, a.summary) EXCEPT
                          !.state = IF a.summary.safe /\ lane[b].resume THEN "running" ELSE "paused",
                          !.booting = FALSE, !.resume = FALSE]]
        /\ blocksNewOpens' = RefreshedFor(a)
        /\ recon' = Idle
        /\ trusted' = [trusted EXCEPT ![b] = IF @ = "restarted" THEN "yes" ELSE @]
        /\ UNCHANGED <<venue, rows, orders, bar, closes, restarts, faults, owned>>
        /\ reported' = "none"

\* The journal fails: a startup reconciliation pauses the lane, a manual one
\* leaves it Reconciling.
FailReconcile ==
    /\ recon.at = "apply"
    /\ recon' = Idle
    /\ lane' = IF recon.source = "startup"
               THEN [lane EXCEPT ![recon.bot].state = "paused", ![recon.bot].blocked = TRUE,
                                 ![recon.bot].booting = FALSE, ![recon.bot].resume = FALSE]
               ELSE lane
    /\ UNCHANGED <<venue, rows, orders, blocksNewOpens, bar, closes, restarts, faults, owned,
                   trusted>>
    /\ reported' = "none"

\* Without a snapshot the exceptions stay as they are.
RefreshFromConnector(current) ==
    \E fetched \in SnapshotOutcomes:
        blocksNewOpens' = IF fetched THEN BlockingExceptions(rows, orders, venue) ELSE current

\* start_instance and resume_instance refresh the ledger from the connector.
Resume(b) ==
    /\ Quiet /\ lane[b].state = "paused" /\ ~lane[b].blocked
    /\ lane' = [lane EXCEPT ![b].state = "running"]
    /\ RefreshFromConnector(blocksNewOpens)
    /\ UNCHANGED <<venue, rows, orders, recon, bar, closes, restarts, faults, owned, trusted>>
    /\ reported' = "none"

Pause(b) ==
    /\ Running(b)
    /\ lane' = [lane EXCEPT ![b].state = "paused"]
    /\ UNCHANGED <<venue, rows, orders, blocksNewOpens, recon, bar, closes, restarts, faults,
                   owned, trusted>>
    /\ reported' = "none"

\* The process dies and starts again: every lane is built flat; those that
\* were Running or Reconciling are reconciled before anything else, and those
\* that were Running resume after it.
Restart ==
    /\ restarts < MaxRestarts
    /\ restarts' = restarts + 1
    /\ lane' = [b \in Bots |->
                  LET reconciles == lane[b].state # "paused"
                  IN  [state |-> IF reconciles THEN "reconciling" ELSE "paused",
                       qty |-> 0, priced |-> FALSE, blocked |-> reconciles,
                       booting |-> reconciles,
                       resume |-> lane[b].state = "running" \/ lane[b].resume]]
    /\ recon' = Idle
    /\ RefreshFromConnector(FALSE)
    /\ trusted' = [b \in Bots |-> "restarted"]
    /\ UNCHANGED <<venue, rows, orders, bar, closes, faults, owned>>
    /\ reported' = "none"

\* The venue and the market.
VenueFills(id) ==
    /\ id \in venue.open
    /\ venue.qty < MaxShares /\ owned[id[1]] < MaxShares
    /\ venue' = [qty |-> venue.qty + 1, open |-> venue.open \ {id}]
    /\ owned' = [owned EXCEPT ![id[1]] = @ + 1]
    /\ UNCHANGED <<lane, rows, orders, blocksNewOpens, recon, bar, closes, restarts, faults,
                   trusted>>
    /\ reported' = "none"

ExternalTrade ==
    /\ External
    /\ \E q \in {venue.qty - 1, venue.qty + 1} \cap (0..MaxShares):
         venue' = [venue EXCEPT !.qty = q]
    /\ UNCHANGED <<lane, rows, orders, blocksNewOpens, recon, bar, closes, restarts, faults,
                   owned, trusted>>
    /\ reported' = "none"

NextBar ==
    /\ bar < MaxBars
    /\ bar' = bar + 1
    /\ UNCHANGED <<venue, lane, rows, orders, blocksNewOpens, recon, closes, restarts, faults,
                   owned, trusted>>
    /\ reported' = "none"

Next ==
    \/ \E b \in Bots:
         \/ Open(b) \/ Close(b) \/ OtherSymbolFill(b)
         \/ ManualClose(b) \/ CancelOpenOrders(b)
         \/ BeginReconcile(b, "manual") \/ BeginReconcile(b, "startup")
         \/ Resume(b) \/ Pause(b)
    \/ \E available \in SnapshotOutcomes: FinishReconcile(available)
    \/ FailReconcile \/ Restart
    \/ \E id \in venue.open: VenueFills(id)
    \/ ExternalTrade \/ NextBar

Spec == Init /\ [][Next]_vars

----------------------------------------------------------------------------
(* A running lane holds what the newest record of its position says, after
   any number of restarts, reconciliations, manual closes and rows left by
   older versions; unless a record was lost, or a lane that was not running
   came back flat (Lifecycle). *)
RunningLaneMatchesJournal ==
    \A b \in Bots: lane[b].state = "running" /\ trusted[b] = "yes" =>
        lane[b].qty = AuthoritativeQuantity(AuthoritativeIn(rows[b], 0))

(* No bot sells a share that another bot, or someone outside, has bought. *)
OwnSharesOnly == \A b \in Bots: owned[b] >= 0

(* Together the bots' records never claim more shares than the venue holds:
   a reconciliation does not hand the account's position to two bots. *)
ManagedWithinVenue == AggregateManaged(rows) <= venue.qty

(* A reconciliation replaces a row of an older version at most once, however
   often the process restarts. *)
RefreshedOnce ==
    \A b \in Bots:
        Cardinality({i \in DOMAIN rows[b] : rows[b][i].reason = "managed_state_refresh"})
          <= Cardinality({i \in DOMAIN rows[b] : rows[b][i].reason = "reconciliation_sync"})

(* A manual close that is answered without an error leaves the lane and the
   account without the position. *)
ManualCloseCloses ==
    [][\A b \in Bots: ManualClose(b) /\ reported' \in {"flat", "submitted"}
           => lane'[b].qty = 0 /\ (RemoteSnapshot => venue'.qty = 0)]_vars

(* A manual close reported as submitted has sold the position and journalled
   it, so that a restart does not bring it back. *)
SubmittedIsDurable ==
    [][\A b \in Bots: ManualClose(b) /\ reported' = "submitted"
           => AuthoritativeQuantity(LatestAuthoritative(rows'[b])) = 0]_vars
=============================================================================
