---------------------------- MODULE RemoteOrders ----------------------------
(***************************************************************************)
(* How a connector places an order at its venue and reads its account back *)
(* (submit_remote_order and fetch_remote_snapshot of the Alpaca and the    *)
(* Binance connectors).                                                    *)
(*                                                                         *)
(* submit_remote_order posts a market order, and polls the order's status  *)
(* a bounded number of times until the venue reports a terminal one.  The  *)
(* answer to the post or to a poll can be lost: the call then fails while  *)
(* the order stands.  fetch_remote_snapshot assembles one snapshot from    *)
(* several requests, between which the venue goes on executing orders.     *)
(*                                                                         *)
(* Quantities are multiples of the finest quantity a lane computes.  Of an *)
(* answer's fills only the commission charged in the bought asset is kept; *)
(* prices and the fee's value in dollars are left out.                     *)
(***************************************************************************)
EXTENDS Integers, Sequences, FiniteSets

CONSTANTS
    Venue,          \* "alpaca" or "binance"
    Ids,            \* client order ids, one call of submit_order each
    Side,           \* [Ids -> {"buy", "sell"}]
    MaxQuantity,    \* bound on a request's quantity
    QuantityStep,   \* the 8 decimals Binance takes, in units of the model
    PollAttempts,   \* *_ORDER_STATUS_POLL_ATTEMPTS
    BaseFees,       \* commissions a fill may charge in the bought asset
    OpenLimit       \* the limit of Alpaca's request for the open orders

ASSUME OrdersAssumption ==
    /\ Venue \in {"alpaca", "binance"}
    /\ Side \in [Ids -> {"buy", "sell"}]
    /\ {MaxQuantity, PollAttempts, OpenLimit} \subseteq Nat
    /\ QuantityStep \in Nat \ {0}
    /\ BaseFees \subseteq Nat

VARIABLES
    orders,   \* the venue: [Ids -> [status, size, executed, fee]]
    calls,    \* [Ids -> [pc, attempt, request, payload, result]]
    snap      \* the snapshot being taken: [read, known, open, unlisted, positions,
              \* balances]

vars == <<orders, calls, snap>>

-----------------------------------------------------------------------------
\* The venue.

OpenStatuses == {"new", "partially_filled"}
ClosedStatuses == {"filled", "canceled", "expired", "rejected"}

IsOpen(id) == orders[id].status \in OpenStatuses
IsPlaced(id) == orders[id].status # "none"

\* What an order has moved on the account: the quantity bought arrives
\* without the commission charged in it.
Received(id) == orders[id].executed - orders[id].fee

Unplaced == [status |-> "none", size |-> 0, executed |-> 0, fee |-> 0]

\* An order of which n more units are executed, for a commission f.
Executed(o, n, f) ==
    [status |-> IF o.executed + n = o.size THEN "filled"
                ELSE IF o.executed + n > 0 THEN "partially_filled"
                ELSE "new",
     size |-> o.size, executed |-> o.executed + n, fee |-> o.fee + f]

\* A commission is part of what a fill bought, and is charged in the bought
\* asset on purchases only.
FeesOf(id, n) == {f \in BaseFees \cup {0}: f = 0 \/ (f < n /\ Side[id] = "buy")}

\* The venue goes on executing an open order, or closes it for good.
VenueExecutes(id) ==
    /\ IsOpen(id)
    /\ \E n \in 1..(orders[id].size - orders[id].executed): \E f \in FeesOf(id, n):
          orders' = [orders EXCEPT ![id] = Executed(@, n, f)]
    /\ UNCHANGED <<calls, snap>>

VenueCloses(id) ==
    /\ IsOpen(id)
    /\ \E s \in {"canceled", "expired"}: orders' = [orders EXCEPT ![id].status = s]
    /\ UNCHANGED <<calls, snap>>

-----------------------------------------------------------------------------
\* What the connectors make of an answer.

NoPayload == [status |-> "none", executed |-> 0, fills |-> 0]

\* The answer to the post.  Binance is asked for the FULL answer, the one
\* that lists the fills with their commissions.
SubmitPayload(o) ==
    [status |-> o.status, executed |-> o.executed,
     fills |-> IF Venue = "binance" THEN o.fee ELSE 0]

\* The answer to a status request lists no fills.
StatusPayload(o) == [status |-> o.status, executed |-> o.executed, fills |-> 0]

AlpacaTerminal == {"filled", "canceled", "expired", "rejected", "suspended",
                   "stopped", "done_for_day", "calculated", "replaced"}
BinanceTerminal == {"filled", "canceled", "rejected", "expired", "expired_in_match"}

IsTerminal(payload) ==
    payload.status \in (IF Venue = "binance" THEN BinanceTerminal ELSE AlpacaTerminal)

AlpacaQuantity(payload) == payload.executed

BinanceNetQuantity(payload, side) ==
    IF side = "buy" /\ payload.executed > payload.fills
    THEN payload.executed - payload.fills
    ELSE IF side = "buy" THEN 0 ELSE payload.executed

AcceptedQuantity(payload, side) ==
    IF Venue = "binance" THEN BinanceNetQuantity(payload, side) ELSE AlpacaQuantity(payload)

\* Binance takes 8 decimals: the quantity is cut down to them.  Alpaca's
\* 12 decimals are finer than the model's unit.
FormatQuantity(q) == IF Venue = "binance" THEN (q \div QuantityStep) * QuantityStep ELSE q

-----------------------------------------------------------------------------
\* submit_remote_order.

Running(id, pc) == calls[id].pc = pc

Return(id, result) ==
    calls' = [calls EXCEPT ![id] = [@ EXCEPT !.pc = "done", !.result = result]]

\* The loop looks at an answer next.
Answer(id, attempt, payload) ==
    calls' = [calls EXCEPT ![id] = [@ EXCEPT !.pc = "decide", !.attempt = attempt,
                                             !.payload = payload]]

Failed == [ok |-> FALSE, quantity |-> 0]
Accepted(q) == [ok |-> TRUE, quantity |-> q]

\* The local router refuses an empty quantity before anything is sent.
RefusedLocally(id) ==
    /\ Running(id, "submit")
    /\ calls[id].request = 0
    /\ Return(id, Failed)
    /\ UNCHANGED <<orders, snap>>

\* The venue refuses the post (an HTTP error, a rate limit, a quantity cut
\* down to nothing), or the post never arrives.
PostRefused(id) ==
    /\ Running(id, "submit")
    /\ calls[id].request > 0
    /\ Return(id, Failed)
    /\ UNCHANGED <<orders, snap>>

\* The venue takes the order, and may execute or reject it before it answers.
PostAccepted(id) ==
    /\ Running(id, "submit")
    /\ FormatQuantity(calls[id].request) > 0
    /\ LET placed == [Unplaced EXCEPT !.size = FormatQuantity(calls[id].request)]
       IN \E n \in 0..placed.size: \E f \in FeesOf(id, n), rejected \in BOOLEAN:
             LET o == Executed(placed, n, f)
                 order == IF rejected /\ n = 0 THEN [o EXCEPT !.status = "rejected"] ELSE o
             IN /\ orders' = [orders EXCEPT ![id] = order]
                /\ \/ Answer(id, 0, SubmitPayload(order))
                   \/ Return(id, Failed)    \* the answer is lost
    /\ UNCHANGED snap

\* One turn of the loop: a terminal status ends the call, with the quantity
\* executed or with an error; the last attempt gives up; otherwise the thread
\* sleeps before it asks for the status.
Decide(id) ==
    /\ Running(id, "decide")
    /\ LET call == calls[id]
           q == AcceptedQuantity(call.payload, Side[id])
       IN \/ /\ IsTerminal(call.payload)
             /\ Return(id, IF q > 0 THEN Accepted(q) ELSE Failed)
          \/ /\ ~IsTerminal(call.payload)
             /\ call.attempt = PollAttempts
             /\ Return(id, Failed)
          \/ /\ ~IsTerminal(call.payload)
             /\ call.attempt < PollAttempts
             /\ calls' = [calls EXCEPT ![id].pc = "poll"]
    /\ UNCHANGED <<orders, snap>>

PollStatus(id) ==
    /\ Running(id, "poll")
    /\ \/ Answer(id, calls[id].attempt + 1, StatusPayload(orders[id]))
       \/ Return(id, Failed)    \* a failed or rate limited request ends the call
    /\ UNCHANGED <<orders, snap>>

-----------------------------------------------------------------------------
\* fetch_remote_snapshot.

\* Mutant: the open orders are asked for last.
OrdersLast == IF Venue = "alpaca" THEN <<"positions", "account", "orders">>
              ELSE <<"account", "orders">>

\* Mutant: the account is asked for before the positions.
AccountFirst == IF Venue = "alpaca" THEN <<"orders", "account", "positions">>
                ELSE <<"orders", "account">>

\* The requests of a snapshot, in their order.
Requests == IF Venue = "alpaca" THEN <<"orders", "positions", "account">>
            ELSE <<"orders", "account">>

NoSnapshot == [read |-> 0, known |-> {}, open |-> {}, unlisted |-> {},
               positions |-> [id \in Ids |-> 0], balances |-> [id \in Ids |-> 0]]

IsComplete(s) == s.read = Len(Requests)

\* What each order has brought into the positions, and what it has taken out
\* of (or, a sale, brought into) the cash.
PositionsNow == [id \in Ids |-> Received(id)]
BalancesNow == [id \in Ids |-> orders[id].executed]

OpenNow == {id \in Ids: IsOpen(id)}

\* The open orders an answer may list: all of them at Binance; at Alpaca no
\* more than the limit, and no request for the rest follows.
Listings ==
    {listed \in SUBSET OpenNow:
        \/ listed = OpenNow /\ (Venue = "binance" \/ Cardinality(OpenNow) <= OpenLimit)
        \/ Venue = "alpaca" /\ Cardinality(listed) = OpenLimit}

\* The answer to one request.  A Binance account holds balances that are the
\* positions too.
Answered(s, request, listed) ==
    CASE request = "orders" -> [s EXCEPT !.open = listed, !.unlisted = OpenNow \ listed]
      [] request = "positions" -> [s EXCEPT !.positions = PositionsNow]
      [] request = "account" ->
            [s EXCEPT !.balances = BalancesNow,
                      !.positions = IF Venue = "binance" THEN PositionsNow ELSE @]

\* The next request is answered; known is what the venue had taken when the
\* snapshot began.
ReadNext ==
    /\ ~IsComplete(snap)
    /\ LET begun == IF snap.read = 0
                    THEN [NoSnapshot EXCEPT !.known = {id \in Ids: IsPlaced(id)}]
                    ELSE snap
       IN \E listed \in Listings:
             snap' = [Answered(begun, Requests[snap.read + 1], listed) EXCEPT !.read = @ + 1]
    /\ UNCHANGED <<orders, calls>>

\* A failed request fails the snapshot, a complete one is handed over; the
\* next reconciliation begins another.
SnapshotOver ==
    /\ snap.read > 0
    /\ snap' = NoSnapshot
    /\ UNCHANGED <<orders, calls>>

-----------------------------------------------------------------------------
Init ==
    /\ orders = [id \in Ids |-> Unplaced]
    /\ calls \in [Ids -> [pc: {"submit"}, attempt: {0}, request: 0..MaxQuantity,
                          payload: {NoPayload}, result: {Failed}]]
    /\ snap = NoSnapshot

Call(id) ==
    \/ RefusedLocally(id)
    \/ PostRefused(id)
    \/ PostAccepted(id)
    \/ Decide(id)
    \/ PollStatus(id)

Next ==
    \/ \E id \in Ids: Call(id) \/ VenueExecutes(id) \/ VenueCloses(id)
    \/ ReadNext
    \/ SnapshotOver

Spec == Init /\ [][Next]_vars

\* The HTTP client bounds every request and every sleep ends: a call that has
\* begun takes its next step.  Nothing is asked of the venue.
FairSpec == Spec /\ \A id \in Ids: WF_vars(Call(id))

-----------------------------------------------------------------------------
\* The shape of the state.  The venue never holds an order larger than what
\* was asked for: format_binance_quantity only cuts down.
TypeOK ==
    /\ orders \in [Ids -> [status: {"none"} \cup OpenStatuses \cup ClosedStatuses,
                           size: 0..MaxQuantity, executed: 0..MaxQuantity,
                           fee: 0..MaxQuantity]]
    /\ \A id \in Ids:
          /\ calls[id].pc \in {"submit", "decide", "poll", "done"}
          /\ calls[id].attempt \in 0..PollAttempts
          /\ orders[id].executed <= orders[id].size
          /\ orders[id].size <= calls[id].request
    /\ snap.read \in 0..Len(Requests)
    /\ snap.open \cup snap.known \cup snap.unlisted \subseteq Ids

\* A call that succeeds reports the order as it stays: the venue will not
\* execute any more of it, and the quantity reported lies between what the
\* account received and what was executed (submit_remote_order returns Ok for
\* a terminal status only).
AcceptedOrderIsFinal ==
    \A id \in Ids: Running(id, "done") /\ calls[id].result.ok =>
        /\ orders[id].status \in ClosedStatuses
        /\ calls[id].result.quantity \in Received(id)..orders[id].executed

\* A call answered by the post itself reports exactly what the account
\* received, the commission charged in the bought asset taken off
\* (net_quantity_from_binance_payload).
AcceptedAtOnceIsReceived ==
    \A id \in Ids: Running(id, "done") /\ calls[id].result.ok /\ calls[id].attempt = 0 =>
        calls[id].result.quantity = Received(id)

\* Every successful call reports exactly what the account received.
AcceptedIsReceived ==
    \A id \in Ids: Running(id, "done") /\ calls[id].result.ok =>
        calls[id].result.quantity = Received(id)

\* A complete snapshot misses no order it could know of, whatever the venue
\* executed between its requests and whatever became of the call that placed
\* the order: an order taken before the snapshot began is among the open
\* orders, or all it will ever bring is in the positions.  It takes for granted
\* that no more orders were open than an answer lists.
SnapshotMissesNothing ==
    IsComplete(snap) /\ snap.unlisted = {} =>
        \A id \in snap.known: id \in snap.open \/ snap.positions[id] = Received(id)

\* No purchase is counted twice: what a complete snapshot shows as bought is
\* gone from the cash it shows, although positions and cash are read apart.
PurchaseIsCountedOnce ==
    IsComplete(snap) =>
        \A id \in Ids: Side[id] = "buy" => snap.balances[id] >= snap.positions[id]

\* Every call returns, though the venue may never finish the order: the
\* attempts are counted.
CallReturns == \A id \in Ids: <>Running(id, "done")

=============================================================================
